---------------------- MODULE IdempotentCreateProofs ----------------------
(***************************************************************************)
(* Proofs of the safety properties of IdempotentCreate, for every set of   *)
(* invocations, environments and requests, every timeout and expiry, and   *)
(* whichever faults happen.                                                *)
(***************************************************************************)
EXTENDS IdempotentCreate, TLAPS

(* What the handler finds in the table and what it answers have the right *)
(* types (idempotency.ts:8, 93-104).                                      *)
LEMMA RecordTypes ==
    ASSUME TypeOK, NEW i \in Invocations, req[i] \in Requests
    PROVE  /\ Keyed(i) => Scope(i) \in Scopes
           /\ Completed(i) \in Records
           /\ env[i] # None /\ lambdaContext[env[i]] # None => InProgress(i) \in Records
           /\ Keyed(i) /\ ~Claimable(record[Scope(i)])
                 => Replay(record[Scope(i)], req[i].body) \in Answers
  <1> USE DEF TypeOK, Requests
  <1>1. Keyed(i) => Scope(i) \in Scopes
    BY DEF Keyed, Scope, ScopeOf, Scopes
  <1>2. Completed(i) \in Records
    BY ClockAssumption DEF Completed, Records
  <1>3. env[i] # None /\ lambdaContext[env[i]] # None => InProgress(i) \in Records
    BY ClockAssumption DEF InProgress, Records
  <1>4. Keyed(i) /\ ~Claimable(record[Scope(i)])
           => Replay(record[Scope(i)], req[i].body) \in Answers
    BY <1>1 DEF Claimable, Replay, Answers, Records, Absent
  <1> QED BY <1>1, <1>2, <1>3, <1>4

-----------------------------------------------------------------------------
(* Types, and Lambda's side of the model: TypeOK, EnvInv and PcInv together   *)
(* are inductive.                                                             *)

Base == TypeOK /\ EnvInv /\ PcInv

\* At the start nothing runs, nothing is claimed and nobody is answered.
LEMMA BaseInit == Init => Base
  <1> SUFFICES ASSUME Init PROVE Base
    OBVIOUS
  <1> USE DEF Init
  <1>1. TypeOK
    BY ConstantsAssumption DEF TypeOK, Labels, Records
  <1>2. EnvInv /\ PcInv
    BY DEF EnvInv, PcInv, Running
  <1> QED BY <1>1, <1>2 DEF Base

\* Every step keeps the types.
LEMMA TypeStep == Base /\ [Next]_vars => TypeOK'
  <1> SUFFICES ASSUME TypeOK, EnvInv, PcInv, [Next]_vars PROVE TypeOK'
    BY DEF Base
  <1> USE DEF TypeOK, Labels, Goto, Leave
  <1>1. ASSUME NEW i \in Invocations, Start(i) PROVE TypeOK'
    BY <1>1, ClockAssumption DEF Start, Bind
  <1>2. ASSUME NEW i \in Invocations, Claim(i) \/ ClaimUnheard(i) PROVE TypeOK'
    <2>1. InProgress(i) \in Records
      BY <1>2, RecordTypes, ConstantsAssumption DEF Claim, ClaimUnheard, EnvInv, Running
    <2> QED BY <1>2, <2>1 DEF Claim, ClaimUnheard, Respond, Answers, AlreadyInProgress, Failed
  <1>3. ASSUME NEW i \in Invocations, AnswerFromRecord(i) PROVE TypeOK'
    BY <1>3, RecordTypes DEF AnswerFromRecord, Respond, PcInv
  <1>4. ASSUME NEW i \in Invocations, ClaimFails(i) \/ SaveFails(i) PROVE TypeOK'
    BY <1>4 DEF ClaimFails, SaveFails, Respond, Failed, Answers
  <1>5. ASSUME NEW i \in Invocations,
               ConnectFails(i) \/ ReceiveError(i) \/ LoseConnection(i)
        PROVE  TypeOK'
    BY <1>5 DEF ConnectFails, ReceiveError, LoseConnection, Throw, Respond, Failed, Answers
  <1>6. ASSUME NEW i \in Invocations, SendInsert(i) \/ Settle(i) PROVE TypeOK'
    BY <1>6 DEF SendInsert, Settle
  <1>7. ASSUME NEW i \in Invocations, ReceiveRow(i) \/ Return(i) PROVE TypeOK'
    BY <1>7 DEF ReceiveRow, Return, Respond, Made, Answers
  <1>8. ASSUME NEW i \in Invocations, Release(i) PROVE TypeOK'
    BY <1>8 DEF Release, Respond, Failed, Answers, Records
  <1>9. ASSUME NEW i \in Invocations, SaveSuccess(i) \/ SaveUnheard(i) PROVE TypeOK'
    <2>1. Completed(i) \in Records
      BY <1>9, RecordTypes DEF SaveSuccess, SaveUnheard
    <2> QED BY <1>9, <2>1 DEF SaveSuccess, SaveUnheard, Respond, Failed, Answers
  <1>10. ASSUME NEW i \in Invocations, Kill(i) PROVE TypeOK'
    BY <1>10 DEF Kill, Bind, Running
  <1>11. CASE Tick \/ UNCHANGED vars
    BY <1>11 DEF Tick, vars
  <1> QED
    <2> HIDE DEF TypeOK, Labels, Goto, Leave
    <2> QED
      BY <1>1, <1>2, <1>3, <1>4, <1>5, <1>6, <1>7, <1>8, <1>9, <1>10, <1>11
      DEF Next, Proceed, CallFails

\* What a handler step does to the invocation that takes it: it stays in its
\* environment, or it leaves it for good.
Stays(i) == \E label \in Labels \ {"idle", "done", "killed"} : Goto(i, label)
Leaves(i) == \E label \in {"done", "killed"} : Leave(i, label)

\* A step of the handler leaves the invocation where Lambda put it, or ends it.
LEMMA StaysOrLeaves ==
    ASSUME NEW i \in Invocations, Proceed(i) \/ CallFails(i)
    PROVE  /\ Running(i)
           /\ Stays(i) \/ Leaves(i)
           /\ UNCHANGED <<now, req, lambdaContext>>
  <1> USE DEF Stays, Leaves, Labels, Running
  <1>1. CASE Proceed(i)
    BY <1>1 DEF Proceed, Claim, AnswerFromRecord, SendInsert, ReceiveRow, ReceiveError,
       Release, SaveSuccess, Return, Respond, Throw
  <1>2. CASE CallFails(i)
    BY <1>2 DEF CallFails, ClaimUnheard, ClaimFails, ConnectFails, LoseConnection,
       SaveUnheard, SaveFails, Respond, Throw
  <1> QED BY <1>1, <1>2

\* Every step keeps an invocation alone in its environment, within its deadline
\* and with its own context bound.
LEMMA EnvStep == Base /\ [Next]_vars => EnvInv'
  <1> SUFFICES ASSUME TypeOK, EnvInv, [Next]_vars PROVE EnvInv'
    BY DEF Base
  <1> USE DEF TypeOK, EnvInv, Running
  <1>1. ASSUME NEW i \in Invocations, Start(i) PROVE EnvInv'
    BY <1>1, ClockAssumption, ConstantsAssumption DEF Start, Bind
  <1>2. ASSUME NEW i \in Invocations, Running(i), Stays(i), UNCHANGED <<now, lambdaContext>>
        PROVE  EnvInv'
    BY <1>2 DEF Stays, Goto
  <1>3. ASSUME NEW i \in Invocations, Running(i), Leaves(i), UNCHANGED <<now, lambdaContext>>
        PROVE  EnvInv'
    BY <1>3 DEF Leaves, Leave
  <1>4. ASSUME NEW i \in Invocations, Kill(i) PROVE EnvInv'
    BY <1>4 DEF Kill, Leave, Bind
  <1>5. ASSUME NEW i \in Invocations, Settle(i) PROVE EnvInv'
    BY <1>5 DEF Settle
  <1>6. CASE Tick
    BY <1>6, ClockAssumption DEF Tick
  <1>7. CASE UNCHANGED vars
    BY <1>7 DEF vars
  <1> QED
    <2> HIDE DEF TypeOK, EnvInv, Running
    <2> QED BY <1>1, <1>2, <1>3, <1>4, <1>5, <1>6, <1>7, StaysOrLeaves DEF Next

\* Every step keeps the program counter, the request and the INSERT together.
LEMMA PcStep == Base /\ [Next]_vars => PcInv'
  <1> SUFFICES ASSUME TypeOK, PcInv, [Next]_vars PROVE PcInv'
    BY DEF Base
  <1> USE DEF TypeOK, PcInv, Keyed, Goto, Leave, Respond
  <1>1. ASSUME NEW i \in Invocations, Start(i) PROVE PcInv'
    BY <1>1, NoneIsNoRequest, ConstantsAssumption DEF Start, Requests
  <1>2. ASSUME NEW i \in Invocations, Proceed(i) PROVE PcInv'
    BY <1>2 DEF Proceed, Claim, AnswerFromRecord, SendInsert, ReceiveRow, ReceiveError,
       Release, SaveSuccess, Return, Throw
  <1>3. ASSUME NEW i \in Invocations, CallFails(i) PROVE PcInv'
    BY <1>3 DEF CallFails, ClaimUnheard, ClaimFails, ConnectFails, LoseConnection,
       SaveUnheard, SaveFails, Throw
  <1>4. ASSUME NEW i \in Invocations, Kill(i) \/ Settle(i) PROVE PcInv'
    BY <1>4 DEF Kill, Settle, Running
  <1>5. CASE Tick \/ UNCHANGED vars
    BY <1>5 DEF Tick, vars
  <1> QED
    <2> HIDE DEF TypeOK, PcInv
    <2> QED BY <1>1, <1>2, <1>3, <1>4, <1>5 DEF Next

\* The types hold in every state the handler can reach (idempotency.ts).
THEOREM TypeCorrect == Spec => []TypeOK
  <1>1. Init => Base
    BY BaseInit
  <1>2. Base /\ [Next]_vars => Base'
    BY TypeStep, EnvStep, PcStep DEF Base
  <1>3. Base => TypeOK
    BY DEF Base
  <1> QED BY <1>1, <1>2, <1>3, PTL DEF Spec

-----------------------------------------------------------------------------
(* Who owns a record: HolderInv and OneHolder.                                *)

\* A keyed request has a record in the table.
LEMMA ScopeIsScope ==
    ASSUME TypeOK, NEW i \in Invocations, Keyed(i)
    PROVE  req[i] \in Requests /\ Scope(i) \in Scopes
  BY DEF TypeOK, Keyed, Requests, Scope, ScopeOf, Scopes

\* A claim outlives the invocation that made it.
LEMMA HolderBlocks ==
    ASSUME TypeOK, EnvInv, HolderInv, NEW i \in Invocations, Holds(i)
    PROVE  ~Claimable(record[Scope(i)])
  <1>1. Running(i) /\ deadline[i] >= now /\ deadline[i] \in Nat /\ now \in Nat
    BY DEF Holds, Running, EnvInv, TypeOK
  <1>2. record[Scope(i)] \in Records
    BY ScopeIsScope DEF TypeOK, Holds
  <1> QED BY <1>1, <1>2 DEF HolderInv, Claimable, Records, Absent

\* The steps that leave the table, the requests and who holds what alone, or
\* end a claim without touching its record.
LEMMA HolderQuiet ==
    ASSUME HolderInv, OneHolder, UNCHANGED <<req, record>>,
           \A j \in Invocations : Holds(j)' => Holds(j) /\ deadline'[j] = deadline[j]
    PROVE  HolderInv' /\ OneHolder'
  BY DEF HolderInv, OneHolder, Scope

\* Every step leaves a holder its record, and the only holder of it.
LEMMA HolderStep ==
    Base /\ HolderInv /\ OneHolder /\ [Next]_vars => HolderInv' /\ OneHolder'
  <1> SUFFICES ASSUME TypeOK, EnvInv, PcInv, HolderInv, OneHolder, [Next]_vars
               PROVE  HolderInv' /\ OneHolder'
    BY DEF Base
  <1> USE DEF Goto, Leave, Respond
  <1>1. ASSUME NEW i \in Invocations, Start(i) PROVE HolderInv' /\ OneHolder'
    <2>1. ~Holds(i)'
      BY <1>1 DEF Start, Holds, Keyed, TypeOK
    <2>2. \A j \in Invocations \ {i} :
             /\ req'[j] = req[j] /\ pc'[j] = pc[j] /\ deadline'[j] = deadline[j]
      BY <1>1 DEF Start, TypeOK
    <2>3. record' = record
      BY <1>1 DEF Start
    <2> QED BY <2>1, <2>2, <2>3 DEF HolderInv, OneHolder, Holds, Keyed, Scope
  <1>2. ASSUME NEW i \in Invocations, Claim(i) \/ ClaimUnheard(i)
        PROVE  HolderInv' /\ OneHolder'
    <2>1. Keyed(i) /\ Scope(i) \in Scopes /\ Claimable(record[Scope(i)])
      BY <1>2, ScopeIsScope DEF Claim, ClaimUnheard, PcInv
    <2>2. ASSUME NEW j \in Invocations, Holds(j) PROVE Scope(j) # Scope(i)
      BY <2>1, <2>2, HolderBlocks
    <2>3. /\ req' = req
          /\ record' = [record EXCEPT ![Scope(i)] = InProgress(i)]
          /\ \A j \in Invocations \ {i} : pc'[j] = pc[j] /\ deadline'[j] = deadline[j]
          /\ Holds(i)' => deadline'[i] = deadline[i]
      BY <1>2 DEF Claim, ClaimUnheard, TypeOK, Holds
    <2>4. /\ InProgress(i).status = "INPROGRESS"
          /\ InProgress(i).inProgressExpiry = deadline[i]
          /\ InProgress(i).expiry >= deadline[i]
      BY <1>2, ClockAssumption DEF Claim, ClaimUnheard, EnvInv, Running, InProgress, TypeOK
    <2>5. \A j \in Invocations \ {i} : Holds(j)' => Holds(j) /\ Scope(j)' = Scope(j)
      BY <2>3 DEF Holds, Keyed, Scope
    <2>6. HolderInv'
      BY <2>1, <2>2, <2>3, <2>4, <2>5 DEF HolderInv, TypeOK, Scope
    <2>7. OneHolder'
      BY <2>2, <2>3, <2>5 DEF OneHolder, Scope
    <2> QED BY <2>6, <2>7
  <1>3. ASSUME NEW i \in Invocations, Release(i) \/ SaveSuccess(i) \/ SaveUnheard(i)
        PROVE  HolderInv' /\ OneHolder'
    <2>1. Holds(i) /\ ~Holds(i)'
      BY <1>3 DEF Release, SaveSuccess, SaveUnheard, Holds, PcInv, TypeOK
    <2>2. /\ req' = req
          /\ \A s \in Scopes \ {Scope(i)} : record'[s] = record[s]
          /\ \A j \in Invocations \ {i} : pc'[j] = pc[j] /\ deadline'[j] = deadline[j]
      BY <1>3 DEF Release, SaveSuccess, SaveUnheard, TypeOK
    <2>3. \A j \in Invocations : Holds(j)' => /\ Holds(j) /\ j # i /\ Scope(j)' = Scope(j)
                                             /\ Scope(j) \in Scopes \ {Scope(i)}
      BY <2>1, <2>2, ScopeIsScope DEF Holds, Keyed, Scope, OneHolder
    <2> QED BY <2>2, <2>3 DEF HolderInv, OneHolder
  <1>4. ASSUME NEW i \in Invocations,
               \/ AnswerFromRecord(i) \/ ClaimFails(i) \/ SaveFails(i) \/ Return(i) \/ Kill(i)
               \/ SendInsert(i) \/ ConnectFails(i) \/ ReceiveRow(i) \/ ReceiveError(i)
               \/ LoseConnection(i) \/ Settle(i)
        PROVE  HolderInv' /\ OneHolder'
    <2>1. \A j \in Invocations : Holds(j)' => Holds(j) /\ deadline'[j] = deadline[j]
      BY <1>4 DEF AnswerFromRecord, ClaimFails, SaveFails, Return, Kill, SendInsert,
         ConnectFails, ReceiveRow, ReceiveError, LoseConnection, Settle, Throw, Holds,
         Keyed, TypeOK
    <2>2. UNCHANGED <<req, record>>
      BY <1>4 DEF AnswerFromRecord, ClaimFails, SaveFails, Return, Kill, SendInsert,
         ConnectFails, ReceiveRow, ReceiveError, LoseConnection, Settle
    <2> QED BY <2>1, <2>2, HolderQuiet
  <1>5. CASE Tick \/ UNCHANGED vars
    BY <1>5, HolderQuiet DEF Tick, vars, Holds, Keyed
  <1> QED
    BY <1>1, <1>2, <1>3, <1>4, <1>5 DEF Next, Proceed, CallFails

\* At most one live invocation runs createTodo for a key, whatever is killed,
\* lost or retried (idempotency.ts:19-24, 83).
THEOREM ClaimsAreExclusive == Spec => []OneHolder
  <1>1. Init => Base /\ HolderInv /\ OneHolder
    BY BaseInit DEF Init, HolderInv, OneHolder, Holds
  <1>2. Base /\ HolderInv /\ OneHolder /\ [Next]_vars => (Base /\ HolderInv /\ OneHolder)'
    BY TypeStep, EnvStep, PcStep, HolderStep DEF Base
  <1> QED BY <1>1, <1>2, PTL DEF Spec

-----------------------------------------------------------------------------
(* What the records say: RecordInv and MemoryInv.                             *)

\* Requests and committed rows are for good.
LEMMA Permanent ==
    ASSUME Base, [Next]_vars, NEW i \in Invocations
    PROVE  /\ req[i] # None => req'[i] = req[i]
           /\ insert[i] = "committed" => insert'[i] = "committed"
           /\ Keyed(i) => Keyed(i)' /\ Scope(i)' = Scope(i)
  <1>1. req[i] # None => req'[i] = req[i]
    <2>1. ASSUME NEW j \in Invocations, Start(j), pc[j] = "idle" => req[j] = None
          PROVE  req[i] # None => req'[i] = req[i]
      BY <2>1 DEF Start, Base, TypeOK
    <2>2. \A j \in Invocations : pc[j] = "idle" => req[j] = None
      BY DEF Base, PcInv
    <2>3. CASE UNCHANGED req
      BY <2>3
    <2> QED BY <2>1, <2>2, <2>3, StaysOrLeaves DEF Next, Kill, Settle, Tick, vars
  <1>2. insert[i] = "committed" => insert'[i] = "committed"
    BY DEF Base, TypeOK, PcInv, Next, Proceed, CallFails, Start, Claim, ClaimUnheard,
       AnswerFromRecord, ClaimFails, SendInsert, ConnectFails, ReceiveRow, ReceiveError,
       LoseConnection, Release, SaveSuccess, SaveUnheard, SaveFails, Return, Kill, Settle,
       Tick, vars
  <1> QED BY <1>1, <1>2 DEF Keyed, Scope

\* The three ways a record changes.
LEMMA WritersOfRecords ==
    ASSUME Base, [Next]_vars, NEW s \in Scopes, record'[s] # record[s]
    PROVE  \E i \in Invocations :
             /\ Keyed(i) /\ Scope(i) = s /\ req[i] \in Requests
             /\ \/ /\ Claim(i) \/ ClaimUnheard(i)
                   /\ Claimable(record[s])
                   /\ record'[s] = InProgress(i)
                \/ /\ SaveSuccess(i) \/ SaveUnheard(i)
                   /\ Holds(i) /\ insert[i] = "committed"
                   /\ record'[s] = Completed(i)
                \/ Release(i) /\ Holds(i) /\ record'[s] = Absent
  <1>1. PICK i \in Invocations :
           \/ Claim(i) \/ ClaimUnheard(i) \/ SaveSuccess(i) \/ SaveUnheard(i) \/ Release(i)
    BY DEF Next, Proceed, CallFails, Start, AnswerFromRecord, ClaimFails, SendInsert,
       ConnectFails, ReceiveRow, ReceiveError, LoseConnection, SaveFails, Return, Kill,
       Settle, Tick, vars
  <1>2. Keyed(i) /\ req[i] \in Requests /\ Scope(i) \in Scopes
    BY <1>1, ScopeIsScope DEF Base, PcInv, Claim, ClaimUnheard, SaveSuccess, SaveUnheard, Release
  <1>3. CASE Claim(i) \/ ClaimUnheard(i)
    BY <1>2, <1>3 DEF Base, TypeOK, Claim, ClaimUnheard
  <1>4. CASE SaveSuccess(i) \/ SaveUnheard(i)
    BY <1>2, <1>4 DEF Base, TypeOK, PcInv, Holds, SaveSuccess, SaveUnheard
  <1>5. CASE Release(i)
    BY <1>2, <1>5 DEF Base, TypeOK, Holds, Release
  <1> QED BY <1>1, <1>3, <1>4, <1>5

\* Every step leaves in the table only what was claimed or created for its scope.
LEMMA RecordStep == Base /\ RecordInv /\ [Next]_vars => RecordInv'
  <1> SUFFICES ASSUME Base, RecordInv, [Next]_vars, NEW s \in Scopes, record'[s] # Absent
               PROVE  /\ \E j \in Invocations : Keyed(j)' /\ Scope(j)' = s
                                               /\ req'[j].body = record'[s].validation
                      /\ \A t \in Invocations :
                            record'[s].status = "COMPLETED" /\ record'[s].data = t =>
                              /\ insert'[t] = "committed" /\ Keyed(t)'
                              /\ Scope(t)' = s /\ req'[t].body = record'[s].validation
    BY DEF RecordInv
  <1>1. ASSUME NEW j \in Invocations, Keyed(j)
        PROVE  /\ Keyed(j)' /\ Scope(j)' = Scope(j) /\ req'[j] = req[j]
               /\ insert[j] = "committed" => insert'[j] = "committed"
    BY <1>1, Permanent DEF Keyed
  <1>2. CASE record'[s] = record[s]
    BY <1>1, <1>2 DEF RecordInv
  <1>3. CASE record'[s] # record[s]
    <2>1. PICK i \in Invocations :
             /\ Keyed(i) /\ Scope(i) = s
             /\ \/ record'[s] = InProgress(i)
                \/ insert[i] = "committed" /\ record'[s] = Completed(i)
      BY <1>3, WritersOfRecords
    <2> QED BY <1>1, <2>1 DEF InProgress, Completed
  <1> QED BY <1>2, <1>3

\* Nothing overwrites a completed record before it may be claimed.
LEMMA MemoryLasts ==
    ASSUME Base, HolderInv, [Next]_vars, NEW s \in Scopes, NEW t, NEW d \in Int,
           now <= d, Remembers(s, t, d)
    PROVE  Remembers(s, t, d)'
  <1>1. record[s] \in Records /\ now \in Nat
    BY DEF Base, TypeOK
  <1>2. ~Claimable(record[s])
    BY <1>1 DEF Claimable, Remembers, Records, Absent
  <1>3. \A i \in Invocations : ~(Holds(i) /\ Scope(i) = s)
    BY DEF HolderInv, Remembers
  <1>4. record'[s] = record[s]
    BY <1>2, <1>3, WritersOfRecords
  <1> QED BY <1>4 DEF Remembers

\* How a client comes by a 201.
LEMMA NewCreated ==
    ASSUME Base, [Next]_vars, NEW i \in Invocations, Created(i)'
    PROVE  \/ Created(i) /\ answer'[i] = answer[i]
           \/ /\ pc[i] = "claim" /\ Keyed(i) /\ Scope(i) \in Scopes
              /\ UNCHANGED <<now, record>>
              /\ Remembers(Scope(i), record[Scope(i)].data, now)
              /\ record[Scope(i)].validation = req[i].body
              /\ answer'[i].todo = record[Scope(i)].data /\ answer'[i].at = now
           \/ /\ pc[i] = "return" /\ Keyed(i) /\ UNCHANGED <<now, record>>
              /\ insert[i] = "committed"
              /\ answer'[i] = Made(i)
           \/ /\ ~Keyed(i) /\ req[i] \in Requests /\ UNCHANGED <<now, record>>
              /\ insert[i] = "committed"
              /\ answer'[i] = Made(i)
  <1> USE DEF Created
  <1>1. CASE answer'[i] = answer[i]
    BY <1>1
  <1>2. CASE AnswerFromRecord(i)
    <2>1. Keyed(i) /\ Scope(i) \in Scopes /\ req[i] \in Requests
      BY <1>2, ScopeIsScope DEF AnswerFromRecord, Base, PcInv
    <2>2. record[Scope(i)] \in Records /\ now \in Nat
      BY <2>1 DEF Base, TypeOK
    <2>3. answer'[i] = Replay(record[Scope(i)], req[i].body)
      BY <1>2 DEF AnswerFromRecord, Respond, Base, TypeOK
    <2>4. /\ record[Scope(i)].validation = req[i].body
          /\ record[Scope(i)].status = "COMPLETED"
          /\ answer'[i].todo = record[Scope(i)].data /\ answer'[i].at = now
      BY <1>2, <2>2, <2>3 DEF AnswerFromRecord, Replay, Claimable, Records, Absent
    <2>5. Remembers(Scope(i), record[Scope(i)].data, now)
      BY <1>2, <2>2, <2>4 DEF AnswerFromRecord, Remembers, Claimable, Records, Absent
    <2> QED BY <1>2, <2>1, <2>4, <2>5 DEF AnswerFromRecord
  <1>3. CASE Return(i)
    BY <1>3 DEF Return, Respond, Base, TypeOK, PcInv
  <1>4. CASE ReceiveRow(i)
    BY <1>4 DEF ReceiveRow, Respond, Base, TypeOK, PcInv
  <1>5. ASSUME answer'[i] # answer[i] PROVE AnswerFromRecord(i) \/ Return(i) \/ ReceiveRow(i)
    BY <1>5 DEF Base, TypeOK, Next, Proceed, CallFails, Start, Claim, ClaimUnheard,
       AnswerFromRecord, ClaimFails, SendInsert, ConnectFails, ReceiveRow, ReceiveError,
       LoseConnection, Release, SaveSuccess, SaveUnheard, SaveFails, Return, Kill, Settle,
       Tick, vars, Respond, Throw, Failed, AlreadyInProgress
  <1> QED BY <1>1, <1>2, <1>3, <1>4, <1>5

\* The clock does not go back.
LEMMA NowGrows == Base /\ [Next]_vars => now \in Nat /\ now' \in Nat /\ now <= now'
  <1> SUFFICES ASSUME Base, [Next]_vars PROVE now \in Nat /\ now' \in Nat /\ now <= now'
    OBVIOUS
  <1>1. CASE UNCHANGED now
    BY <1>1 DEF Base, TypeOK
  <1>2. CASE Tick
    BY <1>2 DEF Tick, Base, TypeOK
  <1> QED BY <1>1, <1>2, StaysOrLeaves DEF Next, Start, Kill, Settle, vars

\* From the end of saveSuccess to the answer the record remembers the todo.
LEMMA ReturnStep ==
    ASSUME Base, HolderInv, MemoryInv, [Next]_vars,
           NEW i \in Invocations, pc'[i] = "return"
    PROVE  Remembers(Scope(i), i, deadline[i] - LambdaTimeout + Expiry)'
  <1>1. CASE pc[i] = "return"
    <2> DEFINE d == deadline[i] - LambdaTimeout + Expiry
    <2>1. Keyed(i) /\ Scope(i) \in Scopes /\ Scope(i)' = Scope(i)
      BY <1>1, ScopeIsScope, Permanent DEF Base, PcInv
    <2>2. d \in Int /\ now <= d
      BY <1>1, ClockAssumption DEF Base, TypeOK, EnvInv, Running
    <2>3. deadline'[i] = deadline[i]
      BY <1>1 DEF Base, TypeOK, Next, Proceed, CallFails, Start, Claim, ClaimUnheard,
         AnswerFromRecord, ClaimFails, SendInsert, ConnectFails, ReceiveRow, ReceiveError,
         LoseConnection, Release, SaveSuccess, SaveUnheard, SaveFails, Return, Kill, Settle,
         Tick, vars, Respond, Throw, Leave, Goto
    <2>4. Remembers(Scope(i), i, d)
      BY <1>1 DEF MemoryInv
    <2> QED BY <2>1, <2>2, <2>3, <2>4, MemoryLasts DEF Remembers
  <1>2. CASE SaveSuccess(i)
    <2>1. Keyed(i) /\ Scope(i) \in Scopes
      BY <1>2, ScopeIsScope DEF SaveSuccess, Base, PcInv
    <2>2. deadline[i] <= now + LambdaTimeout /\ deadline[i] \in Nat /\ now \in Nat
      BY <1>2 DEF SaveSuccess, Base, TypeOK, EnvInv, Running
    <2>3. /\ record'[Scope(i)] = Completed(i)
          /\ UNCHANGED <<req, deadline>>
      BY <1>2, <2>1 DEF SaveSuccess, Goto, Base, TypeOK
    <2> QED BY <2>2, <2>3, ClockAssumption DEF Remembers, Completed, Scope
  <1>3. pc[i] = "return" \/ SaveSuccess(i)
    BY DEF Base, TypeOK, Next, Proceed, CallFails, Start, Claim, ClaimUnheard,
       AnswerFromRecord, ClaimFails, SendInsert, ConnectFails, ReceiveRow, ReceiveError,
       LoseConnection, Release, SaveSuccess, SaveUnheard, SaveFails, Return, Kill, Settle,
       Tick, vars, Respond, Throw, Leave, Goto
  <1> QED BY <1>1, <1>2, <1>3

\* Every step leaves a completed record in place for its window.
LEMMA MemoryStep == Base /\ HolderInv /\ RecordInv /\ MemoryInv /\ [Next]_vars => MemoryInv'
  <1> DEFINE W == Expiry - LambdaTimeout
  <1> SUFFICES ASSUME Base, HolderInv, RecordInv, MemoryInv, [Next]_vars,
                      NEW i \in Invocations, Created(i)', Keyed(i)'
               PROVE  /\ answer'[i].at <= now'
                      /\ answer'[i].at = now' => Remembers(Scope(i), answer[i].todo, now)'
                      /\ Fresh(i)' /\ now' <= answer'[i].at + W =>
                            Remembers(Scope(i), i, answer[i].at + W)'
    BY ReturnStep DEF MemoryInv, Fresh
  <1>1. now \in Nat /\ now' \in Nat /\ now <= now' /\ W \in Nat
    BY NowGrows, ClockAssumption
  <1>2. CASE Created(i) /\ answer'[i] = answer[i]
    <2>1. /\ Keyed(i) /\ Scope(i) \in Scopes /\ Scope(i)' = Scope(i)
          /\ answer[i] \in Answers /\ answer[i].at \in Nat
      <3>1. answer[i] \in Answers /\ answer[i].at \in Nat
        BY <1>2 DEF Base, TypeOK, Answers, Created
      <3>2. pc[i] # "idle" /\ req[i] # None
        BY <1>2, NoneIsNoRequest DEF Base, TypeOK, PcInv, Created
      <3>3. Keyed(i)
        BY <3>2, Permanent DEF Keyed
      <3> QED BY <3>1, <3>3, ScopeIsScope, Permanent DEF Base
    <2>2. answer'[i].at <= now'
      BY <1>1, <1>2, <2>1 DEF MemoryInv
    <2>3. ASSUME answer'[i].at = now'
          PROVE  Remembers(Scope(i), answer[i].todo, now)'
      <3>1. now' = now /\ Remembers(Scope(i), answer[i].todo, now)
        BY <1>1, <1>2, <2>1, <2>3 DEF MemoryInv
      <3> QED BY <1>1, <1>2, <2>1, <3>1, MemoryLasts DEF Remembers
    <2>4. ASSUME Fresh(i)', now' <= answer'[i].at + W
          PROVE  Remembers(Scope(i), i, answer[i].at + W)'
      <3>1. Fresh(i) /\ now <= answer[i].at + W
        BY <1>1, <1>2, <2>1, <2>4 DEF Fresh
      <3>2. Remembers(Scope(i), i, answer[i].at + W)
        BY <3>1 DEF MemoryInv
      <3>3. answer[i].at + W \in Int
        BY <1>1, <2>1
      <3> HIDE DEF W
      <3> QED BY <1>2, <2>1, <3>1, <3>2, <3>3, MemoryLasts DEF Remembers
    <2> QED BY <2>2, <2>3, <2>4
  <1>3. CASE /\ pc[i] = "claim" /\ Keyed(i) /\ Scope(i) \in Scopes
             /\ UNCHANGED <<now, record>>
             /\ Remembers(Scope(i), record[Scope(i)].data, now)
             /\ answer'[i].todo = record[Scope(i)].data /\ answer'[i].at = now
    <2>1. Scope(i)' = Scope(i)
      BY <1>3, Permanent
    <2>2. record[Scope(i)].data # i
      BY <1>3 DEF RecordInv, Remembers, Base, PcInv, Absent
    <2> QED BY <1>1, <1>3, <2>1, <2>2 DEF Fresh, Remembers
  <1>4. CASE /\ pc[i] = "return" /\ Keyed(i) /\ UNCHANGED <<now, record>>
             /\ answer'[i] = Made(i)
    <2>1. Scope(i)' = Scope(i)
      BY <1>4, Permanent
    <2>2. Remembers(Scope(i), i, deadline[i] - LambdaTimeout + Expiry)
      BY <1>4 DEF MemoryInv
    <2>3. deadline[i] \in Nat /\ deadline[i] >= now
      BY <1>4 DEF Base, TypeOK, EnvInv, Running
    <2>4. record[Scope(i)].expiry \in Int
      BY <1>4, <2>2, ScopeIsScope DEF Remembers, Base, TypeOK, Records, Absent
    <2>5. Remembers(Scope(i), i, now + W)
      BY <1>1, <2>2, <2>3, <2>4, ClockAssumption DEF Remembers
    <2>6. Remembers(Scope(i), i, now)
      BY <1>1, <2>4, <2>5 DEF Remembers
    <2> QED BY <1>1, <1>4, <2>1, <2>5, <2>6 DEF Made, Remembers
  <1>5. CASE ~Keyed(i) /\ req[i] \in Requests
    BY <1>5, NoneIsNoRequest, Permanent DEF Keyed
  <1> QED BY <1>2, <1>3, <1>4, <1>5, NewCreated

-----------------------------------------------------------------------------
(* What clients are told: CreatedIsOwn, MismatchIsReal and ReplayWindow.      *)

\* No step answers 201 with somebody else's todo, or with another body's.
LEMMA CreatedIsOwnStep ==
    Base /\ HolderInv /\ RecordInv /\ CreatedIsOwn /\ [Next]_vars => CreatedIsOwn'
  <1> SUFFICES ASSUME Base, HolderInv, RecordInv, CreatedIsOwn, [Next]_vars,
                      NEW i \in Invocations, Created(i)', NEW t, t = answer'[i].todo
               PROVE  /\ insert'[t] = "committed"
                      /\ req'[t] # None
                      /\ <<req'[t].tenant, req'[t].user, req'[t].body>>
                            = <<req'[i].tenant, req'[i].user, req'[i].body>>
                      /\ t # i => req'[t].key = req'[i].key /\ Keyed(i)'
    BY DEF CreatedIsOwn
  <1>1. CASE Created(i) /\ answer'[i] = answer[i]
    <2>1. t \in Invocations
      BY <1>1 DEF Base, TypeOK, Answers, Created
    <2>2. req[t] # None /\ insert[t] = "committed"
      BY <1>1 DEF CreatedIsOwn
    <2>3. req[i] # None
      BY <1>1, NoneIsNoRequest DEF Base, TypeOK, PcInv, Created
    <2>4. req'[t] = req[t] /\ req'[i] = req[i] /\ insert'[t] = "committed"
      BY <2>1, <2>2, <2>3, Permanent
    <2> QED BY <1>1, <2>4 DEF CreatedIsOwn, Keyed
  <1>2. CASE /\ Keyed(i) /\ Scope(i) \in Scopes
             /\ Remembers(Scope(i), record[Scope(i)].data, now)
             /\ record[Scope(i)].validation = req[i].body
             /\ answer'[i].todo = record[Scope(i)].data
    <2>1. t \in Invocations
      BY <1>2 DEF Base, TypeOK, Records, Remembers, Absent
    <2>2. insert[t] = "committed" /\ Keyed(t) /\ Scope(t) = Scope(i) /\ req[t].body = req[i].body
      BY <1>2, <2>1 DEF RecordInv, Remembers, Absent
    <2>3. req'[t] = req[t] /\ req'[i] = req[i] /\ insert'[t] = "committed"
      BY <1>2, <2>1, <2>2, Permanent DEF Keyed
    <2> QED BY <1>2, <2>2, <2>3 DEF Keyed, Scope, ScopeOf
  <1>3. CASE (Keyed(i) \/ req[i] \in Requests) /\ insert[i] = "committed" /\ answer'[i] = Made(i)
    <2>1. t = i /\ req[i] # None
      BY <1>3, NoneIsNoRequest DEF Made, Keyed
    <2> QED BY <1>3, <2>1, Permanent
  <1> QED BY <1>1, <1>2, <1>3, NewCreated

\* No step reports a mismatch without one.
LEMMA MismatchStep == Base /\ RecordInv /\ MismatchIsReal /\ [Next]_vars => MismatchIsReal'
  <1> SUFFICES ASSUME Base, RecordInv, MismatchIsReal, [Next]_vars,
                      NEW i \in Invocations,
                      answer'[i] # None, answer'[i].status = "mismatch"
               PROVE  \E j \in Invocations : SameScope(i, j)' /\ req'[j].body # req'[i].body
    BY DEF MismatchIsReal
  <1>1. PICK j \in Invocations : SameScope(i, j) /\ req[j].body # req[i].body
    <2>1. CASE answer'[i] = answer[i]
      BY <2>1 DEF MismatchIsReal
    <2>2. CASE AnswerFromRecord(i)
      <3>1. Keyed(i) /\ Scope(i) \in Scopes
        BY <2>2, ScopeIsScope DEF AnswerFromRecord, Base, PcInv
      <3>2. answer'[i] = Replay(record[Scope(i)], req[i].body)
        BY <2>2 DEF AnswerFromRecord, Respond, Base, TypeOK
      <3>3. record[Scope(i)] # Absent
        BY <2>2 DEF AnswerFromRecord, Claimable
      <3>4. record[Scope(i)].validation # req[i].body
        BY <3>2 DEF Replay
      <3> QED BY <3>1, <3>3, <3>4 DEF RecordInv, SameScope
    <2>3. answer'[i] = answer[i] \/ AnswerFromRecord(i)
      BY DEF Base, TypeOK, Next, Proceed, CallFails, Start, Claim, ClaimUnheard,
         AnswerFromRecord, ClaimFails, SendInsert, ConnectFails, ReceiveRow, ReceiveError,
         LoseConnection, Release, SaveSuccess, SaveUnheard, SaveFails, Return, Kill, Settle,
         Tick, vars, Respond, Throw, Failed, AlreadyInProgress, Made
    <2> QED BY <2>1, <2>2, <2>3
  <1> QED BY <1>1, Permanent DEF SameScope, Keyed

\* No step answers 201 with another todo within the window of the first.
LEMMA ReplayStep ==
    Base /\ HolderInv /\ RecordInv /\ MemoryInv /\ ReplayWindow /\ [Next]_vars => ReplayWindow'
  <1> DEFINE W == Expiry - LambdaTimeout
  <1> SUFFICES ASSUME Base, HolderInv, RecordInv, MemoryInv, ReplayWindow, [Next]_vars,
                      NEW i \in Invocations, NEW j \in Invocations,
                      Fresh(i)', Created(j)', SameScope(i, j)',
                      answer'[j].at \in answer'[i].at .. answer'[i].at + W
               PROVE  answer'[j].todo = i
    BY DEF ReplayWindow
  <1>1. now \in Nat /\ now' \in Nat /\ now <= now' /\ W \in Nat
    BY NowGrows, ClockAssumption
  <1>2. Base' /\ MemoryInv'
    BY TypeStep, EnvStep, PcStep, MemoryStep DEF Base
  <1>3. /\ answer'[i].at \in Nat /\ answer'[j].at \in Nat
        /\ answer'[i].at <= now' /\ answer'[j].at <= now'
    BY <1>2 DEF Base, TypeOK, Answers, Created, Fresh, MemoryInv, SameScope
  <1>4. CASE answer'[j].at = now'
    <2>1. Remembers(Scope(j), answer[j].todo, now)'
      BY <1>2, <1>4 DEF MemoryInv, SameScope
    <2>2. Remembers(Scope(i), i, answer[i].at + W)'
      BY <1>2, <1>4 DEF MemoryInv
    <2> QED BY <2>1, <2>2 DEF Remembers, SameScope
  <1>5. CASE answer'[j].at # now'
    <2>1. ASSUME NEW k \in Invocations, Created(k)', answer'[k].at # now'
          PROVE  Created(k) /\ answer'[k] = answer[k]
      <3>1. Made(k).at = now
        BY DEF Made
      <3> QED BY <2>1, <3>1, NewCreated
    <2>2. Created(i) /\ answer'[i] = answer[i] /\ Created(j) /\ answer'[j] = answer[j]
      BY <1>1, <1>3, <1>5, <2>1 DEF Fresh
    <2>3. SameScope(i, j)
      <3>1. req[i] # None /\ req[j] # None
        BY <2>2, NoneIsNoRequest DEF Base, TypeOK, PcInv, Created
      <3> QED BY <3>1, Permanent DEF SameScope, Keyed, Scope
    <2> QED BY <2>2, <2>3 DEF ReplayWindow, Fresh, SameScope
  <1> QED BY <1>4, <1>5

-----------------------------------------------------------------------------

\* The inductive invariant holds at the start ...
LEMMA IInvInit == Init => IInv
  <1> SUFFICES ASSUME Init PROVE IInv
    OBVIOUS
  <1>1. Base
    BY BaseInit
  <1>2. HolderInv /\ OneHolder /\ RecordInv
    BY DEF Init, HolderInv, OneHolder, RecordInv, Holds
  <1>3. MemoryInv /\ CreatedIsOwn /\ MismatchIsReal /\ ReplayWindow
    BY DEF Init, MemoryInv, CreatedIsOwn, MismatchIsReal, ReplayWindow, Created, Fresh
  <1> QED BY <1>1, <1>2, <1>3 DEF IInv, Base

\* ... and is kept by every step ...
LEMMA IInvStep == IInv /\ [Next]_vars => IInv'
  BY TypeStep, EnvStep, PcStep, HolderStep, RecordStep, MemoryStep, CreatedIsOwnStep,
     MismatchStep, ReplayStep DEF IInv, Base

\* ... so that it always holds.
LEMMA Inductive == Spec => []IInv
  BY IInvInit, IInvStep, PTL DEF Spec

\* A 201 names a committed todo of the caller's own tenant, user and body, also
\* when it is replayed from the table (idempotency.ts:56-62).
THEOREM CreatedTodosAreOwn == Spec => []CreatedIsOwn
  BY Inductive, PTL DEF IInv

\* Only a client whose key was used with another body is told so
\* (idempotency.ts:97-98).
THEOREM MismatchesAreReal == Spec => []MismatchIsReal
  BY Inductive, PTL DEF IInv

\* In the window that follows a 201, every 201 for its key returns the same
\* todo, whatever is killed, lost or retried (docs/consumer-guide/README.md:88-89).
THEOREM RepliesRepeat == Spec => []ReplayWindow
  BY Inductive, PTL DEF IInv

\* In the same window no invocation sends another INSERT for the key.
THEOREM CreatesStop == Spec => NoInsertAfterCreated
  <1> DEFINE Stop == \A i, j \in Invocations :
                        Sends(j) /\ Fresh(i) /\ SameScope(i, j)
                        => now > answer[i].at + (Expiry - LambdaTimeout)
  <1>1. IInv /\ [Next]_vars => [Stop]_vars
    <2> SUFFICES ASSUME IInv, Next, NEW i \in Invocations, NEW j \in Invocations,
                        Sends(j), Fresh(i), SameScope(i, j)
                 PROVE  now > answer[i].at + (Expiry - LambdaTimeout)
      BY DEF vars
    <2>1. pc[j] = "call"
      BY DEF Sends, IInv, TypeOK, Next, Proceed, CallFails, Start, Claim, ClaimUnheard,
         AnswerFromRecord, ClaimFails, SendInsert, ConnectFails, ReceiveRow, ReceiveError,
         LoseConnection, Release, SaveSuccess, SaveUnheard, SaveFails, Return, Kill, Settle,
         Tick
    <2>2. record[Scope(j)].status = "INPROGRESS"
      BY <2>1 DEF IInv, HolderInv, Holds, SameScope
    <2>3. ~Remembers(Scope(i), i, answer[i].at + (Expiry - LambdaTimeout))
      BY <2>2 DEF Remembers, SameScope
    <2>4. ~(now <= answer[i].at + (Expiry - LambdaTimeout))
      BY <2>3 DEF IInv, MemoryInv
    <2>5. now \in Nat /\ answer[i].at \in Nat
      BY DEF IInv, TypeOK, Answers, Fresh, Created
    <2> QED BY <2>4, <2>5, ClockAssumption
  <1> QED BY Inductive, <1>1, PTL DEF Spec, NoInsertAfterCreated

\* The safety half of KeyFreesUp: no claim reaches further into the future than one
\* timeout of Lambda, whether its invocation still runs, was killed or never heard
\* that it had claimed, so that no claim of now refuses another one when LambdaTimeout
\* has passed (idempotency.ts:23-25, 79-90).
ClaimsEndInv ==
    \A s \in Scopes :
        record[s].status = "INPROGRESS" => record[s].inProgressExpiry <= now + LambdaTimeout

\* A claim lasts for a timeout from the moment it is made, and time only passes.
LEMMA ClaimsEndStep == IInv /\ ClaimsEndInv /\ [Next]_vars => ClaimsEndInv'
  <1> SUFFICES ASSUME IInv, ClaimsEndInv, [Next]_vars, NEW s \in Scopes,
                      record'[s].status = "INPROGRESS"
               PROVE  record'[s].inProgressExpiry <= now' + LambdaTimeout
    BY DEF ClaimsEndInv
  <1>1. now \in Nat /\ now' \in Nat /\ now <= now' /\ LambdaTimeout \in Nat
    BY NowGrows, ClockAssumption DEF IInv, Base
  <1>2. CASE record'[s] = record[s]
    <2>1. record[s].inProgressExpiry \in Int
      BY <1>2 DEF IInv, TypeOK, Records, Absent
    <2> QED BY <1>1, <1>2, <2>1 DEF ClaimsEndInv
  <1>3. CASE record'[s] # record[s]
    <2>1. PICK i \in Invocations :
             \/ (Claim(i) \/ ClaimUnheard(i)) /\ record'[s] = InProgress(i)
             \/ record'[s] = Completed(i)
             \/ record'[s] = Absent
      BY <1>3, WritersOfRecords DEF IInv, Base
    <2>2. (Claim(i) \/ ClaimUnheard(i)) /\ record'[s] = InProgress(i)
      BY <2>1 DEF Completed, Absent
    <2>3. Running(i)
      BY <2>2 DEF Claim, ClaimUnheard, Running
    <2>4. record'[s].inProgressExpiry = deadline[i] /\ deadline[i] \in now .. now + LambdaTimeout
      BY <2>2, <2>3 DEF IInv, EnvInv, InProgress
    <2> QED BY <1>1, <2>4
  <1> QED BY <1>2, <1>3

\* A key is never wedged: whatever is killed or lost, each claim ends by itself within
\* one Lambda timeout (idempotency.ts:23-25, 79-90).
THEOREM ClaimsEnd == Spec => []ClaimsEndInv
  <1>1. Init => ClaimsEndInv
    BY DEF Init, ClaimsEndInv, Absent
  <1> QED BY <1>1, ClaimsEndStep, Inductive, PTL DEF Spec
============================================================================
