-------------------- MODULE IdempotentCreateOnceProofs --------------------
(***************************************************************************)
(* Proof that the handler implements CreateOnce when no invocation is      *)
(* killed, no acknowledgement of an INSERT is lost, no saveSuccess fails   *)
(* and no record expires: the four ways in which the outcome of a create   *)
(* is forgotten. Every other failure may still happen.                     *)
(***************************************************************************)
EXTENDS IdempotentCreateProofs

Faultless == Faults = {} /\ MaxTime <= Expiry

\* A statement that is pending or committed is one its invocation still waits
\* for or has brought to the table, and the table does not forget it.
OnceInv ==
    /\ now <= MaxTime
    /\ \A s \in Scopes : record[s] # Absent => record[s].expiry >= Expiry
    /\ \A i \in Invocations :
          /\ pc[i] # "killed"
          /\ insert[i] = "pending" => pc[i] = "wait"
          /\ pc[i] = "release" => insert[i] \in {"none", "aborted"}
          /\ Keyed(i) /\ insert[i] = "committed" /\ pc[i] # "wait" /\ pc[i] # "save" =>
                /\ record[Scope(i)].status = "COMPLETED"
                /\ record[Scope(i)].data = i

\* Nothing is claimed, released or completed at the start.
LEMMA OnceInvInit == ASSUME Faultless PROVE Init => OnceInv
  BY ClockAssumption DEF Init, OnceInv, Keyed

\* Without faults and before anything expires, an INSERT that may commit keeps
\* its record: nobody else gets to insert for its key.
LEMMA OnceInvStep ==
    ASSUME Faultless, IInv, OnceInv, [Next]_vars PROVE OnceInv'
  <1> USE DEF IInv
  <1>1. Base
    BY DEF Base
  <1>2. now' <= MaxTime
    <2>1. CASE now' = now
      BY <2>1 DEF OnceInv
    <2>2. CASE Tick
      BY <2>2, ClockAssumption DEF Tick, TypeOK
    <2> QED BY <2>1, <2>2, StaysOrLeaves DEF Next, Start, Settle, Kill, vars
  <1>3. ASSUME NEW s \in Scopes, record'[s] # Absent PROVE record'[s].expiry >= Expiry
    <2>1. CASE record'[s] = record[s]
      BY <1>3, <2>1 DEF OnceInv
    <2>2. CASE record'[s] # record[s]
      <3>1. PICK i \in Invocations : record'[s] \in {InProgress(i), Completed(i)}
        BY <1>1, <1>3, <2>2, WritersOfRecords
      <3>2. record'[s].expiry = now + Expiry /\ now \in Nat
        BY <3>1 DEF InProgress, Completed, TypeOK
      <3> QED BY <3>2, ClockAssumption
    <2> QED BY <2>1, <2>2
  <1>4. ASSUME NEW i \in Invocations
        PROVE  /\ pc'[i] # "killed"
               /\ insert'[i] = "pending" => pc'[i] = "wait"
               /\ pc'[i] = "release" => insert'[i] \in {"none", "aborted"}
    BY DEF Faultless, OnceInv, PcInv, TypeOK, Next, Proceed, CallFails, Start, Claim,
       ClaimUnheard, AnswerFromRecord, ClaimFails, SendInsert, ConnectFails, ReceiveRow,
       ReceiveError, LoseConnection, Release, SaveSuccess, SaveUnheard, SaveFails, Return,
       Kill, Settle, Tick, vars, Respond, Throw, Leave, Goto
  <1>5. ASSUME NEW i \in Invocations, Keyed(i)', insert'[i] = "committed",
               pc'[i] # "wait", pc'[i] # "save"
        PROVE  /\ record'[Scope(i)'].status = "COMPLETED"
               /\ record'[Scope(i)'].data = i
    <2>1. CASE SaveSuccess(i) \/ SaveUnheard(i)
      <3>1. Keyed(i) /\ Scope(i) \in Scopes
        BY <2>1, ScopeIsScope DEF SaveSuccess, SaveUnheard, PcInv
      <3>2. Scope(i)' = Scope(i) /\ record'[Scope(i)] = Completed(i)
        BY <1>1, <2>1, <3>1, Permanent DEF SaveSuccess, SaveUnheard, TypeOK
      <3> QED BY <3>2 DEF Completed
    <2>2. CASE ~(SaveSuccess(i) \/ SaveUnheard(i))
      <3>1. insert[i] \in {"pending", "committed"}
        BY <1>5 DEF PcInv, TypeOK, Next, Proceed, CallFails, Start, Claim, ClaimUnheard,
           AnswerFromRecord, ClaimFails, SendInsert, ConnectFails, ReceiveRow, ReceiveError,
           LoseConnection, Release, SaveFails, SaveSuccess, SaveUnheard, Return, Kill,
           Settle, Tick, vars
      <3>2. Keyed(i) /\ Scope(i)' = Scope(i) /\ Scope(i) \in Scopes
        <4>1. pc[i] # "idle" /\ req[i] # None
          BY <3>1, NoneIsNoRequest DEF PcInv, TypeOK
        <4> QED BY <1>1, <1>5, <4>1, Permanent, ScopeIsScope DEF Keyed
      <3>3. insert[i] = "committed" /\ pc[i] # "wait" /\ pc[i] # "save"
        <4>1. insert[i] = "pending" => pc[i] = "wait"
          BY DEF OnceInv
        <4>2. CASE pc'[i] = pc[i]
          BY <1>5, <3>1, <4>1, <4>2
        <4>3. CASE pc'[i] # pc[i]
          <5>1. \/ Claim(i) \/ ClaimUnheard(i) \/ AnswerFromRecord(i) \/ ClaimFails(i)
                \/ SendInsert(i) \/ ConnectFails(i) \/ ReceiveRow(i) \/ ReceiveError(i)
                \/ Release(i) \/ Return(i) \/ Start(i)
            BY <2>2, <4>3 DEF Faultless, TypeOK, Next, Proceed, CallFails, Start, Claim,
               ClaimUnheard, AnswerFromRecord, ClaimFails, SendInsert, ConnectFails,
               ReceiveRow, ReceiveError, LoseConnection, Release, SaveFails, SaveSuccess,
               SaveUnheard, Return, Kill, Settle, Tick, vars, Respond, Throw, Leave, Goto
          <5> QED
            BY <1>5, <3>1, <3>2, <4>1, <5>1 DEF PcInv, TypeOK, Claim, ClaimUnheard,
               AnswerFromRecord, ClaimFails, SendInsert, ConnectFails, ReceiveRow,
               ReceiveError, Release, Return, Start, Goto
        <4> QED BY <4>2, <4>3
      <3>4. record[Scope(i)].status = "COMPLETED" /\ record[Scope(i)].data = i
        BY <3>2, <3>3 DEF OnceInv
      <3>5. record[Scope(i)] # Absent /\ record[Scope(i)] \in Records /\ now \in Nat
        BY <3>2, <3>4 DEF Absent, TypeOK
      <3>6. ~Claimable(record[Scope(i)])
        BY <3>2, <3>4, <3>5, ClockAssumption DEF OnceInv, Faultless, Claimable, Records, Absent
      <3>7. \A j \in Invocations : ~(Holds(j) /\ Scope(j) = Scope(i))
        BY <3>4 DEF HolderInv
      <3>8. record'[Scope(i)] = record[Scope(i)]
        BY <1>1, <3>2, <3>6, <3>7, WritersOfRecords
      <3> QED BY <3>2, <3>4, <3>8
    <2> QED BY <2>1, <2>2
  <1> QED BY <1>2, <1>3, <1>4, <1>5 DEF OnceInv

-----------------------------------------------------------------------------
(* The refinement mapping, spelled out, and the steps that map to a step of   *)
(* CreateOnce.                                                                *)

rowsBar == {i \in Invocations : insert[i] = "committed"}
answerBar == [i \in Invocations |->
                IF Created(i) THEN [status |-> "created", todo |-> answer[i].todo]
                              ELSE answer[i]]

\* The initial states of the handler map to those of CreateOnce.
LEMMA InitMaps == Init => Once!Init
  BY DEF Init, Once!Init, Created

\* Start maps to Ask.
LEMMA StartMaps ==
    ASSUME IInv, NEW i \in Invocations, Start(i) PROVE Once!Ask(i)
  BY DEF IInv, PcInv, Start, Once!Ask, Created

\* The commit of an INSERT maps to Insert, its abort to a stutter.
LEMMA SettleMaps ==
    ASSUME Faultless, IInv, OnceInv, NEW i \in Invocations, Settle(i)
    PROVE  Once!Insert(i) \/ UNCHANGED Once!vars
  <1>1. CASE insert'[i] = "committed"
    <2>1. pc[i] = "wait" /\ answer[i] = None /\ req[i] # None
      BY NoneIsNoRequest DEF Settle, OnceInv, IInv, PcInv, TypeOK
    <2>2. ASSUME NEW t \in Invocations, insert[t] = "committed"
          PROVE  ~Once!SameKey(req[t], req[i])
      <3> SUFFICES ASSUME Keyed(t), Keyed(i), Scope(t) = Scope(i) PROVE FALSE
        BY DEF Once!SameKey, Keyed, Scope, ScopeOf
      <3>1. Holds(i)
        BY <2>1 DEF Holds
      <3>2. t # i
        BY <2>2 DEF Settle
      <3>3. CASE pc[t] \in {"wait", "save"}
        BY <3>1, <3>2, <3>3 DEF Holds, IInv, OneHolder
      <3>4. CASE pc[t] \notin {"wait", "save"}
        BY <2>2, <3>1, <3>4 DEF OnceInv, IInv, HolderInv
      <3> QED BY <3>3, <3>4
    <2>3. rowsBar' = rowsBar \union {i}
      BY <1>1 DEF rowsBar, Settle, IInv, TypeOK
    <2>4. UNCHANGED <<req, answerBar>>
      BY DEF Settle, answerBar, Created
    <2> QED BY <2>1, <2>2, <2>3, <2>4 DEF Once!Insert, rowsBar, answerBar, Created
  <1>2. CASE insert'[i] # "committed"
    <2>1. rowsBar' = rowsBar
      BY <1>2 DEF rowsBar, Settle, IInv, TypeOK
    <2> QED BY <2>1 DEF Settle, Once!vars, rowsBar, Created
  <1> QED BY <1>1, <1>2

\* An answer maps to Create or to Refuse.
LEMMA RespondMaps ==
    ASSUME IInv, NEW i \in Invocations, NEW a, answer' = [answer EXCEPT ![i] = a],
           UNCHANGED <<req, insert>>, answer[i] = None, req[i] # None,
           \/ a \in [status : {"inProgress", "failed"}]
           \/ /\ a \in [status : {"mismatch"}]
              /\ \E j \in Invocations : SameScope(i, j) /\ req[j].body # req[i].body
           \/ /\ a \in [status : {"created"}, todo : Invocations, at : Nat]
              /\ insert[a.todo] = "committed"
              /\ \/ a.todo = i
                 \/ SameScope(i, a.todo) /\ req[a.todo].body = req[i].body
    PROVE  Once!Create(i) \/ Once!Refuse(i)
  <1>1. rowsBar' = rowsBar
    BY DEF rowsBar
  <1>2. answer'[i] = a /\ \A j \in Invocations \ {i} : answer'[j] = answer[j]
    BY DEF IInv, TypeOK
  <1>3. answerBar[i] = None
    BY DEF answerBar, Created
  <1>4. CASE a.status = "created"
    <2>1. answerBar' = [answerBar EXCEPT ![i] = [status |-> "created", todo |-> a.todo]]
      <3>1. a # None
        BY <1>4, NoneIsNoAnswer DEF Answers
      <3>2. Created(i)' /\ \A j \in Invocations \ {i} : Created(j)' <=> Created(j)
        BY <1>2, <1>4, <3>1 DEF Created
      <3> QED BY <1>2, <3>2 DEF answerBar
    <2>2. a.todo \in rowsBar
      BY <1>4 DEF rowsBar
    <2>3. a.todo = i \/ (Once!SameKey(req[a.todo], req[i]) /\ req[a.todo].body = req[i].body)
      BY <1>4 DEF SameScope, Keyed, Scope, ScopeOf, Once!SameKey
    <2> QED BY <1>1, <1>3, <2>1, <2>2, <2>3 DEF Once!Create, rowsBar, answerBar
  <1>5. CASE a.status # "created"
    <2>1. answerBar' = [answerBar EXCEPT ![i] = [status |-> a.status]]
      BY <1>2, <1>5 DEF answerBar, Created
    <2>2. a.status \in {"mismatch", "inProgress", "failed"}
      BY <1>5
    <2>3. a.status = "mismatch" =>
             \E j \in Invocations : /\ Once!SameKey(req[j], req[i])
                                   /\ req[j].body # req[i].body
      BY DEF SameScope, Keyed, Scope, ScopeOf, Once!SameKey
    <2> QED BY <1>1, <1>3, <2>1, <2>2, <2>3 DEF Once!Refuse, rowsBar, answerBar
  <1> QED BY <1>4, <1>5

\* Every step of the handler is a step of CreateOnce or changes none of what
\* CreateOnce speaks of.
LEMMA StepMaps ==
    ASSUME Faultless, IInv, OnceInv, [Next]_vars PROVE [Once!Next]_Once!vars
  <1> DEFINE Replies(i) == Once!Create(i) \/ Once!Refuse(i)
             Stutters == UNCHANGED Once!vars
  <1>1. ASSUME UNCHANGED <<req, answer>>, rowsBar' = rowsBar PROVE Stutters
    BY <1>1 DEF Once!vars, rowsBar, Created
  <1>2. ASSUME NEW i \in Invocations, AnswerFromRecord(i) PROVE Replies(i)
    <2> DEFINE r == record[Scope(i)]
               a == Replay(r, req[i].body)
    <2>1. Keyed(i) /\ Scope(i) \in Scopes /\ answer[i] = None /\ req[i] # None
      BY <1>2, ScopeIsScope DEF AnswerFromRecord, IInv, PcInv, Keyed
    <2>2. r # Absent /\ r \in Records /\ now \in Nat
      BY <1>2, <2>1 DEF AnswerFromRecord, Claimable, IInv, TypeOK
    <2>3. CASE r.validation # req[i].body
      <3>1. a = [status |-> "mismatch"]
        BY <2>3 DEF Replay
      <3>2. \E j \in Invocations : SameScope(i, j) /\ req[j].body # req[i].body
        BY <2>1, <2>2, <2>3 DEF IInv, RecordInv, SameScope
      <3> QED BY <1>2, <2>1, <3>1, <3>2, RespondMaps DEF AnswerFromRecord, Respond
    <2>4. CASE r.validation = req[i].body /\ r.status = "INPROGRESS"
      <3>1. a = [status |-> "inProgress"]
        BY <2>4 DEF Replay
      <3> QED BY <1>2, <2>1, <3>1, RespondMaps DEF AnswerFromRecord, Respond
    <2>5. CASE r.validation = req[i].body /\ r.status # "INPROGRESS"
      <3>1. a = [status |-> "created", todo |-> r.data, at |-> now]
        BY <2>5 DEF Replay
      <3>2. r.data \in Invocations /\ r.status = "COMPLETED"
        BY <2>2, <2>5 DEF Records, Absent
      <3>3. insert[r.data] = "committed" /\ SameScope(i, r.data) /\ req[r.data].body = req[i].body
        BY <2>1, <2>2, <2>5, <3>2 DEF IInv, RecordInv, SameScope
      <3> QED BY <1>2, <2>1, <2>2, <3>1, <3>2, <3>3, RespondMaps DEF AnswerFromRecord, Respond
    <2> QED BY <2>3, <2>4, <2>5
  <1>3. ASSUME NEW i \in Invocations, pc[i] \notin {"idle", "done"},
               UNCHANGED <<req, insert>>,
               Respond(i, Failed) \/ Respond(i, AlreadyInProgress)
        PROVE  Replies(i)
    <2>1. answer[i] = None /\ req[i] # None
      BY <1>3, NoneIsNoRequest DEF IInv, PcInv, TypeOK
    <2> QED BY <1>3, <2>1, RespondMaps DEF Respond, Failed, AlreadyInProgress
  <1>4. ASSUME NEW i \in Invocations, pc[i] \notin {"idle", "done"},
               UNCHANGED <<req, insert>>, insert[i] = "committed", Respond(i, Made(i))
        PROVE  Replies(i)
    <2>1. answer[i] = None /\ req[i] # None /\ now \in Nat
      BY <1>4, NoneIsNoRequest DEF IInv, PcInv, TypeOK
    <2> QED BY <1>4, <2>1, RespondMaps DEF Respond, Made
  <1>5. ASSUME NEW i \in Invocations, Proceed(i) PROVE Replies(i) \/ Stutters
    <2>1. CASE Claim(i) \/ SaveSuccess(i)
      BY <1>1, <2>1 DEF Claim, SaveSuccess, rowsBar
    <2>2. CASE SendInsert(i)
      BY <1>1, <2>2 DEF SendInsert, rowsBar, IInv, PcInv, TypeOK
    <2>3. CASE ReceiveRow(i)
      BY <1>1, <1>4, <2>3 DEF ReceiveRow, rowsBar
    <2>4. CASE ReceiveError(i)
      BY <1>1, <1>3, <2>4 DEF ReceiveError, Throw, rowsBar
    <2>5. CASE Release(i)
      BY <1>3, <2>5 DEF Release
    <2>6. CASE Return(i)
      BY <1>4, <2>6 DEF Return, IInv, PcInv
    <2> QED BY <1>2, <1>5, <2>1, <2>2, <2>3, <2>4, <2>5, <2>6 DEF Proceed
  <1>6. ASSUME NEW i \in Invocations, CallFails(i) PROVE Replies(i) \/ Stutters
    <2>1. CASE ClaimUnheard(i) \/ ClaimFails(i) \/ SaveUnheard(i)
      BY <1>3, <2>1 DEF ClaimUnheard, ClaimFails, SaveUnheard
    <2>2. CASE ConnectFails(i)
      BY <1>1, <1>3, <2>2 DEF ConnectFails, Throw, rowsBar
    <2> QED BY <1>6, <2>1, <2>2 DEF CallFails, LoseConnection, SaveFails, Faultless
  <1>7. ASSUME Tick \/ UNCHANGED vars PROVE Stutters
    BY <1>1, <1>7 DEF Tick, vars, rowsBar
  <1>8. ASSUME NEW i \in Invocations, Kill(i) PROVE FALSE
    BY <1>8 DEF Kill, Faultless
  <1> QED
    <2> HIDE DEF Replies, Stutters
    <2>1. ASSUME NEW i \in Invocations, Start(i) \/ Settle(i)
          PROVE  Once!Ask(i) \/ Once!Insert(i) \/ Stutters
      BY <2>1, StartMaps, SettleMaps DEF Stutters
    <2>2. Stutters \/ \E i \in Invocations : Once!Ask(i) \/ Once!Insert(i) \/ Replies(i)
      <3>1. CASE Tick \/ UNCHANGED vars
        BY <1>7, <3>1
      <3>2. ASSUME NEW i \in Invocations,
                   Start(i) \/ Proceed(i) \/ CallFails(i) \/ Settle(i) \/ Kill(i)
            PROVE  Stutters \/ Once!Ask(i) \/ Once!Insert(i) \/ Replies(i)
        BY <3>2, <1>5, <1>6, <1>8, <2>1
      <3> QED BY <3>1, <3>2 DEF Next
    <2> QED BY <2>2 DEF Replies, Stutters, Once!Next

\* Unless an invocation is killed, an acknowledgement or a saveSuccess is lost
\* or a record expires, creates with one key insert at most one todo and every
\* 201 returns it (idempotency.ts:56-66; docs/consumer-guide/README.md:88-89).
THEOREM HandlerImplementsCreateOnce ==
    ASSUME Faultless PROVE Spec => ImplementsCreateOnce
  <1>1. Init => Once!Init /\ IInv /\ OnceInv
    BY InitMaps, IInvInit, OnceInvInit
  <1>2. IInv /\ OnceInv /\ [Next]_vars => (IInv /\ OnceInv)' /\ [Once!Next]_Once!vars
    BY IInvStep, OnceInvStep, StepMaps
  <1> QED BY <1>1, <1>2, PTL DEF Spec, ImplementsCreateOnce, Once!Spec
============================================================================
