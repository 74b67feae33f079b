--------------------------- MODULE DeliveryProofs ---------------------------
(***************************************************************************)
(* For every number of commits, of manual runs on any ref and of forks'    *)
(* pull requests: the types of Delivery, that an environment goes back     *)
(* only by a run that was sent to a ref, that migrations follow their code *)
(* and that no two jobs migrate at once.                                   *)
(***************************************************************************)
EXTENDS Delivery, SequenceTheorems, TLAPS

\* What main's history allows stays allowed when it grows.
LEMMA HistoryGrows ==
    ASSUME NEW m \in Nat, NEW n \in Nat, m <= n
    PROVE  1..m \subseteq 1..n /\ 0..m \subseteq 0..n /\ Seq(0..m) \subseteq Seq(0..n)
<1>1. 1..m \subseteq 1..n /\ 0..m \subseteq 0..n
  OBVIOUS
<1>2. ASSUME NEW s \in Seq(0..m)
      PROVE  s \in Seq(0..n)
  <2>1. /\ s = [i \in 1..Len(s) |-> s[i]]
        /\ Len(s) \in Nat
        /\ \A i \in 1..Len(s) : s[i] \in 0..n
    BY <1>1
  <2>2. QED
    BY <2>1
<1>3. QED
  BY <1>1, <1>2

\* A run is for main's head, or for the commit it is sent to.
LEMMA RunType ==
    ASSUME TypeOK, Tip > 0, NEW by \in Causes, NEW deploys \in BOOLEAN
    PROVE  /\ Run(by, deploys) \in Runs
           /\ Run(by, deploys).sha = Tip
           /\ Run(by, deploys).step = "build"
BY DeliveryAssumption DEF Run, Runs, Steps, Commits, TypeOK, Tip

\* What is sent to a ref is a run of that commit.
LEMMA SentType ==
    ASSUME TypeOK, NEW sha \in 1..Tip
    PROVE  LET sent == [Run("ref", TRUE) EXCEPT !.sha = sha]
           IN  sent \in Runs /\ sent.sha = sha /\ sent.by = "ref" /\ sent.step = "build"
<1>1. sha \in Commits
  BY DeliveryAssumption DEF TypeOK, Tip, Commits
<1>2. /\ Run("ref", TRUE) \in Runs
      /\ Run("ref", TRUE).by = "ref" /\ Run("ref", TRUE).step = "build"
  BY DeliveryAssumption DEF Run, Runs, Causes, Steps, Commits, TypeOK, Tip
<1>3. ASSUME NEW run \in Runs, run.by = "ref", run.step = "build"
      PROVE  LET sent == [run EXCEPT !.sha = sha]
             IN  sent \in Runs /\ sent.sha = sha /\ sent.by = "ref" /\ sent.step = "build"
  BY <1>1, <1>3 DEF Runs
<1>4. QED
  BY <1>2, <1>3

\* A step of a job changes the job's step only.
LEMMA GotoRun ==
    ASSUME NEW run \in Runs, NEW step \in Steps
    PROVE  /\ [run EXCEPT !.step = step] \in Runs
           /\ [run EXCEPT !.step = step].sha = run.sha
           /\ [run EXCEPT !.step = step].by = run.by
           /\ [run EXCEPT !.step = step].step = step
BY DEF Runs

\* The invariant holds at first.
LEMMA InitInv == Init => IInv
<1> SUFFICES ASSUME Init PROVE IInv
  OBVIOUS
<1>1. TypeOK
  BY DeliveryAssumption DEF Init, TypeOK, Tip
<1>2. QED
  BY <1>1 DEF Init, IInv

\* A push or a release makes main grow and leaves the deploys alone.
LEMMA GrowInv ==
    ASSUME IInv, Push \/ Release
    PROVE  IInv'
<1> USE DEF IInv
<1>1. /\ ci \in Seq(CIStates) /\ Tip \in Nat /\ Tip < MaxCommits
      /\ completed \in Seq(0..Tip)
  BY DeliveryAssumption DEF Push, Release, TypeOK, Tip
<1>2. /\ ci' \in Seq(CIStates) /\ Tip' = Tip + 1
      /\ completed' \in Seq(0..Tip)
  <2>1. CASE Push
    <3> DEFINE s == [c \in 1..Tip |-> IF ci[c] = "running" THEN "cancelled" ELSE ci[c]]
    <3>1. s \in Seq(CIStates) /\ Len(s) = Tip
      BY <1>1 DEF CIStates, Tip
    <3>2. ci' = Append(s, "running")
      BY <2>1 DEF Push
    <3> HIDE DEF s
    <3>3. ci' \in Seq(CIStates) /\ Len(ci') = Tip + 1
      BY <3>1, <3>2 DEF CIStates
    <3>4. completed' = completed \/ \E c \in 1..Tip : completed' = Append(completed, c)
      BY <2>1 DEF Push
    <3>5. completed' \in Seq(0..Tip)
      <4>1. 1..Tip \subseteq 0..Tip
        BY <1>1
      <4>2. ASSUME NEW c \in 1..Tip
            PROVE  Append(completed, c) \in Seq(0..Tip)
        <5>1. c \in 0..Tip
          BY <4>1
        <5>2. QED
          BY <1>1, <5>1
      <4>3. QED
        BY <1>1, <3>4, <4>2
    <3>6. QED
      BY <3>3, <3>5 DEF Tip
  <2>2. CASE Release
    BY <1>1, <2>2 DEF Release, CIStates, Tip
  <2>3. QED
    BY <2>1, <2>2
<1>3. UNCHANGED <<waiting, running, dispatched, forks, live, schema, failed>>
  BY DEF Push, Release
<1>4. 1..Tip \subseteq 1..Tip' /\ 0..Tip \subseteq 0..Tip' /\ Seq(0..Tip) \subseteq Seq(0..Tip')
  BY <1>1, <1>2, HistoryGrows
<1>5. TypeOK'
  BY <1>1, <1>2, <1>3, <1>4, DeliveryAssumption DEF TypeOK
<1>6. Tip' > 0
  BY <1>1, <1>2
<1>7. QED
  BY <1>3, <1>4, <1>5, <1>6 DEF RunInv, WaitInv

\* CI leaves main and the deploys alone.
LEMMA CIInv ==
    ASSUME IInv, ForkCI \/ \E c \in 1..Tip : CIEnds(c)
    PROVE  IInv'
<1> USE DEF IInv
<1>1. /\ ci' \in Seq(CIStates) /\ Tip' = Tip /\ completed' \in Seq(0..Tip)
      /\ forks' \in 0..MaxForks
  <2>1. CASE ForkCI
    BY <2>1, DeliveryAssumption DEF ForkCI, TypeOK, Tip
  <2>2. ASSUME NEW c \in 1..Tip, CIEnds(c)
        PROVE  /\ ci' \in Seq(CIStates) /\ Tip' = Tip /\ completed' \in Seq(0..Tip)
               /\ forks' \in 0..MaxForks
    BY <2>2 DEF CIEnds, TypeOK, Tip, CIStates
  <2>3. QED
    BY <2>1, <2>2
<1>2. UNCHANGED <<waiting, running, dispatched, live, schema, failed>>
  BY DEF ForkCI, CIEnds
<1>3. TypeOK'
  BY <1>1, <1>2 DEF TypeOK
<1>4. Tip' > 0
  BY <1>1 DEF ForkCI, TypeOK, Tip
<1>5. QED
  BY <1>1, <1>2, <1>3, <1>4 DEF RunInv, WaitInv

\* A run that begins to wait is for main's head, than which nothing is newer, or was
\* sent to a ref.
LEMMA QueueInv ==
    ASSUME IInv, Trigger \/ Dispatch
    PROVE  IInv'
<1> USE DEF IInv
<1>1. /\ Tip \in Nat /\ Tip > 0 /\ ci' = ci /\ Tip' = Tip
      /\ completed' \in Seq(0..Tip)
      /\ UNCHANGED <<running, forks, live, schema, failed>>
      /\ dispatched' \in 0..MaxDispatches
  <2>0. Tip \in Nat
    BY DEF TypeOK, Tip
  <2>1. CASE Trigger
    <3>1. completed \in Seq(0..Tip) /\ completed # <<>> /\ completed' = Tail(completed)
      BY <2>1 DEF Trigger, TypeOK
    <3>2. Head(completed) \in 0..Tip /\ completed' \in Seq(0..Tip)
      BY <3>1, HeadTailProperties
    <3>4. QED
      BY <2>0, <2>1, <3>1, <3>2 DEF Trigger, TypeOK, Tip
  <2>2. CASE Dispatch
    BY <2>0, <2>2, DeliveryAssumption DEF Dispatch, TypeOK, Tip
  <2>3. QED
    BY <2>1, <2>2
<1>2. /\ waiting' \in Runs /\ waiting'.sha \in 1..Tip /\ waiting'.step = "build"
      /\ waiting'.by # "ref" => waiting'.sha = Tip
  <2>1. CASE \E by \in Causes, deploys \in BOOLEAN : waiting' = Run(by, deploys)
    <3>1. PICK by \in Causes, deploys \in BOOLEAN : waiting' = Run(by, deploys)
      BY <2>1
    <3>2. Tip \in 1..Tip
      BY <1>1
    <3>3. QED
      BY <1>1, <3>1, <3>2, RunType
  <2>2. CASE \E sha \in 1..Tip : waiting' = [Run("ref", TRUE) EXCEPT !.sha = sha]
    BY <2>2, SentType
  <2>3. QED
    BY <2>1, <2>2 DEF Trigger, Dispatch, Enqueue, Causes
<1>3. TypeOK'
  BY <1>1, <1>2 DEF TypeOK
<1>4. live \in 0..Tip
  BY DEF TypeOK
<1>5. QED
  BY <1>1, <1>2, <1>3, <1>4 DEF RunInv, WaitInv

\* The run that waited starts alone, no older than what is live unless sent to a ref.
LEMMA StartInv ==
    ASSUME IInv, Start
    PROVE  IInv'
<1> USE DEF IInv
<1>1. waiting \in Runs /\ waiting # None /\ running = {}
  BY DEF Start, TypeOK
<1>2. running' \subseteq {waiting} /\ waiting' = None
  BY DEF Start
<1>3. UNCHANGED <<ci, completed, dispatched, forks, live, schema, failed, Tip>>
  BY DEF Start, Tip
<1>4. TypeOK'
  BY <1>1, <1>2, <1>3 DEF TypeOK
<1>5. QED
  BY <1>1, <1>2, <1>3, <1>4 DEF RunInv, WaitInv

\* What a step does to the deploys' properties.
Moves == /\ live' < live => \E run \in running : run.by = "ref"
         /\ schema' # schema => schema' = live

\* A step of the job: what is live becomes its commit or stays, and the schema becomes
\* its commit only after that.
LEMMA JobInv ==
    ASSUME IInv, NEW run \in running, Job(run)
    PROVE  IInv' /\ Moves
<1> USE DEF IInv
<1>1. /\ running = {run} /\ run \in Runs /\ RunInv(run)
      /\ live \in Nat /\ schema \in 0..Tip /\ Tip \in Nat
  BY DEF TypeOK, Tip
<1>2. UNCHANGED <<ci, completed, waiting, dispatched, forks, Tip>>
  BY DEF Job, Build, Apply, Migrate, Smoke, Tip
<1>3. /\ live' \in {live, run.sha} /\ schema' \in {schema, run.sha}
      /\ schema' # schema => schema' = live
      /\ failed' \subseteq failed \cup {run.sha}
  BY <1>1 DEF Job, Build, Apply, Migrate, Smoke, End, EndsRed, Goto, RunInv
<1>4. \/ running' = {}
      \/ \E step \in Steps :
            /\ running' = {[run EXCEPT !.step = step]}
            /\ step \in {"migrate", "smoke"} => live' = run.sha
  BY <1>1 DEF Job, Build, Apply, Migrate, Smoke, End, EndsRed, Goto, RunInv, Steps
<1>5. \A other \in running' :
         /\ other \in Runs /\ other.sha = run.sha /\ other.by = run.by
         /\ other.step \in {"migrate", "smoke"} => live' = run.sha
  <2>1. CASE running' = {}
    BY <2>1
  <2>2. ASSUME NEW step \in Steps,
               running' = {[run EXCEPT !.step = step]},
               step \in {"migrate", "smoke"} => live' = run.sha
        PROVE  \A other \in running' :
                  /\ other \in Runs /\ other.sha = run.sha /\ other.by = run.by
                  /\ other.step \in {"migrate", "smoke"} => live' = run.sha
    <3> DEFINE next == [run EXCEPT !.step = step]
    <3>1. next \in Runs /\ next.sha = run.sha /\ next.by = run.by /\ next.step = step
      BY <1>1, GotoRun
    <3>2. running' = {next}
      BY <2>2
    <3> HIDE DEF next
    <3>3. QED
      BY <2>2, <3>1, <3>2
  <2>3. QED
    BY <1>4, <2>1, <2>2
<1>6. TypeOK'
  BY <1>1, <1>2, <1>3, <1>5 DEF TypeOK, RunInv
<1>7. \A other \in running' : RunInv(other)'
  BY <1>1, <1>2, <1>3, <1>5 DEF RunInv
<1>8. \A one, other \in running' : one = other
  BY <1>4
<1>9. waiting' # None => WaitInv(waiting)'
  BY <1>1, <1>2, <1>3, <1>5 DEF WaitInv
<1>10. Moves
  BY <1>1, <1>3 DEF RunInv, Moves
<1>11. completed' # <<>> => Tip' > 0
  BY <1>2
<1>12. QED
  BY <1>11, <1>6, <1>7, <1>8, <1>9, <1>10

\* Every step keeps the invariant, and only a job moves what is live and the schema.
LEMMA StepInv ==
    ASSUME IInv, [Next]_vars
    PROVE  IInv' /\ Moves
<1>0. live \in Nat
  BY DEF IInv, TypeOK, Tip
<1>1. CASE Push \/ Release
  <2>1. Moves
    BY <1>0, <1>1 DEF Push, Release, Moves
  <2>2. QED
    BY <1>1, <2>1, GrowInv
<1>2. CASE ForkCI \/ \E c \in 1..Tip : CIEnds(c)
  <2>1. Moves
    BY <1>0, <1>2 DEF ForkCI, CIEnds, Moves
  <2>2. QED
    BY <1>2, <2>1, CIInv
<1>3. CASE Trigger \/ Dispatch
  <2>1. live' = live /\ schema' = schema
    BY <1>3 DEF Trigger, Dispatch
  <2>2. QED
    BY <1>0, <1>3, <2>1, QueueInv DEF Moves
<1>4. CASE Start
  <2>1. Moves
    BY <1>0, <1>4 DEF Start, Moves
  <2>2. QED
    BY <1>4, <2>1, StartInv
<1>5. ASSUME NEW run \in running, Job(run)
      PROVE  IInv' /\ Moves
  BY <1>5, JobInv
<1>6. CASE UNCHANGED vars
  BY <1>0, <1>6 DEF vars, IInv, TypeOK, Tip, RunInv, WaitInv, Moves
<1>7. QED
  BY <1>1, <1>2, <1>3, <1>4, <1>5, <1>6 DEF Next

\* The invariant holds always.
THEOREM Invariant == Spec => []IInv
BY InitInv, StepInv, PTL DEF Spec

\* The state has its types, whatever is pushed, run and deployed.
THEOREM TypeCorrect == Spec => []TypeOK
<1>1. IInv => TypeOK
  BY DEF IInv
<1>2. QED
  BY <1>1, Invariant, PTL

\* An environment goes back to older code only by a manual run on another ref than main
\* (deploy.yml's triggers and queue).
THEOREM DeploysGoForward == Spec => NeverBack
<1>1. IInv /\ [Next]_vars => [live' < live => \E run \in running : run.by = "ref"]_vars
  BY StepInv DEF Moves
<1>2. QED
  BY <1>1, Invariant, PTL DEF Spec, NeverBack

\* The schema moves to a commit only while its code is live, also after an older commit
\* was put back (deploy.yml's order of steps).
THEOREM SchemaFollows == Spec => MigrationsFollowCode
<1>1. IInv /\ [Next]_vars => [schema' # schema => schema' = live]_vars
  BY StepInv DEF Moves
<1>2. QED
  BY <1>1, Invariant, PTL DEF Spec, MigrationsFollowCode

\* Two jobs never migrate at once (deploy.yml's concurrency group).
THEOREM OneMigrates == Spec => []MigrationsDoNotOverlap
<1>1. IInv => MigrationsDoNotOverlap
  BY DEF IInv, MigrationsDoNotOverlap
<1>2. QED
  BY <1>1, Invariant, PTL
=============================================================================
