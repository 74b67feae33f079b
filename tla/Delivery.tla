------------------------------ MODULE Delivery ------------------------------
(***************************************************************************)
(* The way of a commit of main to one environment: .github/workflows/ci.yml,*)
(* release.yml and deploy.yml with the tasks they call.  Commits are       *)
(* numbered as main grows.  The queues are those of GitHub's concurrency   *)
(* groups: one run in progress and one that waits, which a newer one       *)
(* replaces.  Environments have groups of their own and do not meet.       *)
(***************************************************************************)
EXTENDS Integers, Sequences, FiniteSets, Functions

CONSTANTS
    MaxCommits,     \* bound: commits pushed to main
    MaxDispatches,  \* bound: manual runs of Deploy
    MaxForks,       \* bound: CI runs of forks' pull requests
    None

VARIABLES
    ci,         \* the CI runs of main's commits, in their order
    completed,  \* commits whose "CI completed" event has not been delivered, 0 for a fork's
    waiting,    \* the run of Deploy that waits, or None
    running,    \* those in progress
    dispatched, \* how many were started by hand
    forks,      \* how many CI runs of forks have passed the branches filter
    live,       \* the commit whose code is live, 0 for what was there before
    schema,     \* the commit whose migrations have run
    failed      \* commits whose deploy ended red

vars == <<ci, completed, waiting, running, dispatched, forks, live, schema, failed>>

Tip    == Len(ci)
Commits == 0..MaxCommits

\* "skipped" is a commit without a CI run: the changelog commit says [skip ci].
CIStates == {"running", "passed", "failed", "cancelled", "skipped"}
Steps    == {"build", "apply", "migrate", "smoke"}
\* What created a run: CI of main, CI of a fork, by hand on main or on another ref.
Causes   == {"ci", "fork", "main", "ref"}
Runs     == [sha : Commits, by : Causes, deploys : BOOLEAN, step : Steps]

ASSUME DeliveryAssumption ==
    /\ MaxCommits \in Nat /\ MaxDispatches \in Nat /\ MaxForks \in Nat
    /\ None \notin Runs

Init ==
    /\ ci = <<>>
    /\ completed = <<>>
    /\ waiting = None
    /\ running = {}
    /\ dispatched = 0 /\ forks = 0
    /\ live = 0 /\ schema = 0
    /\ failed = {}

-----------------------------------------------------------------------------
(* CI and Release, which a push to main starts.                              *)

\* A push cancels the CI run in progress on the same ref, of which there is one at
\* most; its event comes before anything of the new run.
Push ==
    /\ Tip < MaxCommits
    /\ ci' = Append([c \in 1..Tip |-> IF ci[c] = "running" THEN "cancelled" ELSE ci[c]],
                    "running")
    /\ IF \E c \in 1..Tip : ci[c] = "running"
       THEN \E c \in 1..Tip : ci[c] = "running" /\ completed' = Append(completed, c)
       ELSE UNCHANGED completed
    /\ UNCHANGED <<waiting, running, dispatched, forks, live, schema, failed>>

CIEnds(c) ==
    /\ ci[c] = "running"
    /\ \E conclusion \in {"passed", "failed"} : ci' = [ci EXCEPT ![c] = conclusion]
    /\ completed' = Append(completed, c)
    /\ UNCHANGED <<waiting, running, dispatched, forks, live, schema, failed>>

\* CI of a fork's pull request whose branch is named main, whatever its conclusion:
\* Deploy's branches filter sees the name only.
ForkCI ==
    /\ Tip > 0
    /\ forks < MaxForks
    /\ forks' = forks + 1
    /\ completed' = Append(completed, 0)
    /\ UNCHANGED <<ci, waiting, running, dispatched, live, schema, failed>>

\* semantic-release commits the changelog on top of the commit that was pushed,
\* whatever CI says of it, unless main has moved on.
Release ==
    /\ Tip \in 1..(MaxCommits - 1) /\ ci[Tip] # "skipped"
    /\ ci' = Append(ci, "skipped")
    /\ UNCHANGED <<completed, waiting, running, dispatched, forks, live, schema, failed>>

-----------------------------------------------------------------------------
(* Deploy's triggers and its queue.                                          *)

\* MUTANT: a run is for a merge that is not on main, as a pull request's would be.
Run_MergeRef(by, deploys) ==
    [sha |-> Tip + 1, by |-> by, deploys |-> deploys, step |-> "build"]

\* What a run of Deploy is created with.
Run(by, deploys) == [sha |-> Tip, by |-> by, deploys |-> deploys, step |-> "build"]

\* MUTANT: a run that finds another in progress is dropped.
Enqueue_OnlyIfIdle(run) == waiting' = IF running = {} THEN run ELSE waiting

\* The concurrency group: a run that waits is replaced by a newer one.
Enqueue(run) == waiting' = run

\* workflow_run: the run's sha is main's head, not the commit that CI saw. Every
\* completed CI run starts one; after a failure, or for a fork, it has nothing to deploy.
Trigger ==
    /\ completed # <<>>
    /\ LET c == Head(completed)
       IN  Enqueue(IF c = 0 THEN Run("fork", FALSE) ELSE Run("ci", ci[c] = "passed"))
    /\ completed' = Tail(completed)
    /\ UNCHANGED <<ci, running, dispatched, forks, live, schema, failed>>

\* workflow_dispatch takes any branch or tag, and the checkout follows it: main, or
\* another ref, which counts as the commit of main it was cut from.
Dispatch ==
    /\ Tip > 0
    /\ dispatched < MaxDispatches
    /\ dispatched' = dispatched + 1
    /\ \/ Enqueue(Run("main", TRUE))
       \/ \E sha \in 1..Tip : Enqueue([Run("ref", TRUE) EXCEPT !.sha = sha])
    /\ UNCHANGED <<ci, completed, running, forks, live, schema, failed>>

\* MUTANT: the workflow has no concurrency group.
Start_AtOnce ==
    /\ waiting # None
    /\ running' = IF waiting.deploys THEN running \cup {waiting} ELSE running
    /\ waiting' = None
    /\ UNCHANGED <<ci, completed, dispatched, forks, live, schema, failed>>

\* One run at a time; the job of a run without a success to deploy is skipped.
Start ==
    /\ waiting # None /\ running = {}
    /\ running' = IF waiting.deploys THEN {waiting} ELSE {}
    /\ waiting' = None
    /\ UNCHANGED <<ci, completed, dispatched, forks, live, schema, failed>>

-----------------------------------------------------------------------------
(* The job's steps. A step that fails ends it, and it ends red.              *)
Goto(run, step) == running' = (running \ {run}) \cup {[run EXCEPT !.step = step]}
End(run)        == running' = running \ {run} /\ UNCHANGED failed
EndsRed(run)    == running' = running \ {run} /\ failed' = failed \cup {run.sha}

\* MUTANT: the migrations run before the code they belong to is applied.
Build_ThenMigrate(run) ==
    /\ run.step = "build"
    /\ Goto(run, "migrate")
    /\ UNCHANGED <<ci, completed, waiting, dispatched, forks, live, schema, failed>>

\* The credentials, the checkout, the artifacts and the rendered gateway document.
Build(run) ==
    /\ run.step = "build"
    /\ (Goto(run, "apply") /\ UNCHANGED failed) \/ EndsRed(run)
    /\ UNCHANGED <<ci, completed, waiting, dispatched, forks, live, schema>>

\* task tf:apply: a failure leaves the live alias moved or not.
Apply(run) ==
    /\ run.step = "apply"
    /\ \/ Goto(run, "migrate") /\ live' = run.sha /\ UNCHANGED failed
       \/ EndsRed(run) /\ live' \in {live, run.sha}
    /\ UNCHANGED <<ci, completed, waiting, dispatched, forks, schema>>

\* task db:migrate, skipped without a database URL. All migrations are one transaction,
\* whose commit may go unheard; those that newer commits brought stay.
Migrate(run) ==
    /\ run.step = "migrate"
    /\ schema' \in {schema, IF schema < run.sha THEN run.sha ELSE schema}
    /\ (Goto(run, "smoke") /\ UNCHANGED failed) \/ EndsRed(run)
    /\ UNCHANGED <<ci, completed, waiting, dispatched, forks, live>>

\* The smoke test, or its absence in prod.
Smoke(run) ==
    /\ run.step = "smoke"
    /\ End(run) \/ EndsRed(run)
    /\ UNCHANGED <<ci, completed, waiting, dispatched, forks, live, schema>>

Job(run) == Build(run) \/ Apply(run) \/ Migrate(run) \/ Smoke(run)

Next ==
    \/ Push \/ Release \/ ForkCI \/ \E c \in 1..Tip : CIEnds(c)
    \/ Trigger \/ Dispatch \/ Start
    \/ \E run \in running : Job(run)

Spec == Init /\ [][Next]_vars

\* Jobs end, or are ended by their timeout-minutes; GitHub delivers events and starts
\* what waits. Nobody need push, release, dispatch or open a pull request.
FairSpec ==
    /\ Spec
    /\ WF_vars(\E c \in 1..Tip : CIEnds(c))
    /\ WF_vars(Trigger)
    /\ WF_vars(Start)
    /\ WF_vars(\E run \in running : Job(run))
-----------------------------------------------------------------------------
(* Types.                                                                    *)
TypeOK ==
    /\ ci \in Seq(CIStates) /\ Tip <= MaxCommits
    /\ completed \in Seq(0..Tip)
    /\ waiting \in Runs \cup {None}
    /\ running \subseteq Runs
    /\ dispatched \in 0..MaxDispatches /\ forks \in 0..MaxForks
    /\ {live, schema} \subseteq 0..Tip
    /\ failed \subseteq 1..Tip

\* However runs queue, replace one another and fail, an environment goes back to older
\* code only by a manual run on another ref than main (deploy.yml:10-16, 22-26).
NeverBack == [][live' < live => \E run \in running : run.by = "ref"]_vars

\* The schema moves to a commit only while that commit's code is live, also when an older
\* one was put back in between (docs/operations/README.md:68-72).
MigrationsFollowCode == [][schema' # schema => schema' = live]_vars

\* Two jobs never migrate one database at once: node-pg-migrate runs with --no-lock
\* (packages/api/package.json:9), only the concurrency group keeps them apart.
MigrationsDoNotOverlap ==
    \A one, other \in running : one.step = "migrate" /\ other.step = "migrate" => one = other

(* What makes the queue safe: one job at a time, and every step forward in it *)
(* goes to a commit that is no older, but for a run that was sent to a ref.   *)
RunInv(run) ==
    /\ run.sha \in 1..Tip
    /\ run.by # "ref" => live <= run.sha
    /\ run.step \in {"migrate", "smoke"} => live = run.sha

WaitInv(run) ==
    /\ run.sha \in 1..Tip
    /\ run.step = "build"
    /\ run.by # "ref" => live <= run.sha /\ \A other \in running : other.sha <= run.sha

IInv ==
    /\ TypeOK
    /\ completed # <<>> => Tip > 0
    /\ \A one, other \in running : one = other
    /\ \A run \in running : RunInv(run)
    /\ waiting # None => WaitInv(waiting)

\* CI's own run that deploys c waits, or a run that deploys it is in progress.
Queued(c)    == waiting # None /\ waiting.by = "ci" /\ waiting.deploys /\ waiting.sha = c
Deploying(c) == \E run \in running : run.sha = c
\* A run that is there for something else than the newest commit has taken the place.
Displaced    == waiting # None /\ waiting.by \in {"fork", "ref"}

\* Once CI has passed main's newest commit, a deploy of it waits; it starts unless main
\* moves on, or a fork's run or a manual one takes its place in the queue, which the code
\* does not prevent; and once started it brings the commit live or ends red
\* (deploy.yml:4-5 and 22-26).
NewestGoesLive ==
    \A c \in 1..MaxCommits :
        /\ (Tip = c /\ ci[c] = "passed" /\ c \in Range(completed)) ~> (Queued(c) \/ Tip # c)
        /\ (Queued(c) /\ ci[c] = "passed") ~> (Deploying(c) \/ Tip # c \/ Displaced)
        /\ Deploying(c) ~> (live = c \/ c \in failed)

\* "Always the newest commit CI has passed or is about to re-validate" (deploy.yml:54-56,
\* and ADR-11, "Deploy only what CI validated", docs/architecture/decisions.md:45).
OnlyValidated ==
    \A run \in running : run.by = "ci" => ci[run.sha] \in {"passed", "running"}
=============================================================================
