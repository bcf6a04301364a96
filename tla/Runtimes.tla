------------------------------- MODULE Runtimes -------------------------------
(* Agent runtimes: which runner executes a run, how often it is tried, what   *)
(* the run is charged.  New builds the registry from the environment;         *)
(* UpdateRuntimeConfig changes the configuration of the Service at run time;  *)
(* executeRuntimeRun takes the default runner of the registry and runs it     *)
(* under RuntimeTimeout.  The http runner retries; "llm" stands for the       *)
(* Claude, OpenAI and Gemini runners, which share one shape, and "local" for  *)
(* the mock.  Prices are one unit per token.                                  *)
EXTENDS Integers, FiniteSets, Functions

CONSTANTS
    Run,          \* the runs of a project
    Environment,  \* configurations the process may be started with
    Updates,      \* configurations an administrator may set
    Replies,      \* what a provider may answer
    Timeout,      \* RuntimeTimeout
    BaseDelay,    \* RetryBaseDelay
    Estimate,     \* estimateRunTokens: [p, c] of a run that succeeds
    MaxClock,     \* bound: the clock while no run is with its runtime
    MaxFaults     \* bound: restarts and configuration updates

Provider == {"local", "http", "llm", "container"}

Configuration == [provider : Provider \cup {""}, endpoint : BOOLEAN, attempts : Int,
                  image : BOOLEAN, key : BOOLEAN, block : Int]

\* A reply has a status, a body and what it says of itself: a structured error
\* can declare itself retryable, a success reports its usage.
Success == 200
NoReply == [status |-> 0]   \* no answer: the connection failed
Reported == [status : Nat, body : STRING, retryable : BOOLEAN,
             usage : [p : Int, c : Int, total : Int]]

ASSUME RuntimesAssumption ==
    /\ IsFiniteSet(Run)
    /\ Environment \cup Updates \subseteq Configuration
    /\ Replies \subseteq {NoReply} \cup Reported
    /\ Estimate \in [p : Nat, c : Nat]
    /\ {Timeout, BaseDelay, MaxClock, MaxFaults} \subseteq Nat

VARIABLES
    clock,
    env,       \* the environment of the process
    cfg,       \* Service.cfg
    registry,  \* the runners that were registered and the default
    run,       \* per run: where it is, its attempts, its charge
    changes    \* updates and restarts so far

vars == <<clock, env, cfg, registry, run, changes>>

Unstarted == [pc |-> "new", provider |-> "none", block |-> 0, alone |-> TRUE, attempt |-> 0, max |-> 0,
              started |-> 0, wake |-> 0, retryable |-> FALSE, p |-> 0, c |-> 0, total |-> 0]

--------------------------------------------------------------------------------
(* New: every runtime that is selected or has settings is constructed.  An    *)
(* error of any of them is remembered, whether or not it is the one selected. *)

httpWanted(e) == e.endpoint
containerWanted(e) == e.provider = "container" \/ e.image
llmWanted(e) == e.provider = "llm" \/ e.key

NewHTTPRunner(e) == e.attempts >= 0
NewContainerRunner(e) == e.image
NewLLMRunner(e) == e.key

Registered(e) ==
    {"local"} \cup (IF httpWanted(e) /\ NewHTTPRunner(e) THEN {"http"} ELSE {})
              \cup (IF containerWanted(e) /\ NewContainerRunner(e) THEN {"container"} ELSE {})
              \cup (IF llmWanted(e) /\ NewLLMRunner(e) THEN {"llm"} ELSE {})

InitFailed(e) ==
    \/ httpWanted(e) /\ ~NewHTTPRunner(e)
    \/ containerWanted(e) /\ ~NewContainerRunner(e)
    \/ llmWanted(e) /\ ~NewLLMRunner(e)

\* SetDefault: an explicit provider that is not registered is an error, an
\* empty one is the local runner.
Selected(e) == IF e.provider = "" THEN "local" ELSE e.provider

\* Mutation: a provider that cannot be had is replaced by the local one.
BuiltWithFallback(e) ==
    [runners  |-> Registered(e),
     default  |-> IF Selected(e) \in Registered(e) THEN Selected(e) ELSE "local",
     attempts |-> IF e.attempts = 0 THEN 1 ELSE e.attempts,
     err      |-> FALSE]

Built(e) ==
    [runners  |-> Registered(e),
     default  |-> Selected(e),
     attempts |-> IF e.attempts = 0 THEN 1 ELSE e.attempts,
     err      |-> InitFailed(e) \/ Selected(e) \notin Registered(e)]

--------------------------------------------------------------------------------
(* Answers. *)

retryableStatus(status) == status \in {429, 502, 503, 504}

\* What the runner makes of a reply.  The size of the body is looked at before
\* the status; only the http runner believes an error that calls itself
\* retryable, and accepts every 2xx.
Succeeds(provider, r) ==
    r.body = "ok" /\ IF provider = "http" THEN r.status \in 200 .. 299 ELSE r.status = Success

Retryable(provider, r) ==
    \/ r = NoReply
    \/ /\ r.status \notin 200 .. 299 /\ r.body # "too large"
       /\ \/ retryableStatus(r.status)
          \/ provider = "http" /\ r.body = "structured" /\ r.retryable

AtLeast0(n) == IF n < 0 THEN 0 ELSE n

normalizeUsage(u) ==
    LET p == AtLeast0(u.p)
        c == AtLeast0(u.c)
        t == IF u.total <= 0 THEN p + c ELSE u.total
    IN  [p |-> IF t > 0 /\ p = 0 /\ c = 0 THEN t ELSE p, c |-> c, total |-> t]

--------------------------------------------------------------------------------
(* Cost and budget. *)

Cost == [r \in Run |-> run[r].p + run[r].c]
Spent == SumFunction(Cost)
Running == {r \in Run : run[r].pc \in {"start", "attempt", "wait"}}

\* Mutation: the run about to start is not counted.
BudgetOfEndedRuns == cfg.block > 0 => Spent < cfg.block

\* ensureTokenBudgetAllowsRunLocked: runs that have not ended cost nothing yet.
ensureTokenBudgetAllowsRun == cfg.block > 0 => Spent + Estimate.p + Estimate.c < cfg.block

Ended(r, pc, retryable, usage) ==
    run' = [run EXCEPT ![r].pc = pc, ![r].retryable = retryable,
                       ![r].p = usage.p, ![r].c = usage.c, ![r].total = usage.p + usage.c]

\* failRun charges the estimate, half of the completion.
FailedUsage == [p |-> Estimate.p, c |-> Estimate.c \div 2]

--------------------------------------------------------------------------------
(* The operations. *)

Init ==
    /\ clock = 0
    /\ env \in Environment
    /\ cfg = [env EXCEPT !.provider = Selected(env)]
    /\ registry = Built(env)
    /\ run = [r \in Run |-> Unstarted]
    /\ changes = 0

\* Time does not pass a deadline that has not been noticed, or a timer.  The
\* bound lets the runs that wait for their runtime go on to their deadline.
Tick ==
    /\ \/ clock < MaxClock
       \/ /\ \E r \in Run : run[r].pc \in {"attempt", "wait"}
          /\ \A r \in Run : run[r].pc # "start"
    /\ \A r \in Run :
          /\ run[r].pc \in {"attempt", "wait"} => clock < run[r].started + Timeout
          /\ run[r].pc = "wait" => clock < run[r].wake
    /\ clock' = clock + 1
    /\ UNCHANGED <<env, cfg, registry, run, changes>>

StartRun(r) ==
    /\ run[r].pc = "new" /\ clock <= MaxClock
    /\ ensureTokenBudgetAllowsRun
    /\ run' = [run EXCEPT ![r].pc = "start", ![r].block = cfg.block, ![r].alone = (Running = {})]
    /\ UNCHANGED <<clock, env, cfg, registry, changes>>

\* executeRuntimeRun up to the first request.
executeRuntimeRun(r) ==
    /\ run[r].pc = "start"
    /\ IF registry.err
       THEN Ended(r, "failed", FALSE, FailedUsage)
       ELSE run' = [run EXCEPT ![r].pc = "attempt", ![r].attempt = 1, ![r].started = clock,
                               ![r].provider = registry.default,
                               ![r].max = IF registry.default = "http" THEN registry.attempts ELSE 1]
    /\ UNCHANGED <<clock, env, cfg, registry, changes>>

\* The mock answers at once, and counts the words of prompt and output.
MockRun(r) ==
    /\ run[r].pc = "attempt" /\ run[r].provider = "local"
    /\ Ended(r, "succeeded", FALSE, Estimate)
    /\ UNCHANGED <<clock, env, cfg, registry, changes>>

\* A container exits in time, without usage, or fails, which is final.
ContainerRun(r) ==
    /\ run[r].pc = "attempt" /\ run[r].provider = "container"
    /\ \/ Ended(r, "succeeded", FALSE, Estimate)
       \/ Ended(r, "failed", FALSE, FailedUsage)
    /\ UNCHANGED <<clock, env, cfg, registry, changes>>

\* The run succeeds with the usage of the reply, or with the estimate if the
\* reply has none.
Succeed(r, reply) ==
    LET u == normalizeUsage(reply.usage)
    IN  IF u.p > 0 \/ u.c > 0 \/ u.total > 0
        THEN run' = [run EXCEPT ![r].pc = "succeeded", ![r].p = u.p, ![r].c = u.c, ![r].total = u.total]
        ELSE Ended(r, "succeeded", FALSE, Estimate)

\* Mutation: the last attempt is not counted.
OnceMore(r, retryable) ==
    IF run[r].attempt > run[r].max \/ ~retryable
    THEN Ended(r, "failed", retryable, FailedUsage)
    ELSE run' = [run EXCEPT ![r].pc = "wait", ![r].wake = clock + BaseDelay * run[r].attempt,
                            ![r].retryable = TRUE]

\* The loop of HTTPRunner.Run after a failed attempt; the others have none.
RetryOrFail(r, retryable) ==
    IF run[r].attempt = run[r].max \/ ~retryable
    THEN Ended(r, "failed", retryable, FailedUsage)
    ELSE run' = [run EXCEPT ![r].pc = "wait", ![r].wake = clock + BaseDelay * run[r].attempt,
                            ![r].retryable = TRUE]

runOnce(r) ==
    /\ run[r].pc = "attempt" /\ run[r].provider \in {"http", "llm"}
    /\ \E reply \in Replies :
          IF reply # NoReply /\ Succeeds(run[r].provider, reply)
          THEN Succeed(r, reply)
          ELSE RetryOrFail(r, Retryable(run[r].provider, reply))
    /\ UNCHANGED <<clock, env, cfg, registry, changes>>

\* Mutation: the request is made without the context.
DeadlineWhileWaiting(r) ==
    /\ run[r].pc = "wait" /\ clock = run[r].started + Timeout
    /\ Ended(r, "failed", TRUE, FailedUsage)
    /\ UNCHANGED <<clock, env, cfg, registry, changes>>

\* The deadline of all attempts together passes during one of them, or in the
\* pause between two; that error is retryable, and comes from a context that
\* is done.
DeadlineExceeded(r) ==
    /\ run[r].pc \in {"attempt", "wait"} /\ clock = run[r].started + Timeout
    /\ run[r].provider # "local"
    /\ IF run[r].pc = "attempt" THEN RetryOrFail(r, TRUE) ELSE Ended(r, "failed", TRUE, FailedUsage)
    /\ UNCHANGED <<clock, env, cfg, registry, changes>>

waitForRuntimeRetry(r) ==
    /\ run[r].pc = "wait" /\ clock = run[r].wake
    /\ run' = [run EXCEPT ![r].pc = "attempt", ![r].attempt = @ + 1]
    /\ UNCHANGED <<clock, env, cfg, registry, changes>>

\* The answer is "updated: ..."; the registry does not change.
UpdateRuntimeConfig ==
    /\ changes < MaxFaults
    /\ changes' = changes + 1
    /\ \E u \in Updates : u # cfg /\ cfg' = u
    /\ UNCHANGED <<clock, env, registry, run>>

\* The next process starts from the environment; runs under way stay where
\* they were, and nobody works on them.
Restart ==
    /\ changes < MaxFaults
    /\ changes' = changes + 1
    /\ cfg' = [env EXCEPT !.provider = Selected(env)]
    /\ registry' = Built(env)
    /\ run' = [r \in Run |-> IF r \in Running THEN [run[r] EXCEPT !.pc = "orphan"] ELSE run[r]]
    /\ UNCHANGED <<clock, env>>

\* What the service does by itself, and what it waits for.
Agent(r) == executeRuntimeRun(r) \/ MockRun(r) \/ DeadlineExceeded(r) \/ waitForRuntimeRetry(r)
Answer(r) == ContainerRun(r) \/ runOnce(r)

Next ==
    \/ Tick
    \/ \E r \in Run : StartRun(r) \/ Agent(r) \/ Answer(r)
    \/ UpdateRuntimeConfig
    \/ Restart

Spec == Init /\ [][Next]_vars

\* Goroutines are scheduled, timers fire and time goes on.  A provider or a
\* container need never answer.
FairSpec == Spec /\ WF_vars(Tick) /\ \A r \in Run : WF_vars(Agent(r))

--------------------------------------------------------------------------------
(* Properties. *)

TypeOK ==
    /\ clock \in 0 .. MaxClock + Timeout /\ changes \in 0 .. MaxFaults
    /\ env \in Environment
    /\ registry.runners \subseteq Provider
    /\ \A r \in Run :
          /\ run[r].pc \in {"new", "start", "attempt", "wait", "succeeded", "failed", "orphan"}
          /\ run[r].attempt \in 0 .. run[r].max
          /\ run[r].p >= 0 /\ run[r].c >= 0

\* HTTPRunner.Run tries again exactly as long as it may.  No attempt starts
\* after a failure that is final, or after the deadline, although the pauses
\* grow; and a run gives up on a retryable failure only when its attempts are
\* used up or the deadline has come.
RetriesAreExact ==
    [][\A r \in Run :
          /\ run'[r].attempt > run[r].attempt /\ run[r].attempt > 0 =>
                /\ run[r].retryable
                /\ run[r].attempt < run[r].max
                /\ clock <= run[r].started + Timeout
          /\ run'[r].pc = "failed" /\ run'[r].retryable =>
                \/ run'[r].attempt = run'[r].max
                \/ clock' >= run'[r].started + Timeout]_vars

\* A run takes the runtime that was selected when the process started, whatever
\* UpdateRuntimeConfig has set since, and none if any runtime is misconfigured:
\* no run falls back to another provider.
RunsUseSelectedRuntime ==
    \A r \in Run : run[r].provider # "none" =>
        run[r].provider \in registry.runners /\ run[r].provider = Selected(env) /\ ~InitFailed(env)

\* ensureTokenBudgetAllowsRunLocked projects the cost of the next run from the
\* runs that have ended, so runs that are started side by side can exceed the
\* block threshold together.  As long as none has cost more than its estimate,
\* the excess is at most the estimates of the runs that were started beside
\* another one.
OverspendBounded ==
    LET estimate == Estimate.p + Estimate.c
        beside   == {r \in Run : ~run[r].alone}
        started  == {r \in Run : run[r].pc # "new"}
    IN  (/\ cfg.block > 0 /\ \A r \in started : run[r].block = cfg.block
         /\ \A r \in Run : Cost[r] <= estimate)
        => Spent < cfg.block + Cardinality(beside) * estimate

\* Every run that is not lost with its process ends, also when the provider
\* never answers: RuntimeTimeout covers every attempt and every pause.
RunsEnd ==
    \A r \in Run : run[r].pc = "start" ~> run[r].pc \in {"succeeded", "failed", "orphan"}

==============================================================================
