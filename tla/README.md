# Verification of the loan adjudication system

TLA+ models of the underwriting service under `src/src/underwriting` (paths below are
relative to it except `GOVERNANCE.md`, which is beside it), the TLC runs that check them
and the theorems TLAPS proves about them. `PROJECT.json` lists the runs, the
mutations that show each property can fail, and the source lines each definition stands for.

## 1. The system

An application for a loan is posted to a FastAPI process, which runs a LangGraph graph of
seven nodes on it: intake, document extraction (chat model), risk scoring, policy
compliance, optionally a human review, explainability (chat model), output. The graph
writes a checkpoint to SQLite after every node. A case that needs a reviewer stops in
`interrupt()`; the request is answered, the process may restart, and a later
`escalation-resolve` request resumes the thread from its checkpoint.

| Component | State | Operations | Interacts with |
|---|---|---|---|
| Lending rules: `domain/risk.py`, `policy.py`, `decisioning.py`, `models.py` | none | ratio, tier, flags, route, outcome and reasons | called by the nodes |
| Agent graph: `service/graph.py`, `nodes.py`, `state.py` | the thread's state: application, extraction, risk, flags, resolution, decision, status, audit trail | one node after another; `interrupt`, resume | rules, chat model, audit log, checkpoint store |
| Application service: `service/application_service.py`, `domain/errors.py` | none of its own | `start_application`, `resolve_escalation`, `get_application`, `get_rationale` | graph, by a thread per application id |
| Checkpoint store: `infrastructure/checkpointer.py` | a process-wide saver; the SQLite file | open, close; get and put of checkpoints | graph |
| Chat model: `infrastructure/llm.py` | a breaker | extraction, rationale; offline or hosted | nodes, retry and breaker |
| Credit bureau: `infrastructure/credit_bureau.py` | a breaker | report of an applicant | risk node, retry and breaker |
| Retry and breaker: `infrastructure/resilience.py` | state, failures in a row, time of opening | check before a call, bookkeeping after it; attempts and back-off | chat model and bureau |
| Audit log: `infrastructure/audit_log.py` | the log stream | write a line and return the event | nodes; the event enters the thread's state when the node returns |
| HTTP API: `api/main.py`, `schemas.py` | the service in `app.state`, correlation ids | routes, probes, error mapping | application service |
| Settings: `config.py` | the environment, read once and cached | `get_settings`, `has_real_llm_provider` | all |
| PII redaction: `infrastructure/pii_redaction.py` | none | `redact_text`, `redact_mapping` | audit log |
| Prompt guard, tracing, logging | none | pure functions and output | log calls, nodes |
| Deployment, demo script | | | one replica on one volume |

### What is hard in it

- **Re-execution.** LangGraph runs a node again from its first line when it is resumed or
  retried. What a node does before it returns (audit lines, calls) repeats; what it returns
  is committed once. The audit log and the stored trail are therefore different histories.
- **Crashes between checkpoints.** The writer is in the background: a crash keeps any prefix
  of a run's checkpoints.
- **One thread, several runs.** The id is the checkpoint partition. A second submission
  under it is written over the old values: keys it does not name stay, and trails are
  added to.
- **"Pending" is not "paused".** The service takes any thread with a next node for one
  that awaits a reviewer, also one whose node raised or whose process died.
- **Two processes on one store**, for the time of a rolling update.
- **Threads in one breaker.** The lock is released while the protected call runs.
- **Retry over breaker.** A refusal is retried as if it were a failure; the number of
  attempts equals the threshold. All applications of a process share the breaker.
- **Singletons.** Settings, saver and service are module or process globals; a startup can fail
  between any two of them, and the next one in the process finds what it left.
- **Thresholds.** Three unordered settings, rounding, and rules whose order decides.

What makes each part correct:

- *rules*: only settled cases are decided automatically; every denial has reasons; no better
  input leads to a worse disposition;
- *graph and service*: the audit trail is the path taken, a review case is decided by its
  reviewer and no other case is, whatever fails in between; a run ends or pauses;
- *store*: what a client was told stays; the trail only grows; a completed run is final;
- *log*: never behind the stored trail;
- *breaker and retry*: state and count agree, the cooldown is kept, every call ends;
- *both together*: a readable application fails only in the wake of an unreadable one, and
  the service recovers;
- *process*: whoever serves is on the store its settings name, with every pause it answered;
- *redaction*: what is hidden depends on the path to it and on nothing else.

## 2. The modules

| Module | Models | Read with |
|---|---|---|
| `LendingRules` | the pure rules: offline extraction, band, ratio, tier, flags, route, outcome | `risk.py`, `policy.py`, `decisioning.py`, `llm.py:64-133`, `nodes.py:186-212` and `277-289` |
| `LendingRulesMC` | cases at and around every threshold; a step changes one input field | |
| `LendingRules_proofs` | lemmas: what the rules return; a better band means no worse tier, and a larger ratio no better one where the thresholds leave no gap | |
| `LendingRulesMC_proofs` | the rule properties for any thresholds and amounts | |
| `UnderwritingGraph` | API processes, handlers, nodes, background writer, store, log, crashes; EXTENDS `LendingRules` | `nodes.py`, `graph.py`, `state.py`, `application_service.py`, `audit_log.py`, `main.py` |
| `UnderwritingGraphMC` | the constants: one application for each way a case can go | |
| `UnderwritingGraph_proofs` | type correctness of the graph; every handler runs out of steps, and ends if it never stands still; the path of a case: trail, review, automatic decision, the rationale shown | |
| `CaseLifecycle` | the abstract specification: what a client may rely on about a case | `application_service.py`, `GOVERNANCE.md` |
| `UnderwritingCases` | the refinement mapping from the store of the graph to `CaseLifecycle` | `application_service.py:85-119` |
| `Lifecycle_proofs` | the store implements `CaseLifecycle`; answers and stored cases are durable; when only paused runs are resolved; submissions settle and reviews complete; the log covers the trail | |
| `CircuitBreaker` | the breaker: its critical sections, called by any number of threads | `resilience.py:79-145` |
| `ResilientCall` | the retry loop around it; EXTENDS `CircuitBreaker` | `resilience.py:33-76`, `llm.py`, `credit_bureau.py` |
| `ResilientCall_proofs` | invariants and step properties of both; every call runs out of steps | |
| `UnderwritingService` | the deployment: the graph, with `ResilientCall` as the chat model its nodes call | `llm.py:243-264`, `nodes.py`, `main.py:171-210` |
| `UnderwritingServiceMC` | a case with a missing line, one for a reviewer, one that cannot be read | |
| `Service_proofs` | the deployment implements the graph, hence `CaseLifecycle`; a failure opens the breaker and has a cause; every request runs out of steps | |
| `ServerProcess` | the lifespan and its singletons: settings, saver, chat model, service | `main.py:51-68`, `checkpointer.py`, `config.py:81-102`, `llm.py:267-314` |
| `ServerProcess_proofs` | its type, the store and the provider a process serves with | |
| `Redaction` | `redact_mapping` on nested details | `pii_redaction.py` |
| `RedactionMC` | four keys: sensitive in two cases, sensitive for one caller, harmless | |
| `Redaction_proofs` | the recursion is well defined; what it hides, for details of any depth | |

Definitions named `X_...` are mutations of the definition that follows them: a dropped
guard, a missing reset, a swapped order. No specification uses them; each is there to show
that a property would notice it.

### Lending rules

Amounts are whole cents, ratios are in ten-thousandths (the code rounds to four decimals),
confidence is in hundredths. Python floats become exact integers; a tie in rounding goes up, where
in Python the nearest float decides; no input of the runs is a tie. The amounts of the runs stay
below what TLC's 32-bit integers hold; the theorems know no such limit. A pay stub is a record of
its labelled lines, each absent, a figure, or a figure of only commas, which the pattern accepts and
`float("")` refuses. The result of the policy check is its set of flags; descriptions are left out.
`DtiBorderlineLow`, `DtiBorderlineHigh` and `DtiHardDecline` are any integers: nothing in
`config.py` orders them.

### Graph, service and store

A checkpoint is a record: `next` (LangGraph's `snapshot.next`, `"end"` when empty),
`interrupted`, `status`, the state keys the nodes write, and the audit trail, split where
the last submission begins (`earlier \o trail`). `store[a]` is the newest checkpoint SQLite
holds of a thread. A process `s` has a handler with a program counter `pc[s]`, the id it works for, its
own copy `work[s]` of the checkpoint, the resume value it may still have, and `unsaved[s]`: the
background writer is behind.

| Action | Code |
|---|---|
| `StartApplication` | `start_application`, up to the first superstep: the input is merged into the thread |
| `CheckResolve`, `Resume` | `resolve_escalation`: the check on a snapshot, then `invoke(Command(resume))`, which reads the thread again |
| `IntakeNode` ... `OutputNode` | the nodes; each is one superstep, its audit line and its checkpoint |
| `EscalationPauses`, `EscalationResumes` | `human_escalation` without and with a resume value |
| `NodeFails` | a chat-model node raises for good, or the document cannot be parsed |
| `Flush` | the background writer stores the newest checkpoint |
| `Return`, `Raise` | `invoke` waits for the writer; the answer is `get_application`, or a 500 |
| `Crash` | the process dies under its handler |

Every node is atomic: it touches nothing shared before its commit but the log, and a crash
inside it is the crash before it, except for a repeated log line, which only adds to what
`LogCoversTrail` bounds from below. The initial checkpoint of a submission and its
first superstep are separate steps. LangGraph applies the input in two checkpoints, the first of which
still holds the old values; they are one here, so that a crash between them is the crash before
both. `reply[a]` is what the last answer about an id said, and how much of the trail it came with was
of earlier submissions; only an answer changes it. Requests that are
refused (404, 409, 422) change nothing and are not actions; `get_application` and
`get_rationale` are the operators `Summary` and `RationaleAvailable`. One handler per
process at a time is what `async def` routes around a synchronous service amount to. The
score is part of a case (it is a hash of the name), as is what a hosted model would
answer (`ProviderAnswers`, anything `ExtractedFinancials` accepts).

External behaviour taken from how the code uses LangGraph 0.2.60: one node per superstep, checkpoint
after each, `invoke` returning or raising after the writer has finished, a node with
`interrupt()` run again from its start, a resume value available to the first task only
and gone when its superstep commits. With two processes the later writer's checkpoint is
taken to be the newest.

### The life of a case

`CaseLifecycle` knows no node, writer or process. A case has a stage (none, processing,
in review, answered, decided, completed), it may have been referred to a reviewer, and it
has an answer and a verdict. `Proceed` moves it forward by any number of stages:
what was referred stays so, an answer enters on the way out of the review and at no other
time, a verdict stays. `Reopen` is a new submission under the id. In every state the verdict is
the reviewer's if there is an answer under the id, else the rules'. (That an answer from
before a reopening still counts is what the code does; see `stale_review`.)

The refinement mapping of `UnderwritingCases` reads one stored checkpoint: the stage from `next`,
the verdict from the decision of this submission, the answer from the resolution. Only `Flush`
changes the store, and it may store what several nodes did, so that a step of the graph is one step
of a case or none. A node that is repeated, an answer applied twice and a crash that loses work are
stutters; a verdict taken back, a reviewer asked twice or an answer lost would be none.

### Breaker and retry

`Admit`, `Refuse`, `Succeed` and `Fail` are the two locked sections of `CircuitBreaker.call`; the call
itself lies between them. The clock is `age`, the time since opening. `failures` stops at
the threshold and `age` at the timeout: the code compares them with `>=` only, so that
nothing is lost. `ResilientCall` adds the attempts, the refusal that counts as one, and
the back-off, whose length is left open.

### The service as a whole

`UnderwritingService` has the variables of both. `Llm == INSTANCE ResilientCall` with the processes
as its threads: a process is one event loop, hence one caller. A node that calls the model takes its
graph step when its call returns (`CallAnswers`) and `NodeFails` when the call gives up
(`CallGivesUp`), and the attempts, refusals and back-offs between are steps of `ResilientCall` that
leave the graph alone. The offline model fails on a document it cannot read, at every attempt, and
on nothing else, so that whatever else fails, the breaker made it fail. A crash starts the breaker
anew. One process, as `deploy/k8s/deployment.yaml` pins it, is an assumption
(`DeploymentAssumption`). The bureau has a breaker of its own and an operation that cannot fail, and
is left out here.

### The server process

`ServerProcess` is the lifespan, one action for each call in it: `Configure` (the
`lru_cache` of the settings), `ReuseSaver`, `OpenSaver` and `OpenFails` (`open_checkpointer`, which
replaces the stack before it can fail), `StartService` (`get_chat_model`, which may raise).
There is no `try` around them, so that a startup that fails leaves what it had set up. `Shutdown`,
`Reset` (what `tests/conftest.py` does between two applications in one process), `ProcessEnds` and
`ChangeEnvironment` come in any order with them. A connection is a number and a path; `held` is what each path
holds and `:memory:` loses its content with its connection. A `Pause` stands for the whole graph: it happens
only on an open connection.

### Redaction

A payload is a tree of dicts, lists, texts and numbers, built from the inside by `PutInDict` and
`PutInList`; a dict is the sequence of its items, as `data.items()` gives them, and a text is the number of
its matching spots. `RedactMapping`, with `RedactItem`, `RedactValue` and `RedactMember` for the branches, is the
recursion of `redact_mapping`, with the scrub of a text as "no spot is left": a recursive function on the mappings, so that it can be proved about. The
reference definition, `Redacted`, does not recurse over the payload: it takes every leaf with its path and says
from the path alone what is to become of it, the list inside a list, where the code stops, included. A dict
or a list without items is a leaf.

## 3. The runs

| Run | Question | Bounds |
|---|---|---|
| `rules` | the four rule properties | every combination of inputs on and next to each threshold: ratios that round down and up at 0.36, 0.45 and 0.55 (0.35993 and 0.35997, and so on), and 0.58, the four bands, zero, small and large stated incomes and debts, a request of exactly five incomes and a cent more, each frequency class |
| `graph_reused` | one process: trail, review, durable answers, log, finality, refinement of `CaseLifecycle` | all five kinds of case, both answers, an id submitted once or twice, failing calls, a crash at any point |
| `graph_processes` | the same for two processes on one store | one document, with a hosted model whose four answers lead to the rules (both ways), a blocking flag and the borderline band; one crash |
| `graph_live` | does everything that begins end | all cases, two submissions |
| `call_two` | two threads call: state against count, reason to trip and to close, every call ends | threshold 3, three attempts as in the code, timeout 2 |
| `service` | graph and calls together: who makes whom fail, and does the service recover | two ids, three cases, threshold 3, three attempts, timeout 2, a crash |
| `server` | is whoever serves on the right store, with every pause | two files and memory, all settings, one of two providers installed, three startups in one process, three connections |
| `redaction` | is what is hidden what its path says | four keys, with and without an extra one, four levels |
| `more_debt`, `only_paused`, `stale_review`, `provider_choice` | what the repository says and the code does not do (section 5) | |

The properties of the graph, and what each would catch:

- `TrailTellsThePath`: a crash, failure, resume or second process that leaves an event out of the
  trail or in it twice. It holds, because only committed nodes contribute.
- `ReviewCasesAreReviewed`, `OtherCasesAreAutomatic`: a review case that slips past its
  reviewer, for instance because a resume value is consumed by another node; a case nobody
  reviewed that a reviewer's answer decides. The second needs ids that are not reused,
  and is checked where two processes could mix up their cases.
- `AnswersAreDurable`: a decision or a pause that a client was told of and that the store does not hold
  any more, in whatever state of a later request and hence after whatever crash: an answer given before
  the writer stored what it says, a resolution that takes the pause off the record before the review
  is on it, a failed node that undoes the pause it resumed. Only a later submission ends what an answer
  promises. Checked with one process.
- `LogCoversTrail`: an event that is stored but never logged.
- `CompletedIsFinal`, `TrailOnlyGrows`: a late write or a resolution that changes a completed run (until its id
  is submitted again); a submission that drops the history of its id. Checked with one process.
- `ImplementsLifecycle`: a verdict taken back, a second review of one case, an answer lost or
  applied to a case that no longer awaits one. Checked with one process.
- `SubmissionsSettle`, `ReviewsComplete`, `HandlersEnd`: a pause that keeps its handler, a review that leads
  back to the rules, a handler that waits for ever.

And of the others:

- `ClosedIffBelowThreshold`, `TripsOnlyOnFailure`, `StaysOpenForTimeout`: a probe, a late success or
  a late failure that leaves the state of the breaker and its count at odds. The only way out of the
  open state before the timeout is the success of a call that was let in before.
- `FailureOpensBreaker`: one request that cannot succeed is enough to turn away the next ones,
  because the attempts are as many as the threshold: how a bad document spreads.
- `FailsOnlyForCause`: an application with a readable document that fails although nobody submitted an
  unreadable one under another id: no missing line, crash or review makes it fail by itself.
- `ReadableFailsByRefusalOnly`: a readable document that fails by anything but the refusal of the open
  breaker. Unlike the property before, it holds where ids are reused too; that one says who opened the
  breaker, this one that nothing else is in the way. The run submits an id once; the theorem any number of times.
- `ServedOnceCooledDown`: a breaker that never lets its process out again.
- `ServesOpenStore`, `PausesAreFound`: a process that serves on a closed connection, or on the file
  of an earlier configuration, so that a pause it answers is lost to those who look for it.
- `HidesByPath`: a recursion that forgets its extra keys, stops early or goes too far.

**Bounds.** `MaxRuns` (submissions per id), `MaxCrashes` and `LogCap` (log lines counted per action)
are guards of the actions they bound. One application id is enough: handlers of different ids share
nothing but the process, which runs one at a time, and the store, which is partitioned by id; the
theorems hold for any number. Two submissions show everything the first leaves behind; a third finds
a thread like the second's. A crash can hit every prefix of either submission's run, and what
recovers from it is a handler like any other, for which the theorems cover the next crash. `LogCap`
is at least the number of times an event can enter the trail within a run's bound on submissions;
above it, one line more makes no difference to `LogCoversTrail`. The processes stop when the bounds
are used up and every handler is idle, therefore the graph, service and server runs do not look for
deadlock, and neither does the redaction, which ends at `MaxDepth`; the others do. `service` has two
ids because one application must meet what another left in the breaker; its `LogCap` is 0 since none
of its properties is about the log. Three startups in a process are one that fails, one that serves
and one that finds what both left; `MaxOpened` numbers connections so that a closed one is told from
its successor.

**Fairness.** `FairSpec` of the graph asks that a handler that can go on does: the event loop runs
the handler's synchronous code to its end, and the writer is a thread of the same process. Clients,
reviewers, crashes and failing calls are never required to happen. Liveness is checked with neither
crashes nor failing calls; with them a thread can stay pending for ever, which is what the code
does: nothing retries it but a resolution. `SubmissionsSettle` excepts documents that cannot be read
at all, for the same reason. `FairSpec` of the calls asks that a started call goes on and that time
passes: the operation is assumed to return or raise, which the code leaves to the client library.
`FairServiceSpec` asks only that a request that was taken goes on, for the same reason as in the
graph; no client, clock or crash is required, so that `ServedOnceCooledDown` begins where the
breaker has cooled down and an application has arrived, and `RequestsEnd` holds though the breaker
may stay open for ever.

## 4. The proofs

Everything below holds for any sets of ids, processes, applications and answers, any thresholds and
bounds, under the named assumptions on constants, which TLC evaluates in the runs. The
assumptions give the types of applications (as the pydantic models do), answers and bounds, and keep
`None` apart from values.

| Theorem | Argument |
|---|---|
| `TypeCorrect` (`UnderwritingGraph_proofs`) | `TypeInv` adds that a checkpoint with a node to run holds what the node reads (`HasInput`): without it the risk node's result has no type. One lemma for each operation on a checkpoint, one for a commit, one for the end of a handler, one step for each action. |
| `HandlersRunOut` | `StepsLeft` counts what a handler has before it: the nodes on its way to the end, the writer once for each, the check and the answer. It is at most 19, every step of the handler makes it smaller, and no step of another changes it. |
| `HandlersEndCorrect` | From `HandlersGetOn`. `EndsFrom(s, k)`: from at most `k` steps before its end a handler comes to it; one lemma adds a step (`OneStepMore`), and 19 uses of it reach the bound. |
| `TrailTellsThePathCorrect`, `ReviewCasesAreReviewedCorrect` | Neither is inductive: the decision is made two nodes after the routing. `PathOK` adds that only review cases are at `human_escalation`, that a review case at `explainability_agent` has an answer, and that a thread without values has nothing to run. It is kept by every operation on a checkpoint, so it does not matter which process applies it, to which copy, or what a crash undoes. |
| `OtherCasesAreAutomaticCorrect` | Assumes that no id is submitted twice (`MaxRuns <= 1`). `AutoOK` says where a resolution can be; `Started` says that an id nobody submitted has no checkpoint. With `stale_review` it shows that reuse of an id is the only cause of a stale decision. |
| `RationalesAreCurrent` | Also for `MaxRuns <= 1`. `Current`, of every checkpoint in the store or in a handler: a decision is there only if this run has made it. With two submissions it is false (section 5). |
| `ImplementsLifecycleCorrect` (`Lifecycle_proofs`) | For any number of processes, as long as no two are inside `graph.invoke` for one id (`OneInvokePerId`): two may check a resolution at the same time, and of two ids anything may overlap. `LifeInv` says of a handler at work that its checkpoint follows from the stored one: as a case it is further on or reopened, and its trail is longer. One lemma per node shows that the node moves the case on; `Onward` and `Reopened` compose (`LaterTransitive`), so that `Flush`, which stores the work of any number of nodes, is one step. Without the hypothesis it is false: the store moves under a handler. |
| `TrailOnlyGrowsCorrect` | Under the same hypothesis, from the same invariant: `Follows` carries the prefix relation of trails. |
| `CompletedIsFinalCorrect` | The same hypothesis. `FinalInv`: a handler whose id is completed has nothing left to run unless the id was submitted again. |
| `AnswersAreDurableCorrect` | Under the same hypothesis. `AnswersInv`: an answer is given by a run that is over and stored, and from then on it holds (`HeldBy`) of what is stored and of what a handler for the id has in the making, so that the next `Flush`, and every crash before it, leaves it true. `NodesHold` goes through the nodes: a pause is left to a reviewer's answer only, which the trail records. `SubmittedHolds` is the one way out: a later submission. |
| `OneProcessCorrect` | With one process the hypothesis holds by itself, and with it the four properties; so does `OneHandlerPerId`, below. |
| `OnlyPausedRunsAreResolvedCorrect`, `IdsRestOver` | For `OneHandlerPerId` (no two requests for one id are in progress, the check of a resolution included) and behaviours in which no model call fails for good and no process dies (`Calm`). `RestInv`: an id nobody works for is untouched, paused or completed, and a resolution that passed the check finds the pause it saw. Its parameter says whether documents that cannot be read are excused. |
| `SubmissionsSettleCorrect` | From `HandlersGetOn`, for one process that does not die and in which only documents that cannot be read fail (`CalmBut(TRUE)`). Whoever works for an id goes on with it until it rests (`WorksOn`), by `RestInv` at an end that `SubmissionsSettle` allows, and does not work for ever (`HandlersEndCorrect`). The lemma `HandlerSettles` says this of each of any number of processes. |
| `ReviewsCompleteCorrect` | From `HandlersGetOn`, under the same condition and `OneHandlerPerId`. `UnderReview`: where a request with the answer to a pause can be on its way to a completed run; each of its steps keeps it there (`ReviewGoesOn`), and it cannot end elsewhere. |
| `LogCoversTrailCorrect` | For any number of processes. `LogInv` says of every handler's checkpoint what the property says of the stored one. `AddsAtMost` counts what a node adds to a trail, `LogGrows` what its log lines add to the counts, and `CoverKept` puts the two together, so that it does not matter whose checkpoint is stored last. |
| `ServiceImplementsGraph` (`Service_proofs`) | Each step of the service is a step of the graph or leaves it alone, so that every theorem above holds of the deployment; `ServiceImplementsLifecycle` is that of the refinement. |
| `ServiceTypeCorrect`, `FailureOpensBreakerCorrect` | `CallInv` counts: as long as the breaker is closed, every attempt of the call is on it. `InCallAtNode` adds that a call is made from a node that makes one. For any threshold, attempts and timeout. |
| `ReadableFailsByRefusalOnlyCorrect` | For any number of submissions of an id. By the actions of a call: only `Llm!AttemptRefused` fails an attempt of a readable document (`RaisesUnreadable`), and while the one process waits the breaker is nobody else's. |
| `RequestsRunOut` | The pair of `StepsLeft` and the steps left of the call, in lexicographic order: a step of the call makes the second smaller, a step of the graph the first, whatever state the breaker is in. |
| `FailsOnlyForCauseCorrect` | Assumes that no id is submitted twice. `CauseInv`: what the breaker has on record has somebody to blame, and a node that failed has something on record. `InputInv`: a handler works on the application that is stored or on the first under its id, so that the blamed document is not overwritten, and `BlameKept`: it is in the store before its handler ends. |
| `ServesOpenStoreCorrect`, `PausesAreFoundCorrect`, `ServerTypeCorrect` (`ServerProcess_proofs`) | `ServerInv`: the open saver belongs to the cached settings, because both are dropped together or not at all. A `Reset` that clears only the cache would break it. |
| `ChosenProviderHasKeyCorrect` | As long as `OPENAI_API_KEY` is not present and empty (`NoBlankOpenAIKey`). `ChoiceInv`: while settings are cached, the provider is the one they choose, and their OpenAI key is not blank. |
| `ClosedIffBelowThresholdCorrect`, `TripsOnlyOnFailureCorrect`, `StaysOpenForTimeoutCorrect` (`ResilientCall_proofs`) | Inductive, or from the type invariant, one critical section at a time, for any number of threads. `OneThreadStaysOpen`: with one thread nobody is inside a call while the breaker is open, and the exception of a late success falls away. |
| `ImplementsBreaker` | Each step of the retry loop is a step of the breaker or a stutter, so that the breaker's theorems hold under the loop. |
| `TypeCorrect`, `GivingUpOpensBreakerCorrect` (`ResilientCall_proofs`) | Who is about to try has a try left; for one thread, every attempt made since the call began is on the count as long as the breaker is closed. |
| `CallsRunOut` | Each attempt is at most four steps of its thread, a refusal included; no step of another thread adds one. |
| `DenialNamesAReasonCorrect`, `MissingDebtLineIsFlaggedCorrect`, `AutomaticOnlyWhenSettledCorrect`, `BetterScoreNeverHurtsCorrect` (`LendingRulesMC_proofs`) | From lemmas about the operators. The last one compares two steps of `TierRank` over the bands and holds however the thresholds are ordered. |
| `MoreDebtNeverHelpsCorrect` | For thresholds without a gap (`NoGap`: the decline starts no later than the borderline band ends, or the band is empty). More debt means no smaller ratio after rounding (`RoundDivGrows`, `DtiGrowsWithDebt`) and a larger ratio no better tier (`LargerRatioNoBetterTier`); of the flags only the one on leverage blocks. `GapRewardsARatio` is the converse: with a gap some larger ratio has a better tier. |
| `HidesByPathCorrect` (`Redaction_proofs`) | By induction over the details: what holds of a value if it holds of its parts holds of all (`DetailsInduction`). `HidesIn` speaks of every value redaction reaches, not only of the dict it is called with, because a dict may be reached through a list. Three lemmas say what one more step does to a path: a sensitive key masks it (`UnderSensitive`), a list in a list puts it out of reach (`UnderLists`), and any other step changes nothing (`UnderOther`). |

A theorem that needs more than the constants' assumptions states it: `MaxRuns <= 1`, `OneInvokePerId`,
`OneHandlerPerId`, `Calm`, `CalmBut(TRUE)`, `NoBlankOpenAIKey`, `NoGap`, and `HandlersGetOn` for what is to
happen at last. Each is what the code needs, not what the proof needs: TLC finds the property violated in the
run of this project that leaves the hypothesis out (`graph_reused` and `stale_review` reuse ids, `only_paused`
fails a call, `provider_choice` has the blank key, `more_debt` the gap of the shipped thresholds), or, for the
two that speak of overlap, in `graph_processes` when the property is added to it; `FailsOnlyForCause` is violated
in `service` with two submissions, where the document to blame may be overwritten; `SubmissionsSettle` and
`ReviewsComplete` are violated in `graph_live` with failing calls, with a crash or under `Spec` instead of
`FairSpec`, and `ReviewsComplete` with two processes. The exception is the one process of
`SubmissionsSettleCorrect`: TLC finds `SubmissionsSettle` true of two processes on one id as well, and the
proof stops there because its rest, that some handler of many ends, is a temporal formula under a quantifier over
states, which the provers do not take apart. That there is one process is an assumption on the
constants of `UnderwritingService` only.

Only model-checked:

- that `FairSpec` gives `HandlersGetOn`, which `UnderwritingGraph_proofs` defines: the handler of a process is idle or
  takes a step, again and again. It holds because a handler with steps left can always take one, but fairness
  speaks of ENABLED, which the prover does not reason about. What follows from it is proved: `HandlersEnd`,
  `SubmissionsSettle`, `ReviewsComplete`; `graph_live` checks these of `FairSpec`.
- `CallsEnd`, `RequestsEnd` and `ServedOnceCooledDown`. The variants of the first two are proved (`CallsRunOut`,
  `RequestsRunOut`); but they are as large as the constants make them, and the 19 steps of `HandlersEndCorrect`
  become an induction over a temporal formula, which the provers do not do.

The theorems about redaction hold for any keys, any extra keys and any `MaxDepth`, over all details of that
depth, not only those the run builds; keys may even be repeated. The induction theorems of the library take an operator, which
the provers cannot instantiate; `Redaction_proofs` therefore goes from the well-foundedness of `<` over
`LeastNumber` to `NumbersInSet`, which speaks of a set of numbers, and derives from it that `Values`,
`RedactMapping` and `Leaves` are well defined (`ValuesDefined`, `RedactMappingDefined`, `LeavesDefined`: a function
for each depth, extended by one level) and the induction over details.

The external behaviour of LangGraph is an assumption of the model, not of a theorem.

## 5. Where the repository says otherwise

Each of these is a run whose counterexample TLC finds, with a theorem that names its cause: without it
the promise is kept.

1. `more_debt`: a ratio in [0.45, 0.55) with a good band is MEDIUM and approved without review, while
   0.36 to 0.45 is reviewed (`risk.py:51-60`); `config.py:70` says that at 0.45 the ratio leaves the
   borderline band "toward decline". Cause: the gap between 0.45 and 0.55; with `NoGap`
   `MoreDebtNeverHelpsCorrect` holds.
2. `only_paused`: `application_service.py:127-128` says a resolution is refused unless the run is
   paused; a run that failed in a model call takes it (`application_service.py:135`). The
   answer is then dropped, and the run started again. Cause: a failed call, a crash or an overlapping
   request; without them `OnlyPausedRunsAreResolvedCorrect` holds.
3. `stale_review`: a second application under an id that was once reviewed is decided by the old answer
   (`nodes.py:389`), against `decisioning.py:70-71`. Cause: the reused id; `OtherCasesAreAutomaticCorrect`
   holds for `MaxRuns <= 1`.
4. `provider_choice`: `.env.example:14-16` ships `OPENAI_API_KEY=` and says that setting either key switches to its
   provider. With a real Anthropic key beside the blank one, `has_real_llm_provider` goes by truth and says yes,
   `get_chat_model` goes by `is not None` and takes OpenAI (`llm.py:279`). Cause: the blank OpenAI key alone;
   a blank Anthropic key does no harm (`ChosenProviderHasKeyCorrect`).

Read off the code, with no run of their own:

- `nodes.py:302` says that what precedes `interrupt()` runs once, and
  the request for a review is logged again on resume (`nodes.py:333`);
- `resilience.py:87-88` promises a single half-open probe; every thread that arrives is let in (one
  thread calls in the service, so that it makes no difference there);
- under a reused id `get_rationale` answers with the earlier decision until the new one is made
  (`application_service.py:151-154`), and only there (`RationalesAreCurrent`);
- two processes that resume one pause at once can store two different verdicts one after the other (section 4, `OneInvokePerId`);
- `audit_log.py:18-20` says every event is redacted, which its details are; `actor` and `decided_by`
  carry the id of the reviewer, a key that `SENSITIVE_KEYS` lists, and so does
  `application_service.py:138-141`; `credit_bureau.py:95-99` logs the applicant's name, against
  `pii_redaction.py:7-11`;
- a list inside a list is logged as it is (`pii_redaction.py:85-91`);
- `CorrelationIdFilter` overwrites the `correlation_id` that `application_service.py:80` passes, and
  an answer to an exception nobody handles carries no `X-Correlation-Id` (`main.py:97-102`);
- `readyz` goes by the presence of `app.state.service`, which no shutdown clears (`main.py:162`);
- a ratio above the hard threshold together with a blocking flag is escalated; `config.py:74` says
  "automatic decline, no escalation";
- the ratio is given as a reason for every high tier, also when only the poor band made it
  one (`decisioning.py:37-41`);
- a missing PAY_FREQUENCY line counts as a field found (`llm.py:98-103`);
- the rationale of an escalated case speaks of the borderline band also when a flag sent it
  there (`llm.py:187-190`, `GOVERNANCE.md:24`);
- `decision_finalized`, called "a clean, single audit-log line", is logged again after a crash
  before its checkpoint is stored (`nodes.py:461-462`);
- `get_rationale` answers once the decision exists, one node before the run is complete
  (`errors.py:21` says otherwise);
- a late success of a call admitted before the trip closes an open breaker (`resilience.py:86-87`);
- a documented gross income of zero is replaced by the stated one (`nodes.py:188-191`).

## 6. Not modelled, and why

- Prompt guard, tracing, logging output: substitutions in text and output that drive nothing; correlation ids
  live in a context variable per request and meet no other request.
- Probes: `healthz` is constant and `readyz` reads one field of `ServerProcess`.
- The regular expressions of extraction, prose, prompts, amounts formatted in reasons: no property tells
  them apart.
- The patterns of `redact_text`, their masks and the order in which they are applied: a scrubbed text has no
  spot left by definition, so that whether one pattern spares another's mask, and whether scrubbing twice is
  scrubbing once, is not said.
- The provider clients: what they answer is a set of financials in `graph_processes`, what they do
  with an empty key is left open in `ServerProcess`.
- The credit bureau beyond its band: tradelines and delinquencies drive nothing. Its breaker is that of
  `ResilientCall`; the shipped bureau computes a hash and never trips it.
- Durations: back-off and timeouts are unordered waits; how long the event loop is blocked, and whether
  a liveness probe then kills the process, is not said. The crash itself is modelled.
- A reviewer who answers what he read before the id was submitted again: the service keeps no
  version, and the model holds no reader's view.
- Manifests and the demo script, except for the single replica and its overlap in a rolling update.

## 7. Plan

Done: `LendingRules`; `UnderwritingGraph` with its crashes, reused ids and second process; `CircuitBreaker` and
`ResilientCall`; `CaseLifecycle` and the refinement, checked and proved; the composition `UnderwritingService`;
`ServerProcess`; `Redaction`; the theorems of section 4.

Left:

1. Proofs: the abstract specification of the breaker's answer to a caller over several calls (how many
   requests one unreadable document can turn away before the trial call).
2. A reader's view: a reviewer's answer against the submission he read, once the service gives
   its pauses a version.
3. The credit bureau's breaker inside `UnderwritingService`, if it ever calls out.
