# SupportPilot: TLA+ models, checks and proofs

This directory is a verification project for the SupportPilot backend
(`src/backend`, Django + Celery + PostgreSQL).  It contains TLA+ modules that
model the parts of the backend where several processes meet on the same rows,
TLC configurations that check them on small instances, and TLAPS proofs of the
central properties for instances of any size.  `PROJECT.json` maps every
definition to the lines it models and lists runs, mutants, hazards, findings and
theorems.

## 1. The system and its parts

A customer message enters through a **channel**, becomes a **Message** in a
**Conversation** and starts an **AgentRun**.  A Celery worker executes the run
through a bounded graph that calls an LLM and, through the **tool execution
boundary**, tools.  Every tool call passes a **policy gate** that allows it,
blocks it or demands a human **approval**; an approval pauses the run and its
decision resumes it.  A run ends with one reply, a **handoff** to a human, a
failure or a cancellation.  Replies, notifications and webhooks leave through the
**delivery engine**.  Everything asynchronous follows one pattern: a row is
committed, an `on_commit` hook publishes a message that may be lost, a worker
claims the row under `select_for_update` with a status guard, and a Celery Beat
sweep publishes again what was forgotten.

| component | state | operations | what is hard |
|---|---|---|---|
| agent runs (`agents/services.py`, `orchestration.py`, `tasks.py`) | `AgentRun` row: status, counters, output message | create, claim, pause, resume, complete, hand over, fail, exceed budget, cancel | redelivered messages, cancellation against every step, late workers |
| agent definitions (`agents/services.py`) | `AgentDefinition`, `AgentVersion` | create, update, publish | runs started from a copy of the version |
| recovery (`agents/recovery.py`) | none of its own | fail stuck RUNNING runs, re-publish PENDING and WAITING ones | the "dead" worker may be slow; a published message may be stale |
| runtime graph (`agents/runtime`) | graph state in memory, persisted counters | check budget, generate, tool, handoff | counters restart from the row after a pause |
| LLM context (`agents/context.py`, `rag.py`) | none | select history, cut references | limits, equal timestamps, citations |
| tool boundary (`tools/execution.py`) | `ToolExecution` row by idempotency key | claim, reset, gate, start, reserve slot, call with retries, finalize, resume | a row is reset after a failure; keys of continuations are shared |
| tool registry and bindings (`tools/services.py`) | `ToolDefinition`, `ToolBinding` | synchronise, bind, enable | draft checked on a copy |
| approvals (`approvals/services.py`) | `ApprovalRequest`, `ApprovalDecision` | decide, expire, cancel, publish resume | commits before the run is paused |
| policies (`policies/`) | policies, versions, rules, evaluations | publish, activate, evaluate | the gate reads in three statements; precedence, defaults, risk |
| handoffs and tickets (`tickets/services.py`) | one active `HumanHandoff` per conversation, `Ticket` | open or reuse, assign, change status, resolve, cancel | shared by the runs of a conversation; stale copies |
| conversations, customers | `Conversation`, `Message`, `Customer` | create, assign, change status, post, reopen | status read before, written after, no lock |
| delivery engine (`notifications/services.py`, `recovery.py`) | `Delivery`, `DeliveryAttempt`: status, token, lease, counters | create, claim, reclaim, complete, sweep | leases that expire under a slow worker |
| notifications, channel responses (`notifications/notification_delivery.py`, `channel_ingress/response_delivery.py`) | payload snapshot next to a `Delivery` | create or reuse, send | two rows, two transactions |
| webhooks (`webhooks/services.py`) | `WebhookEndpoint`, `WebhookEvent`, `WebhookDelivery` | endpoint administration, fan-out, redrive | attempts numbered across redrives |
| channel ingress (`channel_ingress/`) | `InboundChannelEvent`, `ChatSession`, customers and conversations by external id | ingest, claim, process, sweep | duplicate events, first contact from two messages at once |
| evaluations (`evaluations/`) | evaluation runs, case snapshots, results | start, execute case, aggregate, finalize, cancel, replay, compare, recover | many workers, one aggregate |
| knowledge (`knowledge/`) | sources, documents, jobs, chunks, retrieval hits | upload, ingest, retry, recover, search | a retry overlaps a slow first attempt |
| workspaces (`workspaces/`) | memberships, roles | add, change role, remove, transfer ownership | the last owner |
| integrations (`integrations/`) | connections, encrypted credentials, health | connect, rotate, enable, health-check, call | time-outs whose outcome is unknown |
| accounts, audit, observability, common, health, frontend | single rows, logs, UI | | no protocol of their own |

The properties that make each part correct are, in a line: a run is in one
worker's hands, ends, and answers once; a handler runs only for an allowed or
approved call, within its budget, and acts once; an approval and the execution
it gates agree; a stored channel event becomes one message and one run; a
delivery's row, attempts and external calls agree, and a source is sent once; an
evaluation is finalized from all its results and scored against its snapshot; a
document has the chunks of one ingestion; a workspace has one owner; what governs
a run has been published; stale copies do not tear rows apart.

## 2. Modules

| module | models | state and actions |
|---|---|---|
| `AgentRuns` | `agents/services.py`, `agents/recovery.py`, `agents/orchestration.py`, `agents/runtime/graph.py`, `tools/execution.py`, `approvals/services.py` | rows of runs, executions and approvals, the conversation's handoff, published messages, and per worker slot what its process holds in memory. One action per transaction or per step between two transactions; the action's name is the function's |
| `RunLifecycle` | what the API promises about a run | abstract specification: status, reply, holder. `AgentRuns` implements it with `holder` mapped to the workers that have the run |
| `AgentContext` | `agents/context.py`, `agents/rag.py`, `agents/llm_context.py` | which messages and references reach the model, and how they are cut: one step per row of the history and per result of the search |
| `IntegrationCalls` | `integrations/services.py`, `integrations/tools.py`, the retries and time limit of `tools/execution.py` | one execution row, its callers, the handler thread of each attempt, the connection, and how often the provider acted (`effects`) or acted and answered with an outage all the same (`disowned`) |
| `PolicyEvaluation` | `policies/evaluator.py`, `risk.py`, `defaults.py`, `predicates.py` | operators: risk, predicates, matching, precedence, default, required role; `judgement` is what one evaluation is asked |
| `Configuration` | `agents/services.py`, `tools/services.py`, `policies/services.py`, the reads of `policies/evaluator.py` | agent versions, bindings, policies, versions, rules; requests with the copy they loaded, evaluations with what they have read. Uses `PolicyEvaluation` |
| `SupportDesk` | `customers`, `conversations`, `tickets` services, and the ticket tools | rows, and requests with the copy they act on |
| `Membership` | `workspaces/services.py`, `permissions.py`, `views.py` | memberships, and requests between check and write |
| `Delivery` | `notifications/services.py`, `notifications/recovery.py`, `webhooks/services.py` (handler, redrive) | delivery rows, attempt rows, messages, workers, and a count of external calls |
| `SnapshotDelivery` | `notifications/notification_delivery.py`, `channel_ingress/response_delivery.py` | composes producers and snapshot rows with `Delivery`, whose variables and actions it uses; that it refines `Delivery` is true by construction and not listed as a result |
| `ChannelIngress` | `channel_ingress/services.py`, `identity.py`, `conversation_resolution.py`, `recovery.py`, the parts of `customers` and `conversations` they call | requests, event rows, customers, conversations, messages, runs; workers with an open transaction |
| `Evaluations` | `evaluations/services.py`, `tasks.py`, `recovery.py` | cases, runs, snapshots, results, messages, the worker of each result and the sweep. Uses `EvaluationScoring` |
| `EvaluationScoring` | `evaluations/scoring.py` and the comparison | operators: score of a case, metrics of a run, thresholds |
| `KnowledgeIngestion` | `knowledge/services.py`, `tasks.py`, `recovery.py`, `retrieval/services.py` | sources, documents, jobs, which write of the chunks a document has, uploads with the copy of the source they checked, workers, searches |
| `KnowledgeChunking` | `knowledge/ingestion/normalization.py`, `chunking.py` | a document between upload and embedding: one step per page that is normalised and joined, and per window that is cut; `origin` remembers where each character comes from |
| `AgentRunsProofs`, `DeliveryProofs` (also of `SnapshotDelivery`), `IngressProofs`, `DeskProofs`, `WorkspaceProofs` (of `Membership`, `Configuration` and `PolicyEvaluation`), `KnowledgeProofs` (of `KnowledgeIngestion`, `KnowledgeChunking` and `AgentContext`), `EvaluationsProofs`, `IntegrationProofs` | theorems | section 4 |
| `MCAgentRuns`, `MCDelivery`, `MCSnapshotDelivery`, `MCChannelIngress`, `MCEvaluations`, `MCKnowledge`, `MCWorkspace` | instances for TLC | constants, symmetry sets and samples of documents, conversations and rules |

Conventions common to all modules:

* A row read with `select_for_update` and guarded by its status inside one
  `transaction.atomic()` is one atomic action.  Reads without a lock that are used
  later are kept in the process that read them (`worker[w].seen`, `turn`,
  `attempt`, a worker's token).
* `Commit` in `ChannelIngress`: the processing transaction is long, so it is not
  one action.  Under READ COMMITTED its reads see committed rows, its inserts are
  flags (`newCustomer`, `newConversation`) that no one else sees, an insert of a key
  another open transaction has inserted waits, and a roll-back drops the flags.
* `tasks` is the broker: a set of messages.  Taking a message may leave it there
  (redelivery) and publishing may lose it; both cost a fault.
* Claim tokens are UUIDs in the code; in `Delivery` a token is named by the attempt
  it was issued for, which is what makes tokens distinct.
* Time appears as `due`, `expired` and as sweeps that may run at any moment, so
  timeouts race with everything.  A stuck-run sweep may hit a run whose worker is
  only slow; that costs a fault.
* A request of a person loads a row, checks the copy and writes in a later
  transaction, without a lock unless the code takes one. `SupportDesk`, `Membership`,
  `Configuration` and `IntegrationCalls` keep the copy in the request, so a check can be
  out of date when its write happens; a request may end without a write at any point.
* `KnowledgeChunking` and `AgentContext` are loops over data one process holds, so nothing
  interleaves with them: a step is one turn of a loop, and the input (`pages`, `request`)
  stays as it is.  The history is read in two statements, a count and the newest rows;
  that a message stamped before the trigger is committed between them is left out.
* `invoked`, `sent`, `resumed`, `effects`, `disowned` and `arrived` are history variables:
  what the outside world saw.  So are `users` in `AgentRuns`, the runs that have claimed an
  execution row, and `origin` in `KnowledgeChunking`.
* An outage a provider reports (`temporarily_unavailable`, every HTTP status of 500 and
  above in `google_calendar.py` and `_map_error` of the others) may come after it has done
  what it was asked.  Only the database, behind the ticket tools, never does so.
* A page is a string of letters, spaces, tabs (for all other blanks of `str.isspace`), line
  ends of both kinds and NULs.  NFC is left out: what it makes one character of is one
  character of a page.
* The LLM, the policy decision, the input and output schemas, handlers and
  providers are nondeterministic: any answer the calling code distinguishes.
* Definitions called *Mutation* are plausible bugs; each is put in the place of the
  definition below it to make sure that a property would notice.

## 3. Runs

Passing runs (distinct states in brackets):

* `one_run` (623 thousand): one conversation run, three model calls, one retry, two
  workers, two faults.  Enough for: a tool call, a pause, a resume, a second tool
  call with a second pause, and a final answer, with a crash or a slow worker and a
  lost or repeated message anywhere.  `ExclusiveOwner` and `ImplementsLifecycle` say
  that a late or duplicate worker changes nothing: `RunLifecycle` answers once and
  leaves an ended run alone (`OneReply`, `TerminalRunFrozen`, which the proofs state by
  themselves).  `DecisionMatchesExecution`, `HandlerAuthorized` and `SlotBeforeHandler`
  say what the policy gate, approvals and the tool budget promise.
* `two_runs` (689 thousand): two runs of one conversation, which share the handoff
  and, through the `agent:unknown` key of continuations, execution rows.
  `NoOrphanHandoff` and `WaitingRunWakeable`: nothing is left behind.
  `HandlerAuthorized` on rows that are shared: until a second run has claimed a row it
  promises what it does in `one_run`; afterwards a handler has still been called only for an
  action that was judged and not denied.  More is not true of a shared row, see below.
* `run_liveness` (34 thousand): `EveryRunEnds`.
* `delivery` (28 thousand): one webhook delivery that may be redriven, two attempts,
  three workers, three faults: a lease can expire under a slow worker, a second worker
  reclaims, the first comes back late, and a message is repeated.  Deliveries share
  nothing but worker slots, so one is enough.  `OneActiveAttempt`, `OneCallPerAttempt`,
  `HistoryFrozen`, and `DeliveryProgress` (a delivery ends unless the worker of its last
  attempt dies).  An attempt may end without an external call, terminally or, for a webhook
  whose address cannot be resolved now, to be tried again.
* `snapshot_delivery` (263 thousand): two producers, which may be two calls for one
  tool execution, two sources, two deliveries, composed with the engine.
  `OneNotificationPerSource`, `DeliveredWasSent`.
* `ingress` (70 thousand): two requests for two events with two payloads, on one new
  thread of one new customer, so that first contact, duplicate, conflict, roll-back and
  reopening all meet; two workers, three faults.  Requests compete in pairs, and do not
  read what workers write besides the event row.  `OneMessagePerEvent`,
  `ProcessedIsReachable`, `EventFrozen`, and `EventProgress` (a stored event ends unless
  the worker that claimed it dies).
* `evaluations` (177 thousand): one run of two cases, one of which may be edited or
  invalid, workers that die or are slow, one replay, a cancellation, the sweeps.  Two
  cases are what it takes for the last two to finish together; a third adds no new pair.
  `FinalizedIsComplete`, `ScoredAgainstSnapshot`, `GateMeansPassed` (a run compared with
  itself at any moment: regressions are allowed for by the thresholds, the pass rate is
  not), `EndedFrozen`, `EveryEvaluationEnds`.  `EndedFrozen` leaves FAILED results out: a
  slow worker whose result the sweep has failed still writes its score over it
  (`evaluations/services.py:431`), although `evaluations/models.py:95` has no transition out
  of FAILED.
* `knowledge` (93 thousand): from the upload to what the model reads.  Each initial state
  explores one of three parts.  Ingestion: one document, two workers, one search, three
  attempts (`ReadyHasChunksOnce`, `HitsExist`, `IngestionEnds`).  Chunking: every document
  of one line of up to nine letters and spaces, or seven with tabs, of one page of up to four
  characters of every kind, and of two pages of up to four and two
  characters with line breaks, with chunks of six characters, an overlap of four and a
  minimum of two: long enough for a window of blanks, a chunk that is too short, a window
  that ends inside a word, and a page boundary inside a window (`ChunksKeepText`,
  `ChunksCiteTheirPages`).  Context: every history of up to four messages of three kinds
  and two timestamps, some without text, with every customer's message as the trigger,
  against limits of three messages and four characters; every ranking of up to three chunks
  against a limit of five characters (`ContextIsNewestHistory`, `ReferencesCiteTheirText`).
  A reference that is cut cites fewer characters but keeps the pages of the whole chunk
  (`agents/rag.py:92`), so it may cite a page nothing is read of.
* `workspace` (1.7 million): the parts of a workspace that people work on.  Their rows
  are disjoint, so each initial state explores one part: customers, conversations,
  tickets, handoffs (two requests at a time), members (three requests: one of any kind,
  one that does not add, one transfer), agent versions, policies with the gate, the
  policy decision on samples (calls, every ordered pair of nine rules and a further rule,
  some of them malformed), and
  tool calls with their threads (two callers of one row for bookings, one beside an
  administrator for notifications).  `StampsAgree`, `InboundReopens`, `OneActiveHandoff`,
  `HandoffFrozen`, `SoleOwner`, `OnlyPublishedGoverns`, `StricterRuleWins`,
  `LargerRefundIsStricter`, `OneEffectPerAction`.  `StricterRuleWins` compares decisions, not
  the roles that may approve.  `OneEffectPerAction` leaves out what a provider did and then
  reported as an outage, unless it recognises a repeated request, and what is done after a
  sweep has given the execution up.

Deadlock checking is off in all of them because a finished system stops: every run,
delivery and event has ended and no request is left.

**Bounds.** `MaxFaults` caps crashes, lost and repeated messages and slow workers
taken for dead; `Requests`, `Producers`, `Calls`, `Editors`, `Gates`, `Callers` and
`Admins` the calls from outside; `MaxRedrives`, `MaxReplays`, `MaxEdits` and `MaxVersion`
what people may repeat; `MaxLine`, `MaxPage`, `MaxLast`,
`MaxHistory` and `MaxResults` the samples;
`MaxModelCalls`, `MaxToolCalls`, `MaxRetries`, `MaxAttempts`, `MaxMessages`,
`MaxCharacters`, `MaxReferenced`, `ChunkSize`, `Overlap`, `MinimumChars`, `RiskBumpAmount`,
`AutoAllowMax` and `ApprovalMax` are settings of the code with small values.  Two of
anything that competes (workers, requests, producers, runs) show every race of a pair;
the guards of the code compare a row with one process at a time, and the theorems below
remove the bounds for the properties they cover.  Some settings are covered by the
theorems alone: runs without a conversation (`RunSafety`), and endpoints that reject
unknown customers, channels other than web chat and events without a thread
(`IngressSafety`).  Symmetry is used only for sets of interchangeable model values and
never in a run that checks liveness.

**Fairness.** Weak fairness of: the next step of each worker (processes run), taking a
published message (the broker hands out what it holds), the sweeps (Celery Beat
schedules them, `config/celery.py`), expiry of approvals and the passing of time.  For
stuck-run recovery fairness is assumed only while no worker has the run.  Strong fairness
where a fault may intervene again and again: the sweep of evaluations finishes some time
although it may die between its two transactions, a published ingestion is taken some
time although the slots are busy, and the steps of an ingestion are taken some time
although its worker may die (the model sets no limit on crashes there, and a system whose
every worker dies ingests nothing).  Nothing is assumed of people, providers or
customers: nobody has to decide an approval, redrive a delivery, retry a document or send
anything.

**Where the code and its documentation differ.** Three runs are expected to fail, each
on one property that quotes a comment or document of the repository; `PROJECT.json`
has the quotations.

| run | what happens |
|---|---|
| `cancel_resume` | a run resumed after an approval is cancelled before the handler is called; nothing looks at the run again, and the approved handler is called |
| `zero_owners` | an administrator's role change or removal has checked its target; ownership is transferred to that member; the write takes it away again and the workspace has no active owner |
| `repeated_booking` | the calendar makes a booking and answers with a server error; the retry, which a comment justifies by a key the calendar does not have, makes it again |

The models also have, without a run of their own, these behaviours of the code:

* Two runs that share an `agent:unknown` row: the continuation of the first takes it through
  the gate, which asks for approval; the run is cancelled, which withdraws the request and
  closes the row; the continuation of the second resets the row, finds its evaluation
  (`_already_policy_evaluated`), passes the gate by and calls the handler although nobody
  approved.  The comment at `tools/execution.py:483` ("has never been through the policy
  gate") and `docs/adr/0007-*.md:104` do not hold there.  This is why
  `HandlerAuthorized` and `DecisionMatchesExecution` promise less of a row once a second run
  has claimed it.
* No rule of the active policy matches: for most defaults the decision's code with its prefix
  `no_matching_rule_fallback:` is longer than its column of 64 characters
  (`policies/evaluator.py:90`, `policies/models.py:248`), so the insert fails and the gate's
  transaction rolls back, where `docs/architecture/policy-approval-engine.md:118` has the
  default applied.
* A delivery taken before its snapshot is committed ends DEAD, although
  `docs/architecture/asynchronous-delivery-and-webhooks.md:17` says that the two are committed
  together.
* A run that waits for its second approval is resumed by the message of its first.
* `cancel_agent_run` withdraws approvals only of a run that is already waiting, so a run
  cancelled between the policy gate's commit and the pause keeps a PENDING approval.
* The worker of a delivery's last attempt dies: attempt IN_PROGRESS and row CLAIMED for
  ever, since the claim refuses a further attempt.  The comment at
  `notifications/services.py:195` calls that branch defensive, because exhaustion is decided
  at completion; a dead worker completes nothing.  `DeliveryProgress` excepts the case.
* A channel event whose worker dies after the claim stays PROCESSING, which no sweep looks
  for, although `docs/reliability/retry-recovery-and-concurrency.md:584` calls recovery closed
  for every domain.  `EventProgress` excepts the case.
* A worker whose claim was taken over still writes its `provider_message_id`.
* Of two first events of a new customer the loser of the customer insert is marked
  FAILED, before the retry around the conversation is reached.
* A conversation closed while a worker processes a message stays closed, because the
  worker judges on the status it loaded (`InboundReopens` allows exactly these messages).
* `add_policy_rule` and `create_tool_binding` check on a copy that the version is a
  draft, so a rule can be added to a version that was published, and has decided calls,
  meanwhile, against `policies/models.py:4`.
* An upload checks on a copy that its source is active, so a document can be added to a
  source deactivated meanwhile.
* A handler's exception that is not a `ToolError` leaves its row RUNNING until the sweep;
  `notification.send` raises one, an `IntegrationError` its handler does not translate.
  In a resume nothing catches it either, and the run waits RUNNING for its sweep as well.
* Saves of whole rows (tickets, customers, policies, agent definitions) undo what was
  written since the row was loaded, and two agents can both take a free ticket.
* A health check or a rotation of credentials that started before a connection was
  disabled enables it again.
* The sweep closes an execution with the code `stuck_worker_recovered`, which does not
  count as an ambiguous outcome, so the same booking can be made again; this is why
  `OneEffectPerAction` claims nothing after a sweep.
* A text with at least half a window of blanks in a row can lose the characters behind
  them, which `ChunksKeepText` allows for.

Definitions called *Mutation* (section 2) are named in `PROJECT.json`, one for each
property of each run.

## 4. Theorems

All for every value of the constants allowed by the named assumptions of the modules
(markers such as `NoRun` are not members of the sets they extend, bounds are natural
numbers, the kinds of rows in `SupportDesk` are disjoint, a policy has finitely many
versions, a dataset finitely many cases, the tools called are integration tools).  Each
safety theorem has the form `Init => IInv`, `IInv /\ [Next]_vars => IInv'`,
`IInv => property`, with one lemma per action or group of like actions.

* `AgentRunsProofs`, the run: `RunSafety` (types and budgets, `ExclusiveOwner`,
  `OneReply`, `NoOrphanHandoff`), `HandoffsAreOwned`, `TerminalRunsAreFrozen`,
  `RunsFollowTheLifecycle`.  The strengthening says what a worker's memory may hold at
  each place (`WorkerShape`: a worker in a tool step has a key, one about to call the
  model has a call left) and that every execution and approval belongs to a run
  (`RowsInv`).  Most actions are instances of two lemmas: a worker that moves without
  touching the run, and a worker that settles it.
* `AgentRunsProofs`, tools and approvals: `DecisionMatches`, `OnlyAuthorized`,
  `WaitingWakeable`, from one invariant `ToolInv` on top of the first.  None of the three
  is inductive: whether a handler may run was decided several steps earlier, and in the
  meantime the row may be closed, withdrawn, recovered or reset.  Of every row, `RowOK` says
  who has used it and `Judged` that what waits or was called has been judged, and how.  Of a
  row only one run has claimed so far (`UnsharedKeys`, by the history `users`), `KeyOK` says
  how policy, approval and status go together and `Passed` what a worker that has come past
  the gate still knows of it; the clause that carries them is that such a row is CANCELLED
  only with a run that has ended and is in nobody's hands, so that nobody resets a row
  whose approval was withdrawn.  A second run does reset it, so from its claim on the theorems
  keep only the clauses for every row; the others are false there (section 3).  `HoldOK`
  adds why a run that pauses can be woken, also when the row it met in its continuation
  belongs to another run.
* `AgentRunsProofs`, the budget: `SlotsArePaidFor`.  `SlotInv` says that a worker about to
  call a handler for the first time holds a slot that no earlier call has used; the rest
  is counting, one call at a time, and `ExclusiveOwner`.  A row two runs have claimed counts
  for neither.
* `DeliveryProofs`, the engine: `DeliverySafety`, `CallsArePaid`, `HistoryIsFrozen`.
  `ClaimInv` ties the token to `attempt_count`, `WorkerInv` says that two workers never
  remember the same attempt of a delivery (the row alone cannot say so, because a worker
  outlives its lease), `CallInv` that calls are made only for attempts that exist.
* `DeliveryProofs`, with snapshots: `SnapshotSafety` and `DeliveredMeansSent`.  The engine's
  invariant carries over, because the producers leave its rows alone or take its own steps;
  needed in addition is that a worker about to report success has made its call (`SendInv`).
* `IngressProofs`: `IngressSafety`, `ProcessedEventsAreReachable`, `EventsAreFrozen`.
  `HolderInv`: a busy worker's event is PROCESSING and nobody else's; `TransactionInv`:
  what an open transaction has resolved is committed or will be committed with it, and no
  two open transactions insert one conversation; `ConversationInv`: a conversation exists
  exactly when it has its one owner.
* `EvaluationsProofs`: `EvaluationTypes`, `FinalizedComplete`, `SnapshotScores`, `EndedStays`,
  `GateSound`.  `RunOK` says that a run's total is the number of its original cases and that
  it never counts more as completed than have ended, so that a run that counts them all can be
  finalized; `CaseOK` what a worker may find of the result it left (its own, or failed by
  the sweep), and that only a scored result has passed.
* `IntegrationProofs`: `OneEffect`.  `OneCaller`: until a sweep, the row is in one caller's
  hands.  `OnceInv`, for writes that the other side does not recognise: one thread at a time,
  and once it has started or its effect is there no other attempt can start, unless the
  thread answers that nothing happened, which an outage does rightly or wrongly (`disowned`).
  `KnownInv` is the same for the other tools, counting everything; `OkInv` follows an answer
  from the thread to the row.
* `DeskProofs`: `StampsAlwaysAgree`, `HandoffsAreUnique`, `HandoffsAreFrozen`.  The rows
  alone are not inductive, because any copy may be written back: `DInv` says that the
  copies in flight are as consistent as rows are (`RequestsInv`), that their rows exist,
  and that a conversation has one active handoff.  `InboundAlwaysReopens` needs in
  addition that a copy nobody has overtaken shows the status as it is (`FreshCopies`).
* `WorkspaceProofs`: `OwnershipIsSole`; `MInv` adds what a request that has passed its
  checks may have decided: a role below OWNER for an addition or a change, and two
  different users for a transfer.  `PublishedVersionsGovern`; `CInv` says that what a
  request or an evaluation in flight holds of a published version stays true, since a
  version's status only goes forward.  `MoreRulesAreStricter` and
  `LargerRefundsAreStricter` are about the decision as a function, for any rules whose
  effects are those of `PolicyEffect` and a marker `NoVersion` that is not a list of rules,
  and for any refund of a known amount by a tool of medium risk or above;
  `StricterRuleAlwaysWins` and `LargerRefundIsNeverEasier` say the same of whatever an
  evaluation is asked.  `JudgementAssumption` states those conditions on the samples.
* `KnowledgeProofs`, ingestion: `ChunksAreWrittenOnce`, `HitsStayValid`.  `KInv` adds that a busy
  worker has a document; both properties need each other, since ranked chunks stay valid
  because a READY document is never written again.
* `KnowledgeProofs`, chunking: `TextIsKept`, `PagesAreCited`, `WindowMovesOn`, from the loop invariant
  `ChunkingInv`.  `JoinInv` is about the joined text: every character that is not blank
  knows its page and place (`FromPages`), they are in source order, none is missing of the
  pages read (`InkJoined`), and the sections start and end with text and cover it
  (`SectionsFit`, `SectionsCover`).  `WindowInv` says that every character before the
  cursor is kept already, in a chunk or for one of the two reasons for which the code gives
  it up.  What needs thought is the step of the window: the next cursor is behind the start
  of the last chunk and never behind its end (`NextCursorFacts`), a window is at least half
  a chunk unless the text ends (`WindowFacts`), and a section that a chunk touches has a
  character in the chunk, because neither of them ends with a blank (`TouchedSection`,
  `CitedPages`).  `WindowMovesOn` is why the loop ends: the distance of the cursor from the
  end of the text shrinks with every turn.
* `KnowledgeProofs`, what the model reads: `NewestHistoryIsKept`, `TextIsCited`, from
  `ContextInv`.  `SelectInv` says of the selection that the rows read are the newest
  (`NewestSeen`), that what is retained is in order, adds up with what remains to the limit
  (`Budget`), is cut only at its old end and only when nothing remains, and misses no row
  read that has text (`TextRetained`).  `ReturnInv` adds why the loop stopped, from which
  follows that whatever is left out had no room, and by counting that `truncated` is exact.
  `KnowledgeInv` is the same for the references: quoted and left add up to the limit, and
  only the last may be cut.

What a sum, an order or a count of a sequence is cannot be had by an induction theorem of
the library, which the provers cannot instantiate; those lemmas (`SumTable`, `SumFacts`,
`SumShift`, `SumGrows`, `MaxFacts`) take the least counterexample instead (`LeastNumber`,
from the well-foundedness of the natural numbers).

Each invariant was checked by TLC on the instances of section 3 before or beside its
proof.

Only model-checked: the liveness properties (`EveryRunEnds`, `DeliveryProgress`,
`EventProgress`, `EveryEvaluationEnds`, `IngestionEnds`), since fairness is
out of the prover's reach.  Every invariant and every action property of a run that passes
is stated by a theorem.

## 5. What is left out

* Data: bodies, prompts, arguments, digests and addresses are model values; key
  derivation keeps which calls share a key.
* Step, token, cost and wall-time budgets of the graph are one nondeterministic
  refusal; the budgets of model and tool calls are exact.  The step log of a run.
* Audit rows and webhook events that are written in the transaction of the operation
  they report.  Endpoint administration and fan-out of webhooks.
* Who may decide an approval, the limit on rules per version, the unique names of agents
  and policies, renaming a workspace.
* Unicode composition (NFC); extraction of text from files, embedding and the ranking of vectors.
* Signatures, the bootstrap and expiry of chat sessions, encryption and configuration of
  connections, the HTTP of providers, accounts and tokens, metrics and tracing, the
  frontend.
* Database deadlocks: `retry_document` and the completion of an ingestion take two locks
  in opposite orders; PostgreSQL ends one of the two, which is an aborted transaction.

## 6. What could come next

1. Webhook fan-out composed with `Delivery`, as `SnapshotDelivery` composes
   notifications, with endpoints that are disabled while deliveries are under way.
2. Chat sessions: bootstrap, expiry, and the sender an expired session leaves behind.
