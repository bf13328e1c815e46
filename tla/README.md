# Formal verification of ippon

ippon scans Git repositories: a FastAPI control plane accepts a scan, a Celery
worker drives a runner (Docker, Kubernetes or in-process), a reporter container
ingests SBOM and findings into S3 and ClickHouse, and an HTTP callback records
the verdict in Postgres. This directory holds TLA+ modules translated from that
code, TLC instances that check them, and TLAPS proofs.

Paths below are relative to `src/ippon/` unless they start at the repository root.

## 1. Inventory

| component | code | state it keeps | operations | what makes it correct |
|---|---|---|---|---|
| scan creation | `api/routes/scans.py`, `api/deps.py`, `db.py` | `scan_jobs` row | create (flush, publish, commit), get, list, findings, secrets | a created scan is eventually picked up; a published scan exists |
| broker | `worker/celery_app.py` | Valkey list and unacked index | hand out, acknowledge late, restore after the visibility timeout | a message disappears only when some run of the task ended |
| worker task | `worker/tasks/scan.py`, `scanner/pipeline.py` | the row, through two sessions | mark running, submit, backstop | a run that ends leaves a verdict or someone who will report one |
| Docker runner | `scanner/runner/docker.py` | containers, volumes | clone, syft, grype, betterleaks, reporter; time out; clean up | the reporter runs last, whatever failed, on the artifacts of its own run |
| Kubernetes runner | `scanner/runner/k8s.py`, `manifests/jobs/scan-job.yaml.j2` | Job, Secret, pods | create Job, create Secret, undo; pod retry, deadline, TTL | one Job per scan; a half-made Job does not report |
| inline runner | `scanner/runner/inline.py` | none | run grype in process | - |
| reporter | `reporter/__main__.py`, `reporter/ingest.py`, `reporter/callback.py` | S3 object, ClickHouse rows | upload, insert, POST the verdict | success is reported only for a complete ingest |
| callback handler | `api/routes/internal.py` | the row | idempotency check, publish follow-ups, commit | one verdict per scan; follow-ups only for recorded successes |
| target resolution | `api/_bootstrap.py` | connections, repositories | explicit connection, host matching, get-or-create | one row per target, and one that is still there |
| members and roles | `api/routes/members.py`, `orgs.py`, `api/orgs_service.py`, `api/authz.py` | `org_members` | add, change role, remove, authorise | an organisation always has an owner |
| tokens | `api/routes/tokens.py`, `security.py` | `api_tokens` | mint, revoke, authenticate | no token above its minter's role |
| source connections | `api/routes/sources.py` | connections and encrypted blobs | create, rotate, delete | names are unique; none deleted while in use |
| webhooks | `api/routes/webhooks/` | `webhook_deliveries` | verify, look up, insert, answer, commit | each delivery is stored once, and what was acknowledged stays |
| ClickHouse schema | `migrations/clickhouse/apply.py` (repository root) | `schema_versions`, the schema | apply pending files | a recorded version has its whole file and every earlier one behind it |
| finding queries | `api/routes/scans.py`, `clickhouse.py` | none | pages of findings and secrets | a client that reads all pages sees every finding |
| stubs, CLI, probes | `api/routes/repos.py`, `worker/tasks/enrich.py`, `notify.py`, `scripts/`, `health.py` | none | read-only or constant | - |

How they interact: the API publishes to Valkey and commits to Postgres, two
systems without a common transaction. The worker reads and writes the same row
in sessions of its own. A reporter shares nothing with the worker but the scan
id and a callback token. The handler and the worker's backstop both write the
verdict. `enrich_findings` and `send_scan_completed` are published by the
handler before its session commits.

What is hard here: two or three parties write one row without a lock or a
version (`db.py` opens READ COMMITTED sessions; the ORM writes the columns that
differ from what was loaded); a late-acknowledged message returns after the
default visibility timeout of one hour while a Docker chain may take five steps
of 900 s, on volumes named by the scan and containers named by eight of its
digits; a killed pool process is acknowledged by its parent; a Kubernetes pod is
retried once (`backoffLimit: 1`), and replaced while it is still being deleted;
an answer of its API server may be lost; the reporter
stops waiting after 10 s while the handler goes on; requests look a row up and
insert it later, between a constraint that decides and a check that does not;
ClickHouse has no transactions, for its schema as for its rows; every process
may die between any two steps. `PROJECT.json` lists these hazards at their lines.

## 2. Modules

| module | role |
|---|---|
| `ScanRow` | the columns of `scan_jobs` that are decided on, what each writer assigns, and `Flush`, the UPDATE of a session |
| `ScanOrchestration` | the system: API, broker, worker, runner contract, reporter, handler; all properties |
| `ScanLifecycle` | the abstract promise about a scan's status |
| `MCScanOrchestration` | constants for TLC |
| `ScanOrchestrationProofs` | type invariant; success is backed by the stores and announced |
| `ScanVerdictProofs` | who writes verdicts, who takes them back, who is left behind |
| `ScanPodProofs` | which pods may overlap; `ScanLifecycle` implemented |
| `OrgMembers` | organisations, memberships and API tokens under concurrent requests |
| `OrgRegistry` | the abstract promise about them: each route takes effect at one instant |
| `MCOrgMembers` | the instances of `OrgMembers` and their symmetry |
| `OrgMembersProofs` | the type invariant of `OrgMembers`, the lineage of tokens, no rows without an org |
| `OrgWriterProofs` | who loses the last owner, with whose authority, where owner rights come from, and `OrgRegistry` implemented |
| `SourceConnections` | connections, repositories and deliveries of one org as rows, flushed and committed; the routes that create, delete and rekey a connection |
| `ScanTargets` | `resolve_scan_target`: a clone URL becomes a connection and a repository |
| `WebhookIntake` | the receivers: verify, look up, insert, answer, commit |
| `Intake` | the three together, its properties; `MCIntake` its instances |
| `IntakeStore` | the abstract promise about the intake: committed rows that change with one request each |
| `IntakeProofs` | no dangling references, unique names, deliveries stored once and kept, no circular wait, no standstill, and `IntakeStore` implemented |
| `DockerRunner` | `DockerJobRunner.submit` against a daemon; `MCDockerRunner` its instance |
| `SubmitContract` | what `ScanOrchestration` assumes of it |
| `DockerRunnerProofs` | one ingest per scan, own artifacts, nothing left running, and the contract kept |
| `ClickHouseMigrations` | appliers that bring the ClickHouse schema to head |
| `Ingest` | the reporter's inserts into that schema and a client that pages through the findings; `MCIngest` its instance |
| `IngestContract` | what `ScanOrchestration` assumes of it |
| `IngestProofs` | the schema, the order of the inserts, what paging may miss, and the contract kept |

There are five systems: the scan, the org with its members, the intake, the
Docker daemon and ClickHouse. They meet where one is a step of another:
`CommitTarget` of `ScanTargets` is `PublishRunScan` and `CommitScan` of
`ScanOrchestration`; submit, one step there, is `DockerRunner`, which implements
`SubmitContract`; `UploadSbom`, `InsertRows` and `IngestFails` there are `Ingest`,
which implements `IngestContract`. The contract lets an ingest fail behind its last
insert, which `ScanOrchestration` does not: its `ingested` may then lack a scan
whose rows are all there, and its properties only ever ask that a scan be in it.
The state the systems share is a scan's id, so each is checked for itself, at the
depth its interleavings need.

### How state and actions correspond to the code

* `row[s]` is the committed row. A session is a load into a snapshot (`seen` for
  the worker, `cbSeen` for the handler) and a later commit
  `Flush(row, snapshot, assigned)`, so a lost update happens exactly where the
  code allows it. An absent snapshot (`Absent`) stands for a closed session.
* `api[s]` follows `create_scan`: `PublishRunScan` (INSERT flushed, message
  sent), then `CommitScan` (`get_db` commits after the handler returned; with
  the pinned FastAPI 0.136.3 even after the response was sent). `CreateFails`
  rolls back the row but not the message.
* `queue`, `unacked`, `delivered` are the broker. `Deliver` starts a numbered
  run of `run_scan`, `Redeliver` is the visibility timeout. A restored message
  keeps its delivery tag, so the end of any run removes the unacked entry.
* `exec[s][d]` is the program counter of the d-th run of `run_scan`: load
  (`start`), first commit (`loaded`), inside submit (`submit`, `secret`,
  `submitted`), the except clause (`raised`, `backstop`), and its ends:
  `not_found` (the row was not there), `returned`, `recorded` (the backstop
  recorded a failure or found a verdict), `abandoned` (the backstop raised),
  `killed` and `lost`. `ChildKilled` is one process of Celery's prefork pool that
  is killed: its parent sees `WorkerLostError` and, since `celery_app.py:49` sets
  `task_acks_late` without `task_reject_on_worker_lost`, acknowledges the message.
  `WorkerDies` is the loss of the whole worker; nobody acknowledges.
  `LoadScan` has no case for a row without a repository (`scan.py:69`): the
  foreign key cascades (`models/scan_job.py:36`), so the row goes as well.
* `job`, `secret` are the Kubernetes objects; the Job is named after the scan,
  so `JobNameTaken` refuses a second one until `JobExpires` frees the name, an hour
  after the Job is over (`JobFinished` takes it that no API call of submit is that
  late). `CreateJobUnanswered` and `SecretUnanswered` are calls that take effect
  and whose answer is lost: submit raises, and only after an `ApiException` of the
  second one is the Job deleted (`DeleteJob`), if that call succeeds.
* `evicted[s]` are pods on their way out: evicted, preempted, on a lost node
  (`EvictPod`), or deleted in the background with their Job. They may still run
  for a while. The manifest sets no `podReplacementPolicy`, and the default,
  `TerminatingOrFailed`, does not wait for them, so `MayStart` lets the next pod
  start behind a failed pod or an evicted one.
* `rep[s][<<d, p>>]` is the p-th reporter container that delivery d leads to
  (always 1 on Docker, one per pod on Kubernetes): `upload`, `insert`, `post`,
  `waiting`, exit. `outcome` is the status in its payload. `blobs` and
  `ingested` say for which scans the S3 object and a complete set of ClickHouse
  rows exist.
* `cb[s][r]` is the request of that reporter in `scan_callback`. `answered`
  lies between the 200 and the commit.
* `Faults` names the parties that may fail in an instance. `"runner"` makes
  submit raise, which on Docker includes a deadline that passes while the
  reporter still runs, and loses answers of the Kubernetes API; `"cluster"` evicts
  pods; `"worker"` kills workers and pool processes; `"reporter"` covers a killed
  container, a POST that cannot connect and the 10 s timeout.

Abstractions of the scan modules: a runner appears by its contract (when submit returns or raises,
when a reporter may start), not step by step; the two insert-only stores are
sets of scans; `error_message` is its author, `sbom_object_key` is set or not;
counts, versions and times are left out because nothing in the control plane
reads them. The 400, 401 and 404 exits of the callback are not reachable from
a request a reporter sends. `pending` and `cancelled` are values of the enum
that no code path assigns: `pending` is left out of `Row`, `cancelled` stays
because the idempotency check names it.

### Connections, targets and deliveries

* `conn`, `repo`, `stored`, `sender` are committed rows of one org (nothing here
  compares orgs). `req[r]` is a transaction; `own` says which rows it has
  flushed. Postgres lets a second INSERT of the same unique key wait for a
  flushed one (`NameFlushed`, `RepoFlushed`, `KeyFlushed`), and so a DELETE of a
  row that a flushed row refers to (`LockedByInsert`): these operators are
  guards, so a waiting request is one whose action is disabled. What decides
  after the wait is the constraint, hence `RefuseTarget`, `RefuseDelivery` and
  `RefuseAdmin` (a 500 and a rollback).
* A scan goes `ResolveExplicit` or `ResolveByHost` (one SELECT of the org's
  connections), or `fallback` and `FindDefault`, `InsertDefault`; then
  `FindRepository`, `InsertRepository`, `CommitTarget`. `Target(r)` is the
  repository the scan will clone: its own, or the row it found by full name.
* `create_source` has one visible step: its SELECT only chooses the error, and it
  reads nothing after its flush. `delete_source` has two, the count and the
  DELETE, because a scan may register a repository in between.
* `FindDelivery` answers a duplicate; `InsertDelivery` flushes and sends the 202;
  only then does `get_db` commit (`CommitDelivery`) or fail
  (`CommitDeliveryFails`). `acked` and `unsaved` remember the answers, `accepts`
  counts the rows committed for a key.
* Signatures: nobody passes `Verify` without the current secret, so it is the
  test that the connection is there, of that provider, and has one.

### The Docker runner

* `run[r]` is one call of submit: `pc` walks through images, the two volumes, the
  steps of `Chain`, and the finally block (`drop_workspace`, `drop_artifacts`).
  `failed` is `failed_step`, which sends the run straight to the reporter;
  `raising` an exception on its way through finally.
* `box` are containers by name, step and first eight digits of the scan id, as
  in `_run_step`. `CreateBox` is `create_or_replace`: whatever had the name is
  gone. `Mine` is how a run finds out. Nothing removes a stopped container.
* `vols`, `work`, `art` are the volumes and what is in them: how far a workspace
  is, and which run wrote each artifact. The daemon refuses to remove a volume
  that a container refers to (`InUse`), and makes a missing one when a container
  names it. A clone fails unless its directory is empty.
* An exception of `wait` or `log` on a container that has stopped, or one other
  than `DockerError` in the finally block, has no action of its own: the states it
  leads to are those of `WaitTimesOut` and `WorkerDies`.
* `Draws` chooses which scans the runs are for and which digits the scans have,
  so that one instance covers redelivery, unrelated scans and a collision.

### ClickHouse

* `effect` is the set of statements that have taken effect; the shipped files are
  data (`Migrations`), each statement reduced to the table or column it adds. All
  are IF NOT EXISTS, so repeating one changes nothing. `applier[a]` is
  `apply.py`: what is pending is read once, files go in order of version,
  `RecordVersion` comes after the last statement. A killed applier may start again.
* `attempt[a]` is one call of `ingest`: upload, the five inserts in their order
  (three are skipped when there is nothing to insert), done or failed. `rows`
  says which attempt has inserted into which table; an insert needs its table and
  columns. `blob` is who wrote the object last: its key is made of the commit.
* `walk` is a client that calls `list_findings` with the next offset. `Page` is
  what LIMIT and OFFSET may return under an ORDER BY that leaves ties. The walk
  starts over when an ingest adds findings, so the property is about the paging
  alone.

### Organisations, members and tokens

* A request is `req[r]`, one transaction of `get_db` (`api/deps.py`). Its phases
  are the points between which other requests can commit: `auth` (a token was
  read), `ctx` (`require_org_member` has made the `OrgContext`; `ctx` is its
  role, which is not read again), `loaded` and `checked` (`update_member` or
  `remove_member` has loaded the target, has passed the owner count), `revoking`
  and `deleting` (the statement is sent and may wait for a row).
* `orgs`, `member` and `token` are the committed rows. A write takes effect when
  the request commits: sessions are READ COMMITTED, no handler selects FOR
  UPDATE, and no handler reads again what it wrote. A later SELECT of a handler
  sees what was committed meanwhile, hence a step for each read that a later
  write rests on. Where a read only chooses between two errors, or the unique
  constraint repeats it, it is part of the commit (`AddMember`, `CreateOrg`).
  The session keeps no cached target: the membership that authorised the caller
  is only weakly referenced by the identity map once `require_org_member` has
  returned, so `LoadMember` reads the current row.
* `lost` records that the org row or the target row was deleted since it was
  read. The INSERT then breaks the foreign key, the UPDATE raises
  `StaleDataError`, the DELETE warns; in all three nothing is written.
* `Holds`, `WaitsFor`: the SELECT that follows `row.last_used_at = ...`
  (`api/authz.py:55`) flushes it, so a request holds its token's row until it
  ends. Another request of the token, its revocation and the deletion of its org
  wait. `AbortDeadlocked` is Postgres breaking a cycle of such waits. Locks of
  org and member rows are taken by the last statement of a request and are part
  of its commit; a cycle through them ends in a rollback too, which is `Fail`.
* `Bootstrap` is `scripts/bootstrap.py` and `ensure_dev_identity`, which both give
  a user without a row an owner row, in an org they create if need be.
* `peak` and `overtaken` are history variables, read by properties only: the
  highest rank a user has held in the org, and the requests in whose time
  another one wrote a membership of their org.
* `DirectUsers` are users who authenticate as themselves. Today that is the dev
  identity (`ippon_auth_mode` "oidc" has no code yet), and every other request
  carries a token.

Left out: org names and token names, `expires_at` (a token that expires acts
like one that is revoked), the `users` table (rows are found or created, never
deleted), hashing. `Fail` stands for every rollback: lost connections, database
errors, a process that dies.

## 3. What is checked

All runs use `Spec`, except `settles`, `tokens`, `intake` and `docker`, which use the
`FairSpec` of their modules. Deadlock checking is on in the runs of `OrgMembers`
and `Intake`, and off where the system really may stop: once every scan has a
verdict or was stranded and no message is left; once every submit is over and
every container has stopped; once the schema is at head, the ingests are done
and the client has read the last page.

| run | instance | shows |
|---|---|---|
| `orchestration` | 1 scan, three backends, 2 deliveries or 2 pods, a pod evicted, every fault | types, all safety and action properties of a scan, and its lifecycle |
| `settles` | 1 scan, docker and k8s, 2 deliveries, processes die | every committed scan gets a verdict or is stranded in a named way, with nobody left who works on it |
| `pickup_before_commit` | 1 scan, no faults at all | refutes `PickupFindsRow` |
| `verdict_overwritten` | 1 scan, docker, submit may raise | refutes `VerdictIsFinal` |
| `callback_lost` | 1 scan, docker, the reporter may die | refutes `ApiGetsCallback` |
| `members` | 1 org, 2 direct users, 1 token, 2 requests, roles viewer, admin, owner | how owners are lost, who changes memberships, where rights come from, and that routes are atomic but for what they concede |
| `tokens` | 2 orgs, 1 user, 2 tokens, 2 requests, roles viewer, admin | types, rows of deleted orgs, and every wait ends |
| `last_owner` | 1 org, 2 users of whom one is direct, 1 token, 2 requests | refutes `LiveOrgHasOwner` |
| `intake` | 2 connections, 1 provider with its cloud and a self-hosted host, a reserved and a free name, 1 full name, 1 delivery id, 2 requests | references, names, deliveries, atomic transactions, and every wait ends |
| `wrong_target` | 2 providers, 3 hosts, 3 names, otherwise the same | refutes `ResolvedConnectionIsUsed` |
| `docker` | 2 runs: of one scan, of two scans, of two scans with the same eight digits | whose artifacts are ingested, what is left running, the contract |
| `results` | 2 appliers, 2 ingests, 3 findings of which two tie, pages of 3 | the schema, the order of inserts, the paging, the contract |

The properties:

* `SucceededMeansStored`, `SucceededMeansAnnounced`: success is never recorded
  ahead of the SBOM object, the ClickHouse rows or the follow-up messages.
* `UnfinishedIsAccountedFor`: an unfinished committed scan is in flight, that is,
  it has a message, a run, a reporter or a pod that may become one, or a callback
  in progress; or it was left behind in one of five ways. These five are real gaps
  of the code (there is no reaper): a message consumed before the commit, a failed
  backstop, a killed pool process whose parent acknowledged, a submit that returned
  without a recorded callback, and a redelivered run that died after the other run
  had acknowledged the message they share.
* `OnlyRedeliveryRevives`, `LateWritersAreIgnored`: the exact conditions under
  which a verdict can be taken back or replaced.
* `OnlyEvictedPodsOverlap`: two reporters of a scan work at a time on Kubernetes
  only while the pod of one is being deleted. What keeps all others apart is the
  Job's name, fixed by the scan: without it a redelivered submit, or one that
  raised and left its Job, would add a second reporter.
* `EveryScanSettles`: nobody waits for ever. `Stranded` asks that nothing be in
  flight: a Kubernetes scan whose submit has returned is not stranded as long as a
  pod may run its reporter. `Exhausted` is the model's bound and no state of the
  code: the worker of the last delivery is dead, and the broker would deliver again.
* `ImplementsLifecycle`: `ScanOrchestration` implements `ScanLifecycle` under
  the refinement mapping `status <- row[s].status`; `Revivable` and `Contested`
  name what has to be conceded when deliveries or writers can overlap. The run
  `orchestration` concedes both (its message is delivered twice) and shows that
  nothing else happens to a status; the theorem covers the case that concedes
  nothing as well: one delivery, one pod, and on Docker and Kubernetes a runner
  that does not fail.
* `LastOwnerLostInARace`: a live org loses its last owner only through a request
  that another membership write overtook. So the check of `members.py` is right
  for one request at a time, and the gap of `last_owner` is exactly its race.
* `WritersAreAuthorised`: whoever changes a membership has, at the commit, the
  rank for it, or was overtaken between its reads and its commit.
* `OwnerlessForGood`: an org in which no member, live token or running request
  is an owner stays so, whatever requests are sent; only the bootstrap helps.
  This is what makes the race of `last_owner` permanent.
* `ImplementsRegistry`: `OrgMembers`, whose requests read, wait and commit in
  separate steps, implements `OrgRegistry`, in which a request takes effect at one
  instant and every check is made against the rows of that instant. The mapping
  keeps the caller of each request (`who`) and the orgs in which it was overtaken
  (`stale`). Two things are conceded, and the code does no worse: a token may be
  revoked between its check and the commit of the request that presented it, and an
  overtaken request of a user may act on a role, of its caller or its target, or on
  a number of owners, that is no longer so. A token's own role is never out of date.
* `TokensWithinLineage`: no chain of tokens minted with tokens climbs above what
  its user has been. A token does outlive the role of its user: that is the
  design (`models/api_token.py:1`), so the bound is the user's past.
* `NoOrphanRows`: foreign keys and cascades hold against inserts that were
  authorised before the org was deleted.
* `EveryRequestEnds`: requests that wait for token rows go on; in `intake`, those
  that wait for a row somebody else has flushed.
* `ReferencesAreLive`, `ScanTargetExists`: whatever comes between a count and a
  DELETE, or between a look-up and an INSERT, no repository or delivery refers to
  a connection that is gone, and a scan about to be committed has both.
* `NamesAreUnique`: the two ways to insert a connection agree on its name.
* `AcceptedOnce`, `AcknowledgedIsStored`: a delivery is stored at most once, and
  an acknowledged one for good, unless the commit behind its 202 failed. That
  exception is real: the answer leaves before the commit.
* `ImplementsStore`: a scan request flushes a connection, then a repository, and
  commits both later; to everybody else it is one step of `IntakeStore`, in which ids
  and names are free, a repository is never replaced and its connection is there. The
  mapping forgets the requests and keeps the committed rows.
* `WaitsAreShort`, `OnlyWaitersStop`, `SomebodyGoesOn`: requests never wait in a
  circle; nothing but such a wait holds a request up (`CanProceed` spells out the
  guards of `Proceed`, and implies that it is enabled); so whoever is held up is at
  most two waits away from a request that has a step. `EveryRequestEnds` rests on
  these, and would say less without them: its fairness would hide a wait that ends
  only because somebody else gave up.
* `OneIngestPerScan`: on Docker a redelivered scan is never ingested twice. What
  keeps it so is an accident: the stopped containers of the first run pin its
  volumes, so the second clone meets a directory that is not empty.
* `ReporterReadsOwnArtifacts`: while a reporter ingests, every artifact is its own
  run's. Both exclude scans with the same eight digits, whose containers do
  replace each other.
* `ReturnedLeavesNothingRunning`, `EverySubmitEnds`, `ImplementsContract`: submit
  ends whatever the containers do, returns only when its reporter has stopped,
  and starts it last, as `ScanOrchestration` assumes.
* `VersionMeansApplied`, `NoStatementFails`: appliers that overlap, die and start
  again never record a version ahead of its statements nor run one too early.
* `MetricsMeanComplete`: a `scan_metrics` row, the last insert, implies every
  other row of that ingest and a schema at head.
* `ImplementsContract` (of `Ingest`): to the scan model an ingest is an upload, then
  an insert of everything, then success, although it is six calls that may each
  fail, beside those of another ingest. `Complete` is the mapping for the insert.
* `OnlyTiesAreMissed`: what paging may get wrong, exactly: a finding is missed
  only if another one of its severity and CVE came twice.

Bounds. One scan is enough for the scan runs: no action reads another scan's
state (Docker names and object keys, which scans share, are in `DockerRunner` and
`Ingest`). `OneRetryKind` bounds `orchestration`: in one behaviour the message is
delivered again or a pod is retried, not both; and at most one pod is evicted, in a
behaviour in which no callback fails and no run of the task is lost. The proofs have
no such bound. Two deliveries let two runs
overlap at every step; `Redeliver` stops at `MaxDeliveries`, and the message
then stays unacknowledged, which counts as in flight. Two pods is the code's
own number (`backoffLimit: 1`). The proofs cover every other value.

For organisations two requests are what a race of a read with a write needs, and
two users what losing the last owner needs; a third request only adds another
overtaker, and the proofs cover it. `members` has one org, since only the token
check compares orgs; `tokens` has two of them and two tokens, so that tokens
revoke each other and an org is deleted under a token of another one. `member`
behaves as `viewer` does in every guard (only `admin` and `owner` are asked for)
and is left out of `BodyRoles`. `members` uses symmetry of users and of
requests: every user is direct there, and its properties are safety properties.

In `intake` two requests are a look-up and what comes between it and the INSERT;
two connections let one be deleted and another found or made; one name is
reserved, so an administrator can take the name of the fallback. One full name
and one delivery id are what races are about. `docker` has two runs because every
hazard of the daemon is one run meeting what another has left (the proofs cover
any number, and scans without secret scanning); `results` two
appliers and two ingests for the same reason, three findings and pages of three so
that a tie of the six rows straddles a page, and symmetry of appliers and of ingests (no
liveness is checked there). `Nat` in `Walk` and in `accepts` needs no bound: both are
limited by the findings and by the two connections.

Fairness. `Fairness` of the scan modules gives each party weak fairness as a whole, never a single
action: the scheduler runs every process, each HTTP call and container has a
deadline, the broker restores a message after its timeout. No party is assumed
to succeed: failures are further actions of the same party, so they are always
possible. Nothing is assumed about `ClusterStep` (`JobExpires`, `EvictPod`).
`Fairness` of `OrgMembers` is strong for `Proceed`, since a request may find a row
lock taken again and again: Postgres grants a lock in the order of its waiters,
so one that waits is not overtaken for ever. It is weak for `AbortDeadlocked`
(Postgres looks for deadlocks after a timeout). Nothing is assumed about `Fail`,
about new requests or about the bootstrap.
`FairSpec` of `Intake` is strong for `Proceed` for the same reason. That of
`DockerRunner` is weak for the steps of submit, which the worker runs and whose
waits have deadlines; nothing is assumed about containers, which may run for ever.

Each property of a passing run has a mutant in `PROJECT.json`, a plausible bug
(acknowledge on receipt, no idempotency check, a generated Job name, a backstop
that only looks at queued scans, ...) that makes TLC refute it.

## 4. What disagrees with the code's own words

* `models/scan_job.py:3` says the row is created the moment a scan is enqueued;
  the message is sent first (`pickup_before_commit`).
* `api/routes/internal.py:58` says that after a terminal state re-deliveries are
  ignored; the check and the write are two steps, as are those of the backstop
  (`verdict_overwritten`).
* `scanner/runner/docker.py:12` says the API always gets a callback; the exit
  code of the reporter itself is dropped (`callback_lost`).
* `api/routes/members.py:14` says that updating and removing refuse the last
  owner; owners are counted before the write, without a lock (`last_owner`): two
  requests each remove one of two owners, both count two, and both commit.
* `api/_bootstrap.py:6` and `:10` say that the given or matching connection is
  used; a repository is then looked up by full name alone (line 138), so a scan of
  `a/b` on one host runs on the `a/b` another host has registered (`wrong_target`).

Noticed while modelling, and not repeated by a run:

* `scanner/runner/docker.py:19` says the volumes of a scan are removed in the
  finally block. The stopped containers, kept on purpose, still refer to them, so
  the daemon refuses and the refusal is logged (line 332): they stay until somebody
  removes the containers. In `DockerRunner` a volume that a container has mounted
  goes only if a scan with the same eight digits replaces the containers. It also
  means that a redelivered Docker scan fails in its clone and reports a failure.
* `0001_initial.sql:13` and `:76` say one row per scan; a second ingest of the
  scan (a retried pod) appends another, and `list_findings` shows both.
* The object key is made of the commit (`reporter/ingest.py:51`): a later scan of
  the commit replaces the SBOM the earlier row's digest was taken of.
* A connection that a user has named `default-github` is not an anonymous one, but
  host matching ignores it and the fallback returns it, whatever its host.
* Deleting an org cascades to its connections, which its repositories RESTRICT
  (`api/routes/orgs.py:82`).

## 5. What is proved

By TLAPS, for every set of scans, every subset of backends and faults, and any
number of deliveries and pods (at least one of each, the named assumptions of
`ScanOrchestration`); for every set of orgs, users, tokens, requests and roles
in bodies (assumed are finitely many users, tokens that are
not users, and a `None` that is neither); for every set of connections, providers,
hosts, names, delivery ids and requests of `Intake` (assumed: the naming functions
map into those sets, and `None` is none of them); for every set of runs and scans
on one Docker daemon, every way the scans' ids may start alike, with and without
secret scanning (assumed: `None` is neither a run nor a container); and for any
number of appliers and every finite set of ingests and findings, every sort key
and page size:

| theorem | statement |
|---|---|
| `TypeCorrect` | `Spec => []TypeOK` |
| `SuccessIsBacked`, `SuccessIsAnnounced` | `Spec => []SucceededMeansStored`, `Spec => []SucceededMeansAnnounced` |
| `UnfinishedAccounted` | `Spec => []UnfinishedIsAccountedFor` |
| `RevivalNeedsRedelivery` | `Spec => OnlyRedeliveryRevives` |
| `LateWritersIgnored` | `Spec => LateWritersAreIgnored` |
| `PodsExclude` | `Spec => []OnlyEvictedPodsOverlap` |
| `TypeCorrect` (of `OrgMembersProofs`) | `Spec => []TypeOK` |
| `TokensKeepLineage` | `Spec => []TokensWithinLineage` |
| `NothingOutlivesItsOrg` | `Spec => []NoOrphanRows` |
| `LastOwnerNeedsRace` | `Spec => LastOwnerLostInARace` |
| `WritersKeepAuthority` | `Spec => WritersAreAuthorised` |
| `OwnerRightsNeedOwners` | `Spec => OwnerlessForGood` |
| `RoutesAreAtomic` | `Spec => ImplementsRegistry` (`OrgRegistry`) |
| `ScanImplementsLifecycle` | `Spec => ImplementsLifecycle` |
| `IntakeTypeCorrect` | `Spec => []TypeOK` (of `Intake`) |
| `NoDanglingReferences`, `TargetsExist`, `NamesStayUnique` | `Spec => []ReferencesAreLive`, `[]ScanTargetExists`, `[]NamesAreUnique` |
| `DeliveriesStoredOnce`, `AcknowledgementsKept` | `Spec => []AcceptedOnce`, `[]AcknowledgedIsStored` |
| `NoCircularWait`, `NobodyWaitsForNothing` | `Spec => []WaitsAreShort`, `[]SomebodyGoesOn` |
| `TransactionsAreAtomic` | `Spec => ImplementsStore` (`IntakeStore`) |
| `IngestTypeCorrect` | `Spec => []IngestTypeOK` |
| `RecordedIsApplied`, `StatementsAreAccepted` | `Spec => []VersionMeansApplied`, `[]NoStatementFails` (of `Ingest`) |
| `MetricsAreLast` | `Spec => []MetricsMeanComplete` |
| `OnlyTiesMissed` | `Spec => []OnlyTiesAreMissed` |
| `IngestKeepsContract` | `Spec => ImplementsContract` (`IngestContract`) |
| `DockerTypeCorrect` | `Spec => []TypeOK` (of `DockerRunner`) |
| `DockerIngestsOnce`, `OwnArtifacts` | `Spec => []OneIngestPerScan`, `[]ReporterReadsOwnArtifacts` |
| `ReturnedIsQuiet` | `Spec => []ReturnedLeavesNothingRunning` |
| `RunnerKeepsContract` | `Spec => ImplementsContract` (`SubmitContract`, for each run) |

The inductive invariants and why they are needed:

* `TypeInv` adds `BrokerInv`: types alone do not say that the next delivery
  number is in range.
* `StoredInv` adds `ReportInv`: a success in a row comes from a payload, which
  comes from an ingest, so each stage must carry the evidence of the one before.
* `VerdictInv` has five parts. `RowInv` and `OrderInv` say who can have seen a
  row and in which order the parties come to exist; `SnapshotInv` that a writer
  about to commit a verdict had read an unfinished row; `FirstRunInv` that
  nothing settles a scan before its first delivery; `AccountInv` that a waiting
  scan has a delivery nobody answered for. `UnfinishedIsAccountedFor` is not
  inductive: a run may return after its callback, and then only the run that
  revived the row accounts for it. The proof looks at a step from one row,
  delivery, reporter and request (the views); every step satisfies the views,
  and the invariants follow from the views alone.
* `PodInv` makes the Job a lock: the delivery between its two Kubernetes calls, or
  behind them, owns the Job, a working pod that is not being deleted belongs to it,
  and a pod has begun only behind pods that have failed or are being deleted.
  Deleting a Job puts its live pods into `evicted`, so a new Job of the same name
  meets none that counts.
* `SoloInv` is for the instances in which `ScanLifecycle` concedes nothing (`Solo`):
  one delivery leads to one reporter and one request, and the except clause is
  reached only where no reporter was or will be started, so a verdict has one
  author. A pod that was evicted before its reporter began may still begin, hence
  `Armed`. Where deliveries, pods, a deadline or a lost answer overlap, what the
  steps may do to a status follows from the views of `VerdictInv`.
* `IntakeInv`: `Sound` says what a request in progress may rely on (a flushed row
  is in nobody else's view, what it refers to cannot go away), `Apart` that two
  requests never flush the same key. The properties alone are not inductive: that
  a committed reference is live depends on the one that is only flushed.
* `NoCircularWait` follows from `IntakeInv`: whoever has flushed a repository or a
  delivery only has to commit and waits for nobody; whoever has flushed a connection
  waits at most for the owner of a repository; a deletion owns nothing, so nobody
  waits for it. A chain of waits therefore has at most two links. Where a guard is in
  the way there is somebody who holds the row, and who holds a row is not idle
  (`HeldUpWaits`, `WaitedForIsBusy`), which gives `NobodyWaitsForNothing`.
* `TransactionsAreAtomic` is `Sound` at the commit: the flushed keys are still free,
  what the flushed rows refer to is still there, and every other step leaves the
  committed rows alone.
* `SchemaInv` says that an applier at statement i of a file has the statements
  before it, and the earlier files, behind it, and that what is not pending was
  recorded. `IngestInv` says that an ingest at insert i has filled the tables
  before it, and met the columns of `scan_metrics` when it filled that one; those
  are added by the last statement, so the schema was at head.
* `IngestKeepsContract` needs that the metrics are the last insert and never skipped:
  so an ingest becomes `Complete` in that step and no other (`CompleteIsMetered`),
  and one that returns has taken it. Every other step is, ingest by ingest, one of
  the contract or a stutter.
* `WalkInv` is what a client has at an offset, key by key: as long as no row of a
  key came twice, it has seen as many distinct rows of the key as the offset has
  passed in the sorted result (`Taken`). This needs no sum over pages: the rows
  before an offset are a prefix of some sorted order, and every such prefix
  holds the same number of rows of a key (`PrefixTakes`), though not the same
  rows. At the end the number is that of all rows of the key, so a missed row
  means that the premise failed: another one came twice.
* `DockerInv` has four parts beside the types. `RunInv` is what a run has told its
  reporter and knows of it; `BoxInv` that a container bears its run's name and,
  until it has exited, belongs to the step its run is at. `ScanInv` speaks of a
  scan whose id is like no other's and makes the clone a lock that is never given
  back: one clone container finds the workspace empty; the container it leaves,
  running or stopped, refers to both volumes, so nobody empties the workspace again;
  hence at most one run of a scan is past its clone (`ClonedOnce`), and every
  artifact so far is its own. `SecretsInv` says that without secret scanning nobody
  writes that file. `OneIngestPerScan` is not inductive without the lock: nothing
  in a run's own state keeps a second delivery from its reporter.
* `RunnerKeepsContract` follows from `DockerInv`: a run's `failed` agrees with what
  its reporter was told, and a run past its last wait has seen the reporter exit.
  Every action of the submit and of the containers is, for each run, a step of
  `SubmitContract` or a stutter.
* `LineageInv` bounds the role of a request in flight as well as that of a token:
  a token is minted from the role its request read, not from a row, so the
  lineage property alone is not inductive. It also says that a request whose org
  is gone has been told so (`lost`), which is why nothing is inserted for it.
* `WriterInv` says what a request that was not overtaken still knows: its target
  has the role it loaded, its caller the role it was admitted with, and past the
  owner count another owner is there. Every membership write of the org puts the
  requests that rely on it into `overtaken`, so the invariant is kept by others
  for want of a claim. `OwnerlessForGood` needs its other half, what a request was
  entitled to when it loaded its target.
* `RoutesAreAtomic` needs `CallInv`, which adds to `WriterInv` that the row a commit
  names is there: a token about to be revoked exists and is one of the request's org
  (its `org` never changes), the target of a change still has a row unless the request
  was told of its deletion. The reads and waits of a request are stutters, its last
  step is the abstract one (`AddMemberMaps`, `CommitMemberMaps`, ...). `ContextMaps`
  is the heart of it: a token's row is locked from its admission on, so nobody
  deletes it and the role that was read is its role at the commit (`Backed`); a
  user's role is, unless the request was overtaken (`UpToDate`).

All parts of the invariants were checked by TLC before they were proved, on the
instances of `orchestration`, `members`, `intake`, `docker` and `results`; `SoloInv`
and the strict lifecycle also on two scans with one delivery, one pod and no runner
fault; `DockerInv` also without secret scanning, and on three runs of one scan.

Model-checked only: liveness (`EveryScanSettles`, both `EveryRequestEnds`,
`EverySubmitEnds`), because it rests on fairness and so on ENABLED, and
`OnlyWaitersStop`, which says ENABLED itself; that is out of reach of the prover's
backends. Its first half, that a request without a step waits for somebody, is the
lemma `HeldUpWaits`; that `CanProceed` implies ENABLED is TLC's alone. The five properties that are refuted are not theorems by their nature.
Every other property of a passing run is a theorem.

## 6. Plan

Done, in this order: the scan (`ScanRow`, `ScanOrchestration`, `ScanLifecycle`),
members and tokens, the intake, the Docker runner, ClickHouse, and the proofs
above, those of `DockerRunner`, of the paging, of waiting in `Intake` and of the
contract of `Ingest`, and the atomicity of the org's routes and of the intake's
transactions last. What would come next:

1. Deleting an org together with its repositories and connections, which joins
   `OrgMembers` and `SourceConnections` and needs the order of Postgres' cascades.
2. Pure conversions over bounded inputs: memory quantities, the splitting of SQL
   files, the rows taken from reports.

Not modelled, and why: `security.py`'s cryptography (a library), the text of SQL and
the queries that read once, `status` and `cleanup` of the runners (no code path
calls them), health and admin probes (stateless), the `enrich_findings` and
`send_scan_completed` bodies (stubs), settings and
schemas (declarative validation), the UI (no control-plane state).
