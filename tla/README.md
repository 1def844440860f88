# Dialyra: a verification of the call platform

Dialyra is a Flask application (`src/server`) over PostgreSQL that places
outbound calls through Asterisk, follows them by the events Asterisk reports,
and runs a call flow for each of them with the help of a FastAGI handler
(`src/fastagi`). This directory models it in TLA+, checks the models with TLC
on small instances and proves the properties of the core with TLAPS.

## 1. The system

The server runs request threads (each request has its own database session,
READ COMMITTED, no row locks, no version columns), one daemon thread that
listens to the Asterisk Manager Interface (AMI), and one daemon thread that
generates speech. FastAGI is a process of its own with a thread per call; it
talks to the server by HTTP. Nearly all state is in the database. What is hard
is always the same: a thread reads, decides, talks to something slow (AMI, a
provider, the file system), and then writes what it decided, while other
threads do the same.

| component | state | operations | interacts with |
|---|---|---|---|
| call origination, capacity, retry, hangup (`api/v2/calls/service.py`) | `call_sessions`, `call_logs` | originate, retry, hangup; check business, system and trunk capacity | AMI (dial, hang up, list channels), flows (choice), call events |
| call events (`api/v2/calls/event_service.py`, `services/ami_event_listener.py`) | `call_events`, `call_logs`, `call_sessions`; the listener's ORM session | process, deduplicate, correlate, list, reprocess an event | AMI listener thread, `POST /call-events` |
| call reconciliation (`services/call_reconciliation.py`) | `call_logs`, `call_sessions`, external `cdr` | reconcile the rows with Asterisk's call detail records | run by an operator while the server runs |
| flow runtime (`api/v2/flows/runtime_service.py`, `node_executors/`) | `flow_runtime_sessions`, `flow_runtime_events` | find or create the session of a call, choose an edge, execute a node, hop over automatic nodes | FastAGI, call sessions, published flow versions |
| FastAGI handler (`src/fastagi/server.py`) | none but the AGI connection | ask for the next step, play, gather, record, transfer, hang up | flow runtime by HTTP, Asterisk by AGI |
| flow authoring (`api/v2/flows/service.py`) | `flows`, `flow_nodes`, `flow_edges`, `flow_versions` | create, edit, validate, publish, duplicate, archive | origination chooses among the active versions |
| text to speech (`api/v2/tts`) | `tts_requests`, audio assets, an in-memory queue | request, cache lookup, generate in the worker, retry, delete | worker thread, providers, audio assets |
| audio assets (`api/v2/audio_assets`) | `audio_assets`, files | upload, replace, archive, delete | files are written before, and removed before, the commit |
| SIP trunks (`api/v2/sip_trunks`) | `sip_trunks`, apply history, PJSIP file or realtime tables | create, update, delete, apply, roll back | Asterisk reload, origination |
| authentication (`api/v2/auth`) | users, refresh tokens, memberships | register, log in, rotate and revoke refresh tokens, invite | business limits |
| businesses (`api/v2/businesses`) | businesses, memberships | create, transfer ownership, change roles | authorisation |
| access tokens, permissions (`api/v2/access_tokens`, `middleware`) | tokens, scopes | issue, rotate, revoke, check | every request |

What makes each of them correct:

* **origination**: the limits hold up to a known overshoot; no call is dialled
  without rows; retries form chains; a hangup request never reopens a call.
* **events**: an event takes effect once; the two rows of a call agree; what an
  event established (answered, ended, linked) no later writer loses.
* **reconciliation**: it only finalises, only the call the record is of, and
  leaves rows that agree.
* **flow runtime and FastAGI**: the best edge is taken; the session follows
  edges of the flow and rests only where somebody has to act; the handler's
  result is for the node the session is at; a call leaves its flow in a bounded
  number of steps.
* **authoring**: a version never changes; once a flow is published a call finds
  a version of it; what is published was validated.
* **speech**: a text is generated once and shared; a request has speech of its
  own text; a job that was queued comes to an end.
* **audio, trunks**: a row never names a file that is gone; what is said to be
  applied is what Asterisk works with; a rollback goes back to what there was.
* **accounts**: a session has one good token and none after the logout; wrong
  passwords are counted; a business has one owner; limits on members hold; a
  token is created by someone who may manage it, and serves nobody once void.

## 2. Modules

| module | what it is |
|---|---|
| `CallStatus` | the status vocabularies of the two rows of a call, and the pure maps between them (`_resolve_status`) |
| `CallLedger` | an abstract specification: what a session row promises to the rest of the platform |
| `CallAdmission`, `MCCallAdmission` | origination, retry and hangup, their threads and the capacity checks; implements `CallLedger` |
| `CallEvents`, `MCCallEvents` | event handlers, reprocessing and hangup over the rows of a call; implements `CallLedger` |
| `CallReconciliation`, `MCCallReconciliation` | the reconciliation of the rows with call detail records, against event handlers |
| `CallMetrics` | the logs of calls, and the peak of calls at a time that the metrics make of them |
| `CallRecords` | `CallEvents` and `CallMetrics` with `CallReconciliation` (`Cdr`) beside them: they are about other columns of the same rows; the properties of `CallReconciliation` have their names there, and `MCCallReconciliation` lets the records or the logs move and the events rest |
| `FlowEdges` | the choice of the edge that leaves a node, a pure function |
| `EdgeChoice` | an author who adds and removes edges, and the edge that would be taken at every table of edges; `MCFlowRuntime` runs it |
| `FlowRuntime`, `MCFlowRuntime` | the server side of a flow: the requests to `/flow/resolve-next`, their threads, the session rows |
| `FlowWalk` | an abstract specification: what a flow promises its author about a call |
| `CallFlow`, `MCCallFlow` | the FastAGI handlers composed with `FlowRuntime`; implements `FlowWalk` |
| `FlowReleases` | an abstract specification: what published versions are to calls |
| `FlowAuthoring`, `MCFlowAuthoring` | the requests that edit, publish, copy and archive flows; implements `FlowReleases` |
| `Trunks`, `MCTrunks` | the rows of SIP trunks and the configuration of Asterisk made of them |
| `AudioAssets`, `MCAudioAssets` | the rows and the files of audio assets |
| `Speech`, `MCSpeech` | text to speech: callers, cache, queue and worker, over `AudioAssets` |
| `Workspaces`, `MCWorkspaces` | businesses, owners, members and roles |
| `Administration` | `Trunks` with `Workspaces` (`Biz`) beside it: they share threads and no table; the two properties of `Workspaces` have their names there, and `MCWorkspaces` lets the businesses move and the trunks rest |
| `Sessions`, `MCSessions` | logins, refresh tokens and the list of failed logins of a user |
| `AccessTokens` | the access tokens of businesses and who may manage them; `MCSessions` instantiates it |
| `Orm` | what a commit of the ORM writes of a row (`Written`): the columns in which it differs from the row that was read |
| `CallAdmission_proofs`, `CallEvents_proofs` (also about `CallReconciliation` and `CallMetrics`), `FlowRuntime_proofs` (also about `FlowEdges` and `EdgeChoice`), `CallFlow_proofs`, `FlowAuthoring_proofs`, `Speech_proofs` (also about `AudioAssets`), `Accounts_proofs` (about `Sessions` and `AccessTokens`), `Administration_proofs` (about `Workspaces` and `Trunks`) | the theorems about the module of that name |

They meet in four places. `CallLedger` is implemented by `CallAdmission`, which
abstracts the event handlers to what the ledger allows an event to do
(`EventProgress`, `EventHangup`), and by `CallEvents`, which models the
handlers themselves for calls that are already dialled and shows that they do
no more. `CallFlow` is composed of the handlers and of `FlowRuntime`, whose
flow is one that `FlowAuthoring` may have published. `Speech` extends
`AudioAssets`: what is generated is stored as an asset, which other requests
delete meanwhile. `CallReconciliation` writes to the rows of `CallEvents`.

A request is modelled the same way everywhere: a record per thread with its
place in the code (`pc`) and what it has read, one action per stretch of code
between two points where others can act on what it uses. Its reads may be stale
when it commits; a commit writes the columns it changed and no other, as the
ORM does. History variables (listed as such in each module) say which rows had
requests that overlapped: a property that holds of the others only says so, and
what may happen when they do overlap is stated where the code bounds it.

### CallAdmission

`session` is the `call_sessions` table: status, whether `ended_at` is set, the
business, the trunk, and the retry metadata. `worker` holds for each request
thread its place in the code and the local variables it carries over a
statement at which other threads can act. A request runs `BeginOriginate` or
`BeginRetry`, `CheckBusiness`, `CheckSystem`, `CheckRequestedTrunk` or
`PickTrunk`, `InsertRows` (the one commit), `Dial`; a hangup runs
`BeginHangup`, `MarkHangup`. `Abort` is every way a thread can stop before its
next write: AMI cannot be reached (the routes answer 502), an exception, the
end of the process. `placed` is the external world: Asterisk has been asked to
dial these calls, and any of them may or may not be a live channel when a
trunk's load is read. `revived` is a history variable: calls that count against
the limits again because a late event or a hangup request gave a finished call
an active status.

Left out: which flow the call gets (chosen before, never changed), phone
numbers, channel names, `POST /call`, which dials without rows, and the
read-only listings.

### CallEvents

`log` and `ses` are the two rows of a call, `record` the `call_events` row of a
fingerprint. `handler` holds each thread's place and the row snapshots it read:
the ORM computes with what it read and writes the columns that changed
(`Overlay`), all of them in one commit. `Receive` is the fingerprint lookup,
`FindLog` and `FindSession` the two correlations, `CommitUncorrelated` and
`CommitEvent` the two ways to commit, `CommitFails` the integrity or stale-data
error of the flush. A reprocess request is `BeginReprocess`, `DeleteRecord` (a
commit of its own), `Dedupe` and then the same steps. `Restart` ends the
process. `poisoned` is the failed transaction of the listener's ORM session,
which nobody rolls back. `applied`, `raced` and `clean` are history variables.

A row found by `ActionID` is always found; a row is found by its own channel id
once the answer to the Originate action (or a later event) stored it, and by
the linked id once an event stored that.

### FlowEdges, FlowRuntime, CallFlow

`FlowEdges` translates `_resolve_next_edge`: an edge that meets the result, or
else any dtmf edge for a digit, an error edge, the default; within each, the
lowest priority number, then the oldest. Whether a `variable_match` edge holds
is an argument, so variables need no values here.

In `FlowRuntime`, `sessions[c]` holds the positions of the session rows of a
call, a sequence because nothing makes the row unique. A request runs `Accept`
(with the canary gate), `FindSession` or `CreateSession` and `EnterSession`,
`Execute` once per node, each with a commit of its own, and `CommitPosition`.
`ExecuteFails` is a node that is disabled, misconfigured or whose provider
fails; `Finish` may happen at any point and is then the death of the thread. A
client may claim a current node, as the API allows. That the ends of edges
exist is an assumption (`FlowIsValid`), which publishing checks; that the
target of a goto does is none, since nothing checks it: a goto may lead to a
node that is not in the flow, which fails. What is left out of a node is what
it says, plays or fetches; of a webhook, all but whether it succeeded.

`CallFlow` adds `agi[c]`, the loop of `FastAGIHandler.handle`: `Ask`, then
`Take` the answer or `GiveUp`, then `Perform` the action or fail to report it.
The handler asks as a client of `FlowRuntime`, each call on its own thread, and
claims no node. `GiveUp` leaves the request on the server: the two processes
share no more than messages. The map to `FlowWalk` takes the position of the
one session row; `Hops` are the edges an automatic node can take. What a call
may pass on its way is a path of `FlowWalk` (`IsWay`).

### CallReconciliation, CallMetrics

`log` and `ses` are the rows of the calls, `cdr` the records that Asterisk has
written (`WriteCdr`). The command runs `Begin`, then for each record `FindLog`
(by a channel id or a linked id, or else the newest call to the number) and
`Reconcile`, and `Apply` commits all of it at the end, `RollBack` nothing.
`batch.known` are the rows its ORM session has read and does not read again,
`batch.flushed` those it has written to and thereby locked. The `Writers` are
threads that handle events and requests to hang up: a handler reads
(`ReadEvent`) and commits (`CommitEvent`), a request reads (`BeginHangup`) and,
once AMI has been asked, marks the session hangup and the log canceled
(`MarkHangup`), whatever the log said; a log that is correlated by number only
is read before, another one when it is marked. `GiveUp` ends either without a
commit. A handler reads both rows in one step here: `CallEvents` has them read
one after the other, and a row that is committed in between is one of those
`crossed` excepts. Three variables are history: `overlapped` are calls that the
command or a writer wrote to after the other had read them, `crossed` those
that one writer wrote to after another had, and `guessed` those a record was
given to, or kept from, for its number. "The same story" (`SameStory`) is the
session status that goes with the log's, or what a request to hang up leaves.
The records have no time of the end: PostgreSQL refuses the query with a column
named `end`, so `ended_at` is never copied.

In `CallMetrics`, `logs` are rows in the order a query returns them, `window`
what it is asked for. `Marks` are the entries the sweep goes through, `Before`
their order, with equal ones left as they were found, and `CountAt` what the
sweep has counted when it has passed a mark: the begins less the ends up to
there. `PeakIsFound` compares the greatest count with the definition of the
peak: the greatest number of calls that are `GoingOn` at one time. `AddLog` adds
any row there may be; what becomes of a row later is not followed, since the
estimate only reads.

### FlowAuthoring

`flow`, `graph` and `versions` are the tables, by flow; versions are in the
order of their commits. A request is `CreateFlow`, `CreateAndPublish`, an edit
(`BeginCreateNode`, `BeginUpdateEdge`, `BeginDeleteFlow`, ..., their steps
gathered in `EditStep`; `BeginDuplicate` copies a flow) or a publication
(`BeginPublish` and `PublishStep`: validate, read the graph again, take the
next number, commit). Of a node its type, whether it is marked as start and
which type's requirements its settings meet are kept. `seen` of a version is
how many were committed when it took its number. `FlowReleases` takes a version
to its activity, number and content.

### Trunks

`trunk` is the table, with the snapshot (`prev`) a rollback uses; `table` the
rows Asterisk reads (`ps_...`), `file` and `loaded` the file and what Asterisk
has read of it. `mode` is the deployment: a file, tables in the application's
database, or tables elsewhere with commits of their own. `CreateSipTrunk`
looks the name up and `Insert` commits. What the database keeps unique is
business and name together, which lets two businesses use one name and does
nothing for global trunks, whose business is NULL: of those only the lookups
keep names apart, and an update does not look for the empty name (`Blank`), nor
a rollback for any. That a trunk of a business can be updated to no other name
that is not empty is what the code does: its query compares the business by IS
with a number, which PostgreSQL refuses (`IsAllowedName`). `clashed` is history:
global trunks given a name that another request was about to give too, or by a
rollback.

`UpdateSipTrunk`, `DeleteSipTrunk`, `ReloadSipTrunk` and `RollbackSipTrunk`
start a request whose steps are `PurgePart`, `PurgeOutside`, `Applying`,
`TablesAreUnreachable`, `SyncFails`, `ReadRow`, `UpsertTrunk`, `Render`,
`WriteConfig`, `PjsipReload`, `Applied`, `ResyncOutside`, `RewriteConfig`,
`Restore`, `Save` and `Fail`, as its kind and the deployment have it. `Crash`
is the end of the process. A deletion goes through the tables in five
statements (`PurgeOrder`), each of which finds what is committed by then
(`gone`); the rows it has deleted are locked until its commit, so that an
upsert waits for them (`MayUpsert`), but where a statement found none there is
nothing to wait for: an application that commits then leaves rows of which the
later statements take their part. `torn` is history: names of trunks whose
rows were written last at such a time.

### AudioAssets, Speech

An asset stands for its uuid, which names row and file. An upload is
`UploadAudioAsset` (looks the slug up), `WriteFile`, `Insert`; a deletion
`DeleteAudioAsset`, `Unlink` or `UnlinkFails`, `Save`; an update
`UpdateAudioAsset`, `Save`; a note in the metadata (a playback, a
synchronisation) `NoteInMetadata`, `SaveMetadata`. `Abort` ends a request
anywhere.

`Speech` adds the rows of requests (`tts`), the `queue` of the worker, whether
the worker is `alive`, and what callers and worker are doing (`job`). `Call` is
a step of a caller (request, cache lookup, generation or the queue, deletion,
another attempt), `WorkerStep` one of the worker, `Escapes` an exception
nothing catches, which ends the worker's thread, `Crash` the end of the
process, which loses the queue. A flow that speaks generates itself, whatever
the settings.

### Workspaces, Sessions, AccessTokens

`Workspaces` keeps the three places that say who owns a business: `owner`, the
`member` rows and the `role` of users. Each request (register, add or change or
remove a member, create a business with an owner, transfer, change status)
reads what it checks in one step and commits in another. It starts in any
state with an owner, an owner's membership and a fitting role for each
business, or no owner (`Settled`).

Version 1 of the API is always served beside version 2 (`app/__init__.py` 43 to
56) on the same tables, and does some of this otherwise: an owner registers
with a business and the role "owner" (`RegisterOwner`), a superuser creates a
business with an owner who is no member (`CreateBusinessOf`), members get any
role, "owner" included (`AddAnyMember`, `UpdateAnyMember`, `CreateMember`, which
gives the user that role too), and a transfer goes to any member, makes the new
owner an "owner" and the previous one an "admin" whatever else they own
(`TransferToAnyMember`). The column `users.role` takes all of these. Such a
request sets the three places apart without any other beside it: the history
`legacy` has the businesses that were given an owner without a membership or a
second member with that role, and the users who own something and were made an
admin. What the properties except is that, and nothing of an update or transfer
that follows on other businesses.

In `Sessions` a token knows its session and its parent; a request reads a token
(`BeginRefresh`, `BeginLogout`) and writes it in another step; `attempts` is
the list of failed logins of an address, which a login reads, filters and puts
back; each failure is told from the others by its login, and the list is the
set of them, since nothing depends on their order. `failed` is what the list
should hold.

In `AccessTokens` a member's request is let in by a permission in the business
it names, or in the one joined first, and then finds the business of the token
by rules of its own; `key` records whether its creator could manage it.
`joined` may change meanwhile. A request with a token is let in by the token as
read and served when its use is committed; `late` counts those served with a
token void by then.

## 3. Runs

| run | instance | shows |
|---|---|---|
| `admission_calls` | 2 threads, 3 sessions, business limit 1; early, late and repeated events | the limit is exceeded by less than the number of threads; only committed rows are dialled, once; retries form chains; identities are kept; `CallLedger` is implemented |
| `admission_system` | 2 businesses, a global trunk, system limit 1 | the same overshoot bound for the system-wide limit |
| `events_rows` | 1 request thread and the listener, 3 events of one call, 2 records per event | the log is never ahead of the session and, unless handlers raced, tells the same story; an event takes effect once; marks are kept; `CallLedger` is implemented |
| `reconciliation` | 2 calls of one number, 3 records, one of them far from the calls in time, 2 writers, 2 events or requests to hang up; or up to 3 logs over times 0 to 2 and every window | what is done with stays; ends are kept; rows keep their ids and both tell what the record tells, where nothing overlaps; the sweep finds the peak |
| `flow_runtime` | 2 threads for one call, 7 nodes, 8 edges, hop limit 2; true, false and unknown claims; and a pool of 8 edges with 8 results | the session rests at executed nodes where the runtime has to stop; the best fit is chosen; another edge never changes which of the old ones is taken |
| `call_flow` | 2 calls, one gated, 8 edges with cycles, hop limit 3, 4 questions | handler and session are in step; one question at a time; a call leaves its flow; `FlowWalk` is implemented |
| `flow_authoring` | 2 threads, 2 flows, 3 requests about the second, 2 nodes, 2 edges | versions replace each other; a published flow is no draft and has a version; what is published is the graph that was validated; `FlowReleases` is implemented |
| `trunks` | 2 threads, 2 trunks, global or of one business, 2 names, one of them empty, 2 configurations, 3 requests, all three deployments | names are unique as far as anything keeps them so; the tables hold whole configurations, but for what a deletion cut off, and nothing of what was deleted; what is said to be applied is served; a rollback keeps the row |
| `audio_assets` | 2 threads, 2 assets, 2 slugs, 4 requests | live assets have files, deleted ones have none; slugs are unique and notes kept unless two were at them at once |
| `speech` | 2 callers and the worker, 1 thread that deletes assets, 2 texts with keys of their own and one slug, 2 requests | a request has speech of its text; speech is shared; completed stays completed; queued jobs end |
| `workspaces` | 2 threads, 3 users, 2 businesses, a limit of 2, 3 requests of both versions | row, memberships and roles agree on who owns a business; the limit of members is kept, and exceeded by less than the number of threads where requests overlap |
| `sessions` | 2 threads; 4 tokens, 3 logins, 2 attempts in a window of 1 within 2 units of time; or 2 keys, 2 users, 2 businesses, 3 requests and a change of membership | sessions are chains that end with the logout; failures are counted; tokens are of managers; a void token serves few |

An invariant of a run is often a conjunction whose parts are named and
commented in the module:

| invariant | parts |
|---|---|
| `CallEvents!RowsAgree` | `TypeOK`, `LogIsNotAhead`, `SameStories` |
| `CallReconciliation!RowsTellOneStory` | `TypeOK`, `IdsAreOwn`, `StoriesAgree` |
| `CallReconciliation!EventsStand` | `DoneIsLeft`, `EndsAreKept` |
| `FlowAuthoring!VersionsReplaceEachOther` | `LaterReplacesEarlier`, `AVersionIsActive`, `PublishedIsNoDraft` |
| `FlowAuthoring!GraphsAreSound` | `TypeOK`, `StartIsMarked`, `VersionsAreTheGraph` |
| `Trunks!TablesAreInOrder` | `TypeOK`, `NamesAreUnique`, `EndpointsAreWhole`, `DeletedIsPurged` |
| `Trunks!StatusIsTrue` | `AppliedIsServed`, `ApplyingIsAtWork` |
| `AudioAssets!RowsAndFilesAgree` | `AssetsTypeOK`, `LiveAssetsHaveFiles`, `DeletedAssetsHaveNoFile`, `DeletedHasItsStatus` |
| `Speech!RequestsAreSound` | `TypeOK`, `AssetIsForTheText`, `ProcessingIsAtWork` |
| `Workspaces!OwnershipIsOne` | `TypeOK`, `OwnerIsTheOwner`, `OwnersAreStuff`, `GiversAreDemoted` |
| `Sessions!SessionsHold` | `TypeOK`, `OneTokenIsGood`, `LogoutEnds`, `UsesAreBounded` |
| `Sessions!TriesAreCounted` | the types of the lists, `TriesAreLimited`, `ListIsExact` |

Bounds. The identities of sessions bound how many calls a behaviour has: three
are enough for a limit of one, a call past it, and a retry of either. Two
threads are enough for every race here, since each is between one thread's read
and write and one other write; where it is a number of threads that bounds
something, the bound is proved for any number. `MaxRecords = 2` lets an event
be recorded, deleted and recorded again. Only a few event outcomes are taken
per run (`ProgressSeen`, `HangupSeen`, `Events`): the handlers treat the others
alike, and the theorems hold for all of them.

Requests about flows, trunks, assets and members are bounded by their number
(`MaxRequests`): three are two that race and one before or after, such as a
publication, an edit that begins before it, and a second publication. In
`flow_authoring` the first flow is only made and copied (`FirstComesFirst`,
`OnlyTheSecond`), and one payload makes it. In `trunks` an update changes one
column (`OneChange`), of which a second update may change another; a trunk is
created active, with a name, to register, and while no request is at work but
another creation or an update that names one (`Creations`); with tables, whose
rows are a trunk's own, requests at work are about one trunk (`OneTrunk`); with
a file, which is for all, the last request applies or rolls back, or the one
beside it does (`LastApplies`). In `workspaces` one user has what businesses
there are at first, and is alone or with another (`MCInit`); general users,
superusers, those of version 1 and businesses of several owners come of
requests; the last request overlaps others only about a business with a limit
(`Overlaps`), since nothing else is said of what they touch. In `reconciliation`
two events or requests are what it takes for one writer to cross another, or
the command, or both. In `speech`
the requests about assets are the deletions, the ones that interfere
(`OnlyDeletions`); the others are those of `audio_assets`. A behaviour of
`sessions` is about either the sessions of a user or access tokens, which share
nothing, and one of `reconciliation` about either the rows or the metrics.

The flow of the instances has a node that asks, one that plays, two that go on
by a result of their own, a goto and a hangup, in `flow_runtime` also a goto
that leads out of the flow, cycles through the menu, and results no edge is
for; a hop limit of 2 or 3 is reached on it, as is the step limit of 4 (8 and
32 in the code). The pool of edges has at most two of a kind, since the choice
compares kinds, then pairs.

Symmetry is over interchangeable rows and threads and is used with safety
properties only. Deadlock is checked in `flow_runtime`, where a client may
always ask again. The others stop when their identities, requests or events are
used up and their threads are idle, and do not check it.

Fairness. In `CallFlow` a connected handler goes on: its thread runs, Asterisk
answers every AGI command, and a question is answered or times out. In `Speech`
the worker goes on while it lives: a provider answers or is given up
(`TTS_PROVIDER_TIMEOUT_SEC`), and nothing else makes it wait. No fairness is
assumed of requests, of callers, or of Asterisk, and no liveness is stated of
calls elsewhere: nothing in the code makes Asterisk report the end of a call.

### What the models show of the code without a run of its own

Where the code, its messages or its comments say one thing and the models show
another, the properties are stated so that they hold of what the code does:

* `calls/service.py`: the system-wide maximum is exceeded when two requests
  count before either inserts; `SystemOvershoot` is the bound stated. "Retry
  attempts exceeded" compares the maximum with the depth of a chain: one
  session may be retried any number of times. The queued row of a call AMI
  never took holds a slot (279, 405). A call that ends while AMI is asked to
  hang it up is marked hangup after its end (539, 591). A hangup by number may
  hit another call to it (574), and the load of a trunk counts live channels
  only (319), so calls that have been accepted and not yet dialled are not
  seen.
* `calls/event_service.py`: a reprocessed event that is delivered again in
  between is deduplicated after all (340). `ami_event_listener.py`: after a
  failed flush nobody rolls the listener's session back, and it applies nothing
  any more (85 to 99).
* `calls/service.py` 590 to 614: a request to hang up makes the session "hangup"
  and the log "canceled", also of a call that has been completed; the two
  statuses are not among the pairs an event writes.
* `call_reconciliation.py`: any call matches, though the comment speaks of
  unresolved logs (116); rows without a Hangup event never get an end and are
  reconciled by every run; a match by number may overwrite the ids of another
  call. The metrics select by `started_at`, which leaves nothing for their
  clipping at the start of the window.
* `flows/runtime_service.py`: for a digit, an edge for another digit is taken
  before the default (183 to 187); a start node that failed to execute is left
  as if it had been entered (352).
* `flows/service.py`: an archived flow is published again by a publication that
  overlaps; two overlapping publications may both stay active; the start in a
  version is the one read before the validation; a flow whose only start is a
  mark on a node validates, and is refused by the runtime.
* `sip_trunks/service.py`: after an update and an application a rollback has
  nothing to go back to; rows under a former name stay in the tables; a
  rollback of the file takes back other trunks, whose rows go on saying
  applied. The name of a trunk is looked up as if it were unique among global
  trunks too, and for the update of a business's trunk in a query the database
  refuses (336). An application during a deletion may leave a registration
  and its authentication without an endpoint.
* `tts/service.py`: a deleted request is completed afterwards, and a racing
  deletion marks a completed one failed.
* accounts: a suspended user logs in and refreshes, and is refused by the
  middleware only; an inactive business cannot be activated again by its API
  (`permissions_v2.py` 288); only the creation of a user checks `max_users`; a
  member of the stuff can create a token in a second business but revoke it
  only with the permissions of the first; version 1 counts failed logins in a
  list of its own, sets owner, membership and role of a business apart as
  described under `Workspaces`, and originates calls without rows, which no
  limit counts.

## 4. Proofs

`CallAdmission_proofs` proves for every set of sessions, threads, businesses
and trunks and all limits, from the assumptions `PoolsAreFinite`,
`OutcomesAreReported`, `TrunksAreAssigned` and `LimitsAreNat` of
`CallAdmission`:

| theorem | property |
|---|---|
| `TypeIsCorrect` | `TypeOK` |
| `RetriesFormChains` | `RetryChain` |
| `IdentityIsKept` | `CallIdentityIsStable` |
| `DialIsCommitted` | `DialAfterCommit` |
| `BusinessLimitHolds`, `SystemLimitHolds` | `BusinessOvershoot`, `SystemOvershoot` |
| `LedgerIsImplemented` | `ImplementsLedger` |

The inductive invariant `IInv` adds to the types what each thread's local
variables say about the table: a thread past its start carries a business
(`LocalsAreSet`), one that retries carries a source that is ended and a count
that is due (`RetryIsDue`; it stays true because no step unsets an end or
changes a count), rows are whole (`RowIsWhole`) and calls in `placed` have rows
(`PlacedIsCommitted`). The limits need a second invariant: the overshoot bound
alone is not inductive, since an insert raises the count without a check.
`BusinessReserved` counts a thread that has passed its check as if its call
existed already. A check that succeeds then adds one to a sum it has just
bounded by what the other threads may have added, and an insert moves one from
the threads to the table.

The theorems about calls in a flow hold for every flow, any number of calls and
threads, and all limits. Those about edges assume `AreRows`: the ids of edges
are a key, and priorities are bounded below, as those of a 32-bit column are.
From that, the sort of the code has one first element (`FirstIsFirst`, by the
well-foundedness of the natural numbers, once for the priorities and once for
the ids), and the rest is a case split over the kinds of candidates. The others
assume `FlowIsValid`, what publishing checks of a flow, and `CallFlow_proofs`
also `StepsAreNat`.

| module | theorem | property |
|---|---|---|
| `FlowRuntime_proofs` | `ChosenIsOfNode` | an edge taken is one of the node |
| | `BestFitIsTaken` | the formula of `BestFitIsChosen`, for every set of edges |
| | `BestFitStaysChosen` | `BestFitIsChosen` |
| | `OthersNeverMatter` | `OthersDoNotMatter` |
| | `RuntimeTypeIsCorrect` | `TypeOK` |
| | `SessionsRest` | `RestsWhereItStops` |
| `CallFlow_proofs` | `CallFlowTypeIsCorrect` | `TypeOK` |
| | `HandlersAreInStep` | `InStep` |
| | `QuestionsAreSingle` | `OneQuestionAtATime` |
| | `WalkIsImplemented` | `ImplementsWalk` |

`IInv` of `FlowRuntime_proofs` says what a thread knows between its steps: the
row it holds is still in the table, since rows are only added (`KnowsItsRow`),
and the node it is about to store was executed and is one where the runtime
stops (`KnowsItsNode`), which stays true since executed nodes only grow in
number.

`CallFlow_proofs` takes these facts over: a step of `CallFlow` is a step of
`FlowRuntime` with the handlers as clients, or leaves the runtime alone
(`RuntimeKeeps`, which needs that a handler only ever reports one of
`Reports`). Its own `IInv` adds per call that there is at most one session row,
which no step of the runtime alone could promise: it holds because the call has
one question open at most. An answer on its way, and the action taken from it,
is of the node that row is at (`AnswerIsOfNode`, `ActionIsOfNode`).

The refinement of `FlowWalk` needs one thing more (`Walks`): while a thread
executes nodes, there is a way from an edge of the node the row is at to the
node it has come to, of one node more than it has counted hops. `FlowWalk`
states its ways by quantifiers, so that a hop makes one longer by a node
(`WayGoesOn`) and nothing is proved by induction over data. A thread that
commits has counted fewer than `MaxHops` hops: the row moves to where `Move`
allows, and nothing else writes it.

`OthersNeverMatter` takes `BestFitIsTaken` twice, before and after the edge was
added: were another old edge taken, each of the two would fit better than the
other. Of the pool it assumes what a table gives (`PoolIsOfRows`).

The theorems about the other components hold for any number of threads and
rows too.

| module | theorem | property |
|---|---|---|
| `CallEvents_proofs` | `RowsDoAgree` | `RowsAgree` |
| | `EventsTakeEffectOnce` | `TakesEffectOnce` |
| | `MarksStaySet` | `MarksAreKept` |
| | `LedgerIsImplemented` | `ImplementsLedger` |
| | `RowsGoTogether` | `RowsTellOneStory` |
| | `EventsStay` | `EventsStand` |
| | `RecordsAreTold` | `RecordIsTold` |
| | `PeakStaysFound` | `PeakIsFound` |
| `FlowAuthoring_proofs` | `VersionsDoReplace` | `VersionsReplaceEachOther` |
| | `ReleasesAreImplemented` | `ImplementsReleases` |
| | `GraphsStaySound` | `GraphsAreSound` |
| `Speech_proofs` | `RowsAndFilesDoAgree` | `RowsAndFilesAgree` |
| | `SlugsStayUnique` | `SlugsAreUnique` |
| | `NotesStay` | `NotesAreKept` |
| | `RequestsStaySound` | `RequestsAreSound` |
| | `SpeechStaysShared` | `SpeechIsShared` |
| | `CompletedStays` | `CompletedStaysCompleted` |
| `Administration_proofs` | `OwnershipStaysOne` | `OwnershipIsOne` |
| | `LimitStaysKept` | `LimitIsKept` |
| | `TablesStayInOrder` | `TablesAreInOrder` |
| | `StatusStaysTrue` | `StatusIsTrue` |
| | `RollbackStaysIdle` | `RollbackKeepsTheRow` |
| `Accounts_proofs` | `SessionsAreHeld` | `SessionsHold` |
| | `TriesStayCounted` | `TriesAreCounted` |
| | `VoidTokensServeFew` | `VoidServesFew` |
| | `TokensAreOfManagers` | `CreatorsManage` |

`CallEvents_proofs` assumes `EventsAreOfCalls` and `EventsHaveDetails`. Its
`IInv` adds to the types (`RowsHold`) that a log is within its session and that
unless a write raced both rows tell the same story and know the same ids;
(`RecordsHold`) what a record says of what was applied; and for each handler
(`HandlersHold`) four claims: what it is about (`Located`), that nothing of it
has been unset since, and whoever found the log finds the session (`Current`),
that nothing has been added to it unless the call raced (`Fresh`), and that no
record of an event delivered cleanly was seen (`Unrecorded`). `Current` is what
keeps marks: a commit writes the columns that differ from what was read, so a
written row has the marks that are there and those of the event
(`WrittenIsRow`).

For `CallReconciliation` it takes `ConstantsOK` (`RecordsAreOfCalls` in
`CallRecords`). `CdrRecordsHold` has the types and four things about each
call. `EndsHold`: the command never sets an end other than it read it, so that
what it writes, the columns that differ, leaves an end alone that it has not
seen; and what it has flushed, it has locked. `IdsHold`: unless a record was
given to the call for its number, what is in the row, what was set and what is
in the transaction has ids of this call, and a record that is about to be
applied to it is one of its own. `Undisturbed`: unless a writer came between,
what the command sees of the call is what it read, and what it set is what was
there if the call is done with, or else what its one record tells (`Told`).
`TalesHold`: unless a writer came between the command and the row, or another
writer, both rows tell the same story, those the command will write too, and
whoever handles an event or a request has read what is there. That the transaction sees its own flushes is
`FlushKeeps`; `ApplyIs` says what a call is after the commit, and the three
theorems follow from it. `RecordIsTold` needs the invariant because the records
of other calls are applied in between, each with a flush.

For `CallMetrics` it takes `LogsHaveTimes`, and needs no invariant but the
types: the theorem is about every table of logs. The count at a mark is the
number of calls that have begun less the number of those that have ended
(`CountIs`, with a bijection of marks and calls). When a call begins, at most those are counted that are going on
then; when one ends, at most those that were going on just before
(`NotTooMany`); and at the last begin up to a time all that are going on at
that time are counted (`NotTooFew`): the ends passed before it are fewer than
those up to the time. Two sets of numbers of which neither exceeds the other
have one maximum (`SameMaximum`), which exists by the well-foundedness of the
natural numbers. Calls that end before they begin, or are begun after the
window, are among those it holds for.

In `FlowAuthoring_proofs` the theorems about versions need no assumption on
the constants. `IInv` adds to the
property what the rows are (`RowsHold`: a version took its number when those
before it, at most, were committed, so the number is at most its place) and what
a publication knows between its steps (`RequestsHold`): that its flow was there
and is no draft if it was none when read (`KnowsItsFlow`), that its number is
greater than those it has seen, and that what it will deactivate is all that is
still active of those (`KnowsItsNumber`). The last part survives every step of
others because none makes a version active that was not, and no number changes
(`VersionsGrow`). A status is written only where it differs from the one read,
so that an update that read a draft may bring any status but draft
(`FlowsGoOn`). The refinement follows: each of the two actions that touch
versions adds one and takes back some, which is `Release` of `FlowReleases`.

`GraphsStaySound` takes `PayloadsAreGraphs`, what `create_and_publish_flow` has
checked of a payload. `GInv` is inductive together with `IInv`. It adds what the
tables of a flow are (`GraphsHold`), that a node's id was used (`IdsAreUsed`;
otherwise a new node could take the place of the start), what the local
variables of a request are by its place in the code (`IsRequest`), and what a
request knows of its flow unless the flow has raced (`Knows`): an edit has the
start as it is and no version is there, a publication has the graph as it is and
validated, a copy has read the nodes that are there. That this stays so needs
that two requests about one flow, one of which changes its graph while the
other works with it, have raced (`Apart`): whoever begins beside another is
noted, and no request becomes an edit later.

`Speech_proofs` assumes `NoneIsNoAsset` for the assets. `IInv` says what each
request knows between its steps (`RequestsHold`: an upload that its file is there
and its slug not taken, a change that its row is there and as it was read, a
note that it loses none, each unless it races), that no two uploads have one
file (`FilesAreOwn`), and the parts of the properties; `Keeps` is what a step of
one thread does to what the others know, proved once per action.

For speech it assumes also that texts have keys and slugs (`KeysAndSlugs`) and
that callers, worker, threads and ids of requests are told apart (`ClaimsAreOwn`,
`IdsAreNoThreads`). `SpeechInv` says what the rows are
(`RowsHold`), which fields go with a status (`StatusFits`), that the assets of
rows and of jobs exist and were made for the key (`AssetsKnown`,
`AssetIsForTheText`), what a job knows by its place (`JobsKnown`), that a
request waits once or is in one pair of hands (`QueueHolds`, `HandsAreOne`), that
uuids are not shared (`UuidsAreOwn`), and of each key that two requests with
assets that can be served share them (`KeysAreShared`). The last part rests on
what a lookup that found nothing shows (`MissIsRight`). An attempt to prove that
what was made is always shared failed for a good reason: a hit that was found
before its asset was deleted is noted in its row after the next asset was made,
and when that one is deleted in turn, the newest completed request has none that
can be served, and speech is made a third time though the hit's asset could be.
That takes more requests than the run has; `SpeechIsShared` now excepts it
(`Overtaken`).

`Administration_proofs` assumes for `Workspaces`, which `Administration`
instantiates as `Biz`, its `ConstantsOK` (`BusinessesAreTyped`: limits are
positive, users and threads finitely many, and `None` is none of them).
`BizIInv` has the types of the rows, and that an owner and a member are users
and a business without a row has neither (`BizRowsHold`); that two requests at
work that share a business or a user have raced with all they are about
(`BizRequestsAreAlone`); what a request has read that is so still unless raced,
and what it will write (`BizRequestsHold`); and the parts of the properties.
`OwnerIsTheOwner` relates rows of three tables, which a request writes in one
commit by what it has read of them before (`KnowsTransfer`, `KnowsRemoval` and
the like). What version 1 does differently needs cases of its own there: a
transfer that demotes without asking (`demote` is "admin"), a member whose role
becomes owner. `KnownStays` says once what a step has to leave alone for
another request to keep what it knows, and `CommitKeepsRequests` shows it of
every commit. The limit needs `RoomIsLeft`, which counts the requests that have
found room (`Joining`) as if their users had joined already: the bound by the
threads is not inductive without them, as in `CallAdmission`.

For `Trunks` it assumes that `None` is no business and no name (`NoneIsOther`).
`IInv` has three parts. `CoreHolds` is about types, places and the trunks that
are not disturbed (`RowsHold`, `IsAtItsPlace`): that those have one request at
most (`RequestsAreAlone`); what that knows: the row as it is, what it has
written and with what effect (`Knows`, `KnowsFile`), and what it will write
(`IsIntended`); and of the trunk (`TrunkHolds`) that its rows in the tables are
under its name unless it had others, are there when it is applied and gone when
it is deleted, but for what a request with tables elsewhere has begun
(`IsPurged`, `IsRestored`), and that a snapshot has the row's configuration.
`StepOfRequest` shows once that a step for one trunk keeps all that is said of
the others and of their requests; what is left for each action is its own trunk
and request. `UpsertEffect` and `PurgeEffect` say what the tables are after
each of the two writes.

`NamesHold` is about every trunk, disturbed or not: a request never changes the
business of the row it has read, and a global trunk's new name is still free, or
the empty one, or noted in `clashed` for this trunk or the one that has it
(`IsFree`), as is that of two requests that are about to give the same
(`Differ`). `PurgesHold` is about deletions half through: what a deletion has
deleted is of parts it has gone through and locked by it alone (`IsPurging`); a
row it has missed comes earlier in `PurgeOrder` than all it has found
(`DeletesFirst`), so that its commit takes rows off the end of those that are
there; and of rows that are not torn, none is there of a part it has gone
through but those it has deleted (`IsUntorn`). `EndpointsAreWhole` alone is not
inductive: what the commit of a deletion takes is decided by its statements.

`Accounts_proofs` assumes `SessionsAssumption` for the refresh tokens. `IInv` has the shape of the
chains (`TokensFormChains`), that a request about a session that has not raced
is the only one (`RequestsAreAlone`), and that sessions logged out were issued.
`UsesAreBounded` is not inductive: `UsesAreOfThreads` counts the threads that
hold a token unused with the tokens refreshed from it, which no step makes more
than there are threads.

For the list of failed logins, `LimiterHolds` has the types and both parts of
`TriesAreCounted`, which are not inductive: a login writes back what it read
two steps before. Unless logins overlapped it adds that one thread at most logs
in (`LoginsAreAlone`), and what it knows (`Counts`): the list it has read is,
within the window, what has failed since the last success, and once it was let
through there is room for one more failure. Both go on while time passes, since
what has been dropped once would be dropped later (`RecentLater`).

For the access tokens it takes `ConstantsOK` (`TokensAreBounded` in
`MCSessions`). `LateIsBounded` counts requests served late together with threads still
at it, as above. `CreatorMayManage` carries what a request's permission said
through its steps while memberships stay (`RowIsKnown` for the row it read).

Only model-checked: liveness (`CallEnds`, `JobsEnd`), which is out of reach of
the prover. Every other property of the runs is proved. The proofs cover the
safety of each module as it stands; that an abstraction is faithful to the code
is not their subject, nor is the composition of modules that section 2 does not
compose.

## 5. Not modelled

* Of version 1 of the API, always served beside version 2 on the same tables:
  the calls it originates, which have no rows, so that no limit of
  `CallAdmission` counts them; its refresh and logout, the same code on the same
  table as those of `Sessions`, and its login, which counts failures in a list
  of its own; its access tokens, which only superusers reach, whose requests
  are always let in; the status of users. What it writes otherwise to owners,
  members and roles is in `Workspaces`.
* The speech providers, the AMI socket protocol and Asterisk: external, or
  without state; modelled from how the code uses them.
* The migrations, the command line apart from `calls reconcile`, configuration
  and application set-up: run once, or constant while the program runs.
* Of authentication: a user's status, which only the middleware reads. Of
  permissions: superusers, who are always let in, call tokens, which are signed
  and not stored, and the permissions of other resources, checked in the same
  way.
* Of businesses: names and profiles, and the flag that lets calls fall back to
  global trunks, a constant of `CallAdmission`.
* Of calls: history, audit and listings, which only read, and the sums of the
  metrics. Of the runtime: `get_runtime_state` and the event posts of
  `/calls/<id>/...`, which append to a log nothing here reads.
* Logging, request ids and the wording of messages everywhere.

## 6. What could be added

1. `CallAdmission` with the selection of the flow, composed with
   `FlowAuthoring`: a call then gets a version that was active when it was
   selected, and keeps it while another is published.
2. `CallReconciliation` over the handlers of `CallEvents` instead of the events
   abstracted from them, with a refinement that shows they do no more.
3. The liveness of reprocessing: an event left uncorrelated takes effect once
   its call is known and it is reprocessed.
