# Simpagent in TLA+

This directory holds a TLA+ model of the parts of Simpagent whose correctness
depends on the order in which things happen, the TLC configurations that check
it on small instances, and TLAPS proofs of its main safety properties for every
size of instance. Paths below are relative to the repository.

## 1. The system

Simpagent is a FastAPI backend over PostgreSQL, a Next.js frontend, a gateway
(Kong) and a supervisor that runs Python in containers. The repository also
carries the planning tools its development runs on, `.codex/gsd-core`: some
forty thousand lines of JavaScript that keep a project's plan in the files of
`.planning`, called by agents that work at the same time.

| Part | State it keeps | Operations | What makes it correct |
| --- | --- | --- | --- |
| **Chat service** (`backend/app/services/chat.py`) | `conversations`, `messages` rows | create, send, retry, delete, undo; a provider call between two transactions | a turn has one writer, is answered from its own prompt, and settles; an accepted client id is accepted once |
| **Search turns** (`services/chat_turns.py`) | the same rows | `submit_turn`: the whole turn, worker call included, in one transaction | it shares the log with the chat service without breaking its shape |
| **Refresh sessions** (`services/sessions.py`) | `refresh_token_families`, `refresh_tokens` | login, refresh, logout, password reset | a family is one chain, rotated only by its device key, never past its absolute expiry, and revoked for good |
| **Python executions** (`agent/coordinator.py`, `services/python_sessions.py`) | `tool_executions`, `python_session_states`, `python_artifact_records`, files | sweep, plan, queue, run, store, download | code runs once, evidence is final, snapshot and artifacts share one expiry |
| **Supervisor** (`sandbox/server.py`) | used capability ids, in memory | admit, run, answer | a capability is admitted once |
| **Administration** (`services/admin_evidence.py`, `components/settings`) | settings rows; what each console shows | read, change | a console shows the settings in force |
| **Accounts** (`db/repositories/accounts.py`, `provisioning.py`, `services/registration.py`, `update_user_access`) | `users`, `user_scopes`, `identities` | register, link, change access, bootstrap, seed | an account has the scopes of its role; once there is an administrator there stays one |
| **OAuth sign-in** (`api/routes/auth_oauth.py`, `identity/oauth_service.py`, `consume_security_artifact_once`) | a sealed cookie, `security_replay_records` | start, callback | a transaction signs in once; a subject belongs to one account |
| **Browser session** (`frontend/lib/auth-session.ts`) | page model, cookie jar | restore, login, logout, authorised call, readiness poll | at most one refresh in flight per page; what is shown is what the session is |
| **Device key** (`frontend/lib/device-proof.ts`) | one slot of IndexedDB, a promise per tab | load, generate, save, sign | the key of a tab is the one its session is bound to |
| **Browser chat** (`components/chat/ChatWorkspace.tsx`) | list, open conversation, draft, undo toast | list, open, submit, retry, delete, undo | a prompt is stored once; what is shown is what was chosen and what is stored |
| **Browser search** (`frontend/lib/chat-session.ts`) | turns, retry contexts | submit, retry, switch mode | the same, for turns that are retried in place |
| **STATE.md** (`gsd-core/bin/lib/state.cjs`) | one document, its archive, its lock file | the `state` commands | one writer; no entry is lost |
| **Roadmap and phases** (`phase.cjs`, `roadmap.cjs`, `milestone.cjs`) | roadmap, requirements, phase directories, fields of STATE.md | add, insert, remove, complete, annotate, close a milestone | heading, line and directory of a phase carry one number |
| **Workstreams** (`workstream.cjs`) | directories, archives, session pointers | create, migrate, complete, switch | no file is lost |
| **Worktrees** (`worktree-safety.cjs`) | branches and trees of agents | clean up a wave, reap orphans | no work is lost |
| **Installer** (`installer-migrations.cjs`) | configuration files, copies, journal, lock | plan, apply, roll back | the user's parts survive; what is recorded as applied is |
| **Configuration** (`config.cjs`, `core.cjs`) | `config.json` of root and workstreams | set, create, load with rewriting | a setting that was set is read back |
| **Upgrade and import** (`roadmap-upgrade.cjs`, `gsd2-import.cjs`) | the whole of `.planning` | renumber, import | in whole or rolled back |
| **Health, drift** (`verify.cjs`, `drift.cjs`) | backups; the map's stamp | check, repair, remap | repairs keep what people wrote, and converge |
| **Surface** (`surface.cjs`) | profile, deltas, runtime directories | choose, apply | what is shown is what was resolved |
| **Learnings, graph, intel** (`learnings.cjs`, `graphify.cjs`, `intel.cjs`) | stores of files | write, copy, prune, build, query, diff | answers follow from what was stored |
| **The rest**: see section 6 | | | |

How the parts interact. A browser page calls the backend through the gateway.
A chat request runs `ChatService`, which commits a user message with a pending
reply, and then calls the coordinator outside any transaction. The coordinator
may run Python: it sweeps expired data, asks the planner, records a
`tool_executions` row, calls the supervisor and stores what came back. Other
requests for the same conversation run at the same time and meet only in
PostgreSQL: through row locks (`SELECT ... FOR UPDATE`), unique indexes, and
what is committed when. Refresh sessions are independent of chat; they meet the
administrator's switch of an account and the provisioning of a password.
Accounts themselves are written by five kinds of transaction that take no row
locks and meet only in unique indexes.

A planning tool is a process that runs one command and ends. Tools meet in
files: some commands take a lock file (`STATE.md.lock`, `.planning/.lock`, the
installer's), most do not, and agents and people write the same files with no
tool at all. The system has no other concurrency there: a model has a small set
of processes, and an action is what happens between two operations on files
that somebody else may come between.

What is hard here: two or more handlers interleave between their transactions;
values are read before a lock is granted and used after it (the clock, the
account); two services lock the same two rows in opposite orders; handlers die
between the provider's answer and the commit; answers are lost; the one retry
the client makes; a page applies an answer to what it shows by then; files and
rows that cannot be changed in one transaction; lock files whose owner died; a
rollback that fails in its turn. The list with line numbers is in
`PROJECT.json` under "hazards".

## 2. The modules

| Module | Models | Status |
| --- | --- | --- |
| `TurnLedger` | abstract: what a conversation promises its owner | checked, refined |
| `ChatTurns` | one conversation under both chat services | checked, proved |
| `ChatTurnsProofs` | its inductive invariant and the refinement | proved |
| `RefreshFamilies` | families and tokens, login, refresh, logout, reset | checked, proved |
| `RefreshFamiliesProofs` | its inductive invariant | proved |
| `PythonExecutions` | executions, snapshot and artifacts of one conversation, the supervisor | checked, proved |
| `PythonExecutionsProofs` | its inductive invariant | proved |
| `BrowserSession` | the page of a browser and its cookie, over `RefreshFamilies` | checked, proved |
| `ChatClient` | the chat workspace of a page over a server that keeps conversations | checked, proved |
| `ChatSession` | the search shell and its retries in place | checked, proved |
| `AdminConsole` | the settings pages of several administrators and the rows behind them | checked, proved |
| `Accounts` | users, roles, scopes and identities under everything that writes them; OAuth transactions and their replay records | checked, proved |
| `DeviceProof` | the device key of several tabs | checked, proved |
| `StateDocument` | STATE.md, its archive and its lock | checked, proved |
| `PlanningTree` | roadmap, requirements, phase directories, and the commands on them | checked |
| `Workstreams` | the directories of workstreams, their archives and pointers | checked, proved |
| `Worktrees` | the worktrees of a wave of agents | checked, proved |
| `InstallerMigrations` | the installer's migrations, their rollback and lock | checked, proved |
| `ProjectConfig` | config.json and the copy of a workstream | checked, proved |
| `RoadmapUpgrade`, `LegacyImport` | renumbering a roadmap, importing a GSD-2 project | checked |
| `Health` | the checks of .planning and their repairs | checked |
| `Surface` | the skills and agents a runtime shows | checked, proved |
| `Learnings`, `KnowledgeGraph`, `IntelFiles`, `CodebaseMap` | four stores of knowledge and what is asked of them | checked, proved |
| `Frontend` | the instances of the browser's modules, side by side | checked; proved but for the types |
| `DocumentTools`, `RoadmapTools`, `KnowledgeTools` | the instances of the tools' modules: those for files that others write as well, for roadmap and phases, for what is known of a project | checked, proved in part |
| `ToolParts`, `PlanningTools` | the variables these share; the three together | checked, proved in part |
| `FrontendProofs` | the inductive invariants of settings, device keys, accounts and the session of a page | proved |
| `ConversationProofs` | those of the chat page and the search shell | proved |
| `DocumentProofs` | those of `StateDocument`, `Worktrees`, `Workstreams` and `InstallerMigrations` | proved |
| `KnowledgeProofs` | those of `ProjectConfig`, `Surface`, `Learnings`, `KnowledgeGraph`, `IntelFiles` and `CodebaseMap` | proved |
| `PlanningProofs` | the theorems of the planning tools, from these | proved |
| other `MC*` | the constants and symmetry of the TLC runs | |

### ChatTurns
`conv` is the conversation row (`deleted_at`, and whether the undo window is
over), `msgs` the committed messages in `sequence_no` order, `req` what each
handler is doing. A transaction that takes the conversation's row lock, does
not call out and commits is one action; a handler that is outside a transaction
(`calling`), or holds a lock while it waits (`resolved`: the message row,
`waiting` and `searching`: the conversation row) stays in `req` between two
actions.

| Code | Action |
| --- | --- |
| `create_conversation`, `create_conversation_with_initial_message` | `CreateConversation`, `CreateWithMessage` |
| `send_message`, `retry_message` up to their commit | `Send`, `Retry` |
| `_complete_turn` | `Resolve` (the UPDATE), `CommitTurn` (the touch and the commit) |
| any other exception, end of the process | `Abandon` |
| `delete_conversation`, `undo_delete_conversation` | `Delete`, `UndoDelete`, `UndoWindowCloses` |
| `submit_turn` without the worker | `SubmitWithoutWorker`, `RetryWithoutWorker` |
| `submit_turn` with the worker | `SubmitSearch`, `RetrySearch`, `SubmitCommit`, `SubmitRollback` |
| its retry waiting for the message row | `SubmitRetry`, `RetryRefused` |
| PostgreSQL's deadlock detection | `DeadlockVictim` |

### RefreshFamilies
`family` and `token` are the rows in order of creation, so a token is its
index; `active` is `users.is_active`; `now` the clock. `LoginChecks` and
`LoginCommits` are the two ends of a login; `RefreshArrives` takes the clock
value the handler will use, `RefreshRefused`, `RefreshReplayed`,
`RefreshInactive` and `RefreshGranted` are the ways its checks end once the row
locks are granted, `RefreshCommits` the rotation. `Logout`, `ResetPassword` and
`SetActive` are transactions of their own.

### PythonExecutions
`session` is the snapshot row, with the identity of the row apart from the
execution that wrote it last; `artifact` the artifact rows with the presence of
their files; `exec` the `tool_executions` rows with the number of times their
code ran; `consumed` the supervisor's memory. A handler's program counter
follows `_complete_python`: `Unlink` and `Plan` (the sweep, then the planner),
`Queue`/`Deny`/`PlannerFails`, `Launch`, the supervisor's answers (`RunsCode`,
`StartFails`, `Refused`, `Unanswered`), then `Unlink` again and `Finish`, or
`Persist`, `LockRow`/`Blocks`/`Unblocks`, `Store`/`StoreConflict`. A file is
unlinked at once, a row is deleted with its transaction: that is why a sweep is
two actions.

### BrowserSession
Composes `RefreshFamilies` (as `Server`) with what a browser adds: `jar` is the
refresh cookie, `page` the controller's `ShellViewModel` with the state React
was last told to show and the call behind `refreshPromise`, `flow` the async
functions of a page (`restore`, `login`, `register`, `logout`, the workspace's
requests), `call` the requests that carry cookies. A flow runs from one `await`
to the next in one step: `Boot`, `Poll`, `Login`, `Logout`, `Register`,
`StartJob`, `SwitchMode` begin something; `Accepted`, `Unauthorized`,
`TriesNewToken`, `Fails` are the answers in `requestWithRefresh`; `Refreshed`,
`RefreshFailed`, `LoginAnswered`, `LogoutAnswered` the answers to calls. A call
is proved, sent (only then it reads the cookie), served and answered; `Lost`,
`ProofFails`, `Reload` and `OrphanEnds` are what goes wrong. Pages keep at most
one flow of each kind, accounts stay active, and the CSRF token always belongs
to the cookie it is read with. `excused` remembers that an answer was lost or
that two pages sent the same cookie: only then may the server see a replay.

### ChatClient, ChatSession
`ChatClient` has the state of `ChatWorkspace.tsx` (`shown`, `listed`, `cursor`,
`draft`, `toast` and its `timers`, the flags that disable a button) and `store`,
the conversations as the server keeps them. `calls` are the requests in flight,
each with the values its closure captured when the handler started, so an answer
meets the page of then with the values of before. `UserStep` starts a handler
(`Submit`, `Retry`, `SelectConversation`, `DeleteVisible`, `UndoDeleted`,
`LoadMore`), `ServerStep` serves a request, may lose its answer, or fails it, `HandlerStep`
runs a handler from one `await` to the next, `TimerFires` closes the toast.
`ChatSession` is `ChatSessionController`: `model` is its state and `view` the
snapshot React was given, which lags behind until a call ends; `context` is
`retryContext`; `rows` the turns the server has. Local and server ids are kept
apart, because a retry names one of them to the server.

### AdminConsole, DeviceProof
`stored` are the two rows of settings, each written by its own transaction;
`console` what each page holds. A GET reads the two rows apart
(`GetReadsGuardrail`, `GetReadsOverride`), a change commits one and then reads
the other (`Commits`, `ReadsOther`), and the answer replaces what is shown
(`Answered`). In `DeviceProof` a tab's `keyPairPromise` is a program counter
(`Starts`, `Finds` or `FindsNone`, `Saves` or `Unsaved`), `slot` the one record
of the database and `bound` the key of the session that the tabs' cookie names.

### Accounts
`account` holds the user rows with their scopes and linked subjects, `record`
the replay records, `cookie` the transaction in the browser's state cookie, `job`
what each handler or script has read. A callback looks for the record
(`FindsReplay`, `FindsUnused`), inserts it (`Consumes`, or `ConsumeFails` on the
unique index), commits, asks the provider (`Authenticated`), and then searches
by subject and by address (`FindsIdentity`, `FindsEmail`, `FindsNoEmail`) before
its one write (`SignsIn`). `UpdateUserAccess`, `BootstrapAdmin` and
`EnsureDemoAccounts` list what accounts shall be; `ReadsRow` and `ReadsScopes`
are the two SELECTs of one bundle, and `Writes` is the commit, in which a column
changes only if it was to differ from what was read, and scopes are deleted and
inserted one by one. `lapses` remembers the four things that the isolation level
(read committed, no row locks) lets come between: another commit between the two
SELECTs, a caller who is no administrator any more, two first uses of one
transaction, two links to one account.

### The planning tools
Each command is a program counter of its process, in `job`, `work`, `call`,
`cmd` or `chain`, with what it has read; reading a file and writing it are two
actions whenever another process can come between. `Crash` (`Killed`, `Dies`)
ends a process at any of them and leaves lock files, temporary directories and
half of the files behind. History variables (`recorded`, `asked`, `files`,
`made`, `wrote`, `promised`, `kept`, `seen`, ...) remember what a property is
about and no action reads them.

| Module | Code | Actions |
| --- | --- | --- |
| `StateDocument` | the `state` commands; `acquireStateLock` | `Start`, `Acquire`, `FindsStale`/`UnlinksStale`/`GivesUp`, `Read`, `Write`, `Release`, `ReadArchive`/`WriteArchive`, `SignalWaiting`/`SignalResume` |
| `PlanningTree` | phase add, insert, remove, complete; roadmap annotate and progress; requirements; phases clear; milestone complete; `withPlanningLock` | `Start`, `Acquire`/`Unseats`/`Release`, `Make`, `Read`, `WriteRoadmap`, `BeginComplete`/`WriteFile`/`WriteFails`/`Undo`, `Delete`/`Rename`/`CountDown`, `Consult`/`Check`/`Archive`/`CloseMilestone`/`MoveDirs`/`Clear` |
| `Workstreams` | workstream create with migration, complete with undo, set, get | `Create`, `MigrationBegins`, `Complete`, `ChooseArchive`, `Move`/`MoveFails`/`Undo`, `Switch`/`Point`, `Consult` |
| `Worktrees` | `cleanup-wave`, `reap-orphans`, git's pruning; the agents | `Verify`, `CheckDeletions`, `Rescue`, `CheckStatus`, `Merge`, `Remove`, `DeleteBranch`; `Reaps`, `Judge`, `Reap`; `Prune` |
| `InstallerMigrations` | planning, applying, rolling back, later rollback, the install lock | `Plan`, `CopyAside`, `Change`, `Breaks`, `Record`, `Restore`/`Restored`, `UndoFile`/`UndoState`, `Create`/`WritePid`/`FindsDead`/`Reclaim` |
| `ProjectConfig` | config-set, set-model-profile, new-project, loadConfig, migrate-config | `Look`, `Create`, `Lock`/`TakeOver`, `ReadToSet`/`WriteSet`, `LoadRoot`/`SaveRoot`, `Load`/`Save`, `Migrate`/`Truncate`/`Rewrite` |
| `RoadmapUpgrade` | `roadmap upgrade`, dry run, rollback through git | `Begin`, `Apply`, `RenameDir`, `EditRoadmap`, `EditRefs`, `SetConvention`, `Fail`, `RollBack`/`RollBackFails` |
| `LegacyImport` | `from-gsd2` | `Import`, `WriteNext`, `Killed` |
| `Health` | `validate health` (each check an operator), its repairs, `validate consistency` | `Check`, `ResetConfig`, `ReadForKey`/`AddKey`, `NoKeyNeeded`, `BackUpState`/`RegenerateState`, `ReadRegistry`/`Backfill` |
| `Surface` | profile, enable, disable, reset, apply; a new version | `SetProfile`, `Disable`, `Enable`, `Install`, `Copy`, `Prune` |
| `Learnings` | write, copy, prune, delete | `Scan`, `WriteOne`, `Index`, `CopySection`, `PruneReads`, `PruneUnlinks`, `Delete` |
| `KnowledgeGraph` | build chain, snapshot, query, status, diff | `Update`, `Truncate`, `Copy`, `ReadForSnapshot`/`WriteSnapshot`, `Query`, `AskStatus`, `AskDiff` |
| `IntelFiles` | patch-meta, snapshot, api-surface, diff, status, validate, query | `BeginPatch`/`WritePatch`, `BeginSnapshot`/`WriteSnapshot`, `BeginSurface`/`WriteSurface`; the questions are operators |
| `CodebaseMap` | verify codebase-drift, the mapper and its stamp | `GateReads`/`GateJudges`, `MapAll`, `Remap`, `MapperWrites`, `Commit`, `CheckOut`, `Lose` |

What the models of the tools say of text is what commands do with it: a phase
is its number and who it is about, a file the set of its parts, a graph its
nodes and edges, a learning its hash. Reading order, fallbacks, and what happens
to a line that is matched twice are kept.

**Excuses.** Most commands take no lock, and for several hazards the code does
not hold what one would wish: two processes that both find a lock stale, a
rewrite between another's read and write, git state that was thrown away. Such
an event is recorded at the action where it happens, in the last variable of a
module (`excuse`, `upset`, `lapses`, `losses`, `flaws`, `damage`, `overlaps`,
`strays`, `mixed`, `over`), and the property that it can break names it: the
property then says that nothing else breaks it. An excuse is a sharp condition
(which event, of whom, between which two steps), the comment above each property
lists those that count, and section 5 those worth a reader's attention.

## 3. The runs

| Run | Bounds | Shows |
| --- | --- | --- |
| `chat_turns` | 3 handlers, 3 client ids, 6 messages (3 turns), crashes | the safety of the log, and that it implements `TurnLedger` |
| `chat_turns_live` | 3 handlers, 1 client id, 4 messages, no crashes, fair | turns settle, locks are released |
| `chat_one_in_flight` | 2 handlers, 2 client ids, 4 messages | a disagreement, see section 5 |
| `chat_pending_resolves` | 2 handlers, 1 client id, 2 messages, no crashes, fair | a disagreement |
| `refresh_families` | 1 user, 2 keys, 2 handlers, 3 tokens, idle and absolute lifetime 2, clock to 2 | families stay chains and stay revoked |
| `python_executions` | 2 handlers, 2 executions, lifetime 2, clock to 3, crashes | code runs once, evidence is final, one shared expiry |
| `python_settles` | 2 handlers, 2 executions, lifetime 1, clock to 2, no crashes, fair | every execution gets its outcome |
| `python_retry`, `python_payload` | 2 handlers, 2 executions | disagreements |
| `frontend` | see below | the five modules of the browser, and the accounts |
| `browser_return` | 1 page, as in `frontend` | a disagreement |
| `gsd_tools` | see below | the fourteen modules of the planning tools |

Why the bounds are enough to be interesting. Three turns of three handlers
give an old failed turn retried below two newer ones, one of them in flight,
while the conversation is deleted. Three tokens and two handlers give a race
of two refreshes, a replay of the loser, a logout between the locks and the
commit, and with the clock every order of the two expiries; the proofs cover
more families, tokens and users than TLC can. Two executions are the least
with an overlap; a clock one step beyond the lifetime lets each of them expire
under the other.

**`frontend`** runs the five modules of the browser and `Accounts` side by side:
the initial state chooses `part`; two parts never run together, so they share
the variables `v1` to `v19`, and each `INSTANCE` in `Frontend` says which is
which. Each property of the run says what it says of the part it belongs to. `TypedOnce`
joins `SendsOnce` of the chat page and `StoredOnce` of the search shell,
`ShownAsStored` joins `PendingIsBacked` and the search shell's property of that
name, `PageIsCurrent` joins three of the chat page,
`SessionIsUsable` joins `KeyFits` of the device keys and `JarKeepsUp` of the
session, `AccountsHold` joins the five of `Accounts`. The chat page has two
existing conversations and one to come, a list of pages of one, two requests at
a time, two prompts and one lost answer: enough for a second deletion under the
toast of the first, an answer to a conversation left meanwhile, a page of the
list that moves under the cursor. The search shell types three prompts, sends
four and loses two answers, so a retry meets a stored turn and a second retry
the first's late answer. Two consoles make two changes with one failure; two
tabs make up to three keys, lose one record, reload twice. In the session part
three tokens are a session to restore, its rotation and another login; a reload
makes two pages of one, because what the old page sent is still answered beside
the new one. Accounts begin with an empty database or a user and an
administrator; two addresses, two subjects, two OAuth transactions and two
handlers with three commands between them are the least with two links to one
account, a demotion under the caller, and a seed over a change.

**`gsd_tools`** runs the fourteen modules of the planning tools in the same way.
They share the variables `v1` to `v12` (`ToolParts`); the instances, the constants
of the parts and their assumptions are in `DocumentTools`, `RoadmapTools` and
`KnowledgeTools`, which `PlanningTools` puts side by side. The instances start
from directories with something for each command to find: a roadmap whose
second phase has no directory and that has a backlog item; old roadmaps with
the newest milestone first, a phase before any milestone and numbers that start
again; four ailing projects; versions of the product with skills that require
each other; two graphs with parallel and dangling edges. Two commands run at a
time, with a crash or a fault each of the kind a module names. A property of the
run joins the properties of one part (`PlanIsWhole`, `HealthRepairs`) or of
several that say the same (`UpgradeIsWhole` of upgrade and import,
`KnowledgeIsKept` of learnings, graph, intel and map). Parts in which an excuse
covers every property (tree, streams, worktrees, installer, map, and the
takeover of a lock in state) are not followed beyond the first excuse: nothing
could be violated there. Settings are followed beyond `"multirepo"` only.

`MaxFaults`, `MaxMishaps` and the like count crashes, failing operations and
what else is not a command. All bounds are guards on growth, so a run stops
growing but no other step is suppressed; deadlock is not an error, because a
system at its bound, or with nothing left to ask, stops.

Fairness. Provider, planner, worker and supervisor calls have timeouts in the
code, and PostgreSQL breaks a deadlock after `deadlock_timeout`: weak fairness
of the steps that follow. A row lock is granted in the order of the waiters'
queue, so a waiter is not overtaken for ever: strong fairness of the steps
that wait for a lock. Clients are never obliged to do anything, so no first
step of a request is fair. The planning tools promise nothing in time: a lock
there is waited for a number of tries and then given up or taken over, and a
command that is killed is not run again by anyone; they have safety only.

## 4. What is proved

`ChatTurnsProofs`, from the three assumptions on the constants: the inductive
invariant `IInv` strengthens the checked invariants with what the services
rely on between two transactions (a handler in flight owns a pending message
whose neighbour is its prompt; a handler that holds a message row excludes
another that wants it; a client id is in the log once). From it follow type
correctness, `OneWriterPerTurn`, `LogIsWellFormed`, `PromptIsOwnUserMessage`,
`FirstAttemptsNeverOverlap`, the action properties `HistoryIsFinal` and
`DeletedIsClosed` (whoever holds the conversation's lock between two steps of
one transaction found it not deleted), and that each step is a step of
`TurnLedger` or leaves it unchanged (`ImplementsLedger`).

`RefreshFamiliesProofs`, likewise: a handler between its locks and its commit
is alone on its family, and the family, the token and the key it checked are
still what they were. From it follow type correctness, `FamiliesAreChains`,
`ExpiryNested`, `RotationIsEarned` and the action property `RevokedIsFinal`.
This holds for any number of users, keys, handlers, tokens and any lifetimes.

`PythonExecutionsProofs`, for any number of handlers, any session lifetime and
any clock. `AtMostOneRun` and `KeptTogether` are not inductive; `IInv` adds that
an open execution belongs to one handler, that code has run only where the
supervisor remembers the jti or has forgotten it in a restart, that an accepted
outcome in a handler's hand comes from code that ran, and that a handler with an
uncommitted `DELETE` is the only one that holds the row, which had expired by
the clock it read. The last part is what carries `SharedWindow` over a store: a
handler that finds no row either deleted it itself or meets the unique index,
and its clock is never ahead of the present, so all that has not expired takes
over the new date. From it follow type correctness, `AtMostOneRun`,
`KeptTogether` and the action property `OutcomeIsFinal`.

The rest is about the compositions `Frontend` and `PlanningTools`, whose
constants the assumptions `FrontendConstants`, `DocumentConstants`,
`RoadmapConstants` and `KnowledgeConstants` describe: what is proved holds of the same specification that
the runs `frontend` and `gsd_tools` check. An invariant speaks of one part, and
the proof starts with the variables given back their names. `DocumentProofs` and
`KnowledgeProofs` prove of each part that its invariant begins true, is kept by
its steps and implies its properties; `PlanningProofs` joins them in `ToolsInv`
and draws the theorems.

`FrontendProofs` on the pages: `SettingsAreStored`, for any consoles and values,
and `DeviceKeyFits`, half of `SessionIsUsable`, for any tabs and keys.

On a session (`BrowserSession`): `SessionIsUsable`, `ReplayIsExcused` and the action
property `SignOutEndsCookie`, for any pages, users, jobs, calls, tokens and faults.
That the cookie keeps up with the server is not inductive. A page has one refresh
under way, the one behind its promise (`Promised`); two refreshes that carry one
token are therefore of two pages, or one outlived a reload, and `excused` says so
(`OneBrings`); a token on its way to the browser is unused and not carried by any
call (`Fresh`), so a cookie that was rotated has its replacement under way
(`JarReplaced`), and a call that carries a rotated token of a live family is
excused (`NoneIsStale`). A logout that was answered has ended its family
(`LogoutsEnd`), and a page that is signed out shows it (`Honesty`): without the
latter a failed logout could turn a page to signed out.

`ConversationProofs` on the chat page (`ChatClient`): the chat's share of `TypedOnce`, `ShownAsStored` and
`PageIsCurrent`, for any conversations, sizes of a page of the list, prompts,
requests in flight and faults. `ChatInv` has three parts, each about what the
calls in flight carry.

* `SendInv`: one submission is under way at a time (`OneSender`), no two turns of a
  conversation share a client message id (`KeysApart`), and a prompt that is stored
  is back in the composer only if an answer for a stored turn was lost
  (`PromptsOnce`).
* `NavInv`: until one is overtaken, one call at a time decides what the page shows
  (`NavAlone`); a turn pending on the server is worked on by a call that is still
  to answer (`PendingAtWork`), so an answer that is read shows none; and a call
  brings the conversation chosen last (`NavCall`): for the first message of a new
  one that failed, it is the newest of the list that `recoverPersistedFailure`
  reads (`RelistCall`).
* `DeleteInv`: what the page or the sidebar shows is active, or the answer to its
  deletion is still to come (`Deleting`).

The first attempt at the last failed. While the answer to an undo is on its way,
the list can be loaded again, the conversation deleted a second time and that
answered first; `undoDeletedConversation` then puts the deleted conversation back
in the sidebar, with no toast to undo it. TLC finds that behaviour
once `MaxAsks` is 4, one request of the page more than the run allows.
`NothingDeletedIsShown` now excuses it (`"undoing"`), and says so.

On the search shell (`ChatSession`): its share of `TypedOnce` and `ShownAsStored`, for
any prompts, submissions, losses and requests. One request is under way at a
time (`OneRequest`); what it asks for is stored nowhere before the server takes
it, and the draft nowhere unless its answer was lost (`AsksNew`, `StoredApart`);
a request for another try names the reply it replaces (`AsksAgain`), and each
stored reply stands below its prompt (`RepliesSound`).

`FrontendProofs` on accounts: `AccountsHold`, for any databases the code can start from
(`Consistent`: roles have their scopes, subjects one account), any addresses,
subjects, handlers and transactions. None of its five parts is inductive. What a
script has read but not yet written has to agree with the accounts it will
write (`JobsOK`), a bootstrap has to be alone (`OneScript`) and to meet no
administrator (`NobodyYet`), a callback past the consumption of its transaction
has to be the only one (`FlowsOK`); and that an administrator remains needs that
whoever demotes one is another who can still write (`AdminStays`), up to the lapse
that the isolation level allows.

`DocumentProofs` on STATE.md: `StateIsKept`. Whoever is between taking the lock and
releasing it has its number in the lock file (`HoldersHold`), so what it has
read is what it replaces (`ReadIsCurrent`), and of all commands only those that
resolve and prune take entries away (lemma `Transforms`); the prune has them in
hand until they are in the archive (`LinesWait`).

On worktrees: `WorkSurvives`. What the cleanup has looked at is still as it
was when it acts on it, unless the agent went on (`LookedAt`: the SUMMARY it
rescued is the last, nothing is left uncommitted, the branch is merged before
worktree and branch go), and nothing is rescued before it is written
(`NoneAhead`).

On workstreams: `FilesSurvive`. Until two commands overlap there is at most one
at work, and the files it may have to move back are all in one of the two
directories it moves between, where no two files have one name (`Carried`,
`AtWork`); without the second a move would overwrite. An archive's suffix is
below the number of commands so far (`Directories`), so there is a free one: the
smallest free suffix exists because a set of naturals has a least element.

On the installer: `MigrationIsWhole`. An invariant of a single
run does not carry it, because a rollback may have to be made up for by a later
one, for which another run's copies are put back. Until installers overlap, the
one that holds the lock is the only one to change files, besides one later
rollback (`Apart`). A rollback copy holds whatever of the user's its file held
when it was changed (`Copied`), and nothing drops it before its file is put back
(`UserKept`). What a run will record is either done or still in its plan
(`Records`). The delicate part is what rolling back undoes: a copy that is put back
is clean of everything the record names (`CopiesClean`), unless a later rollback is
on its way that takes the name out of the record (`Withdrawn`, `RecordKept`). No
limit on installers, runs or failures is used.

`KnowledgeProofs` on config.json: `SettingsHold`. Its second and third part, that
rewriting keeps what a file says and that a workstream inherits, are facts about
the operators, key by key (`NormalizedIsWritten`, `InheritsSettings`), for every
file of the shape `Whole`. For the first, a config-set that is between reading and
writing has the lock (`SettersLock`), and whoever else is about to write writes
what follows from the file as it is now, or has been overtaken and says so in
`raced` (`WritesFollow`); a migration that truncated the file has in hand what is
to come back (`Doomed` names the one that has not). Rewriting keeps each setting
config-set stores (`KeepsSettings`), but `planning.commit_docs` only while no
list of repositories is found: the excuse `"multirepo"`. No limit on processes,
calls or crashes is used.

On a runtime's directories: `SurfaceHolds`. A run copies and prunes one directory
after the other; those it is done with show what it resolved (`DoneWith`), as
long as nothing could not be removed (`whole`), and what it resolved is what
surface, marker and product still say (`Running`). That what is shown is closed
is a fact about the closure, whose rounds are counted by the number of skills
(`ClosureFacts`, `ResolvedIsClosed`); it needs that a version of the product ships
what its skills require (`SurfaceConstants`). That the user's own entries stay is
that nothing of theirs passes for the product's (`OwnIsNotOurs`).

On what is known of a project: the four parts of `KnowledgeIsKept`, one by one.

* Learnings: a process that has looked knows of every learning in the store, or
  another process stored it since and the model names that hash in `overlaps`
  (`Looked`); what a process stored itself it does not store again (`KnowsOwn`), so
  of two copies each is by another process.
* The graph: a query's answer is compared with its declarative description for every
  graph, term and budget. The walk finds every node within two hops
  (`WalkFinds`), of parallel edges it keeps the first (`FirstOfFirst`: a set of
  positions has a least one), and the three cuts leave what fits (`CutsFit`);
  `FoundAnswers` puts them together. `FreshIsCurrent` needs that no graph is of a
  later commit than the one checked out (`InTime`), which going back breaks, and
  `BaselineIsNoLater` that graphs only ever get later: what `graphify` left is the
  last one made, and what was read for a snapshot, or is the snapshot, is no later
  than `graph.json` (`InOrder`). It needs no excuse.
* Intel files: what a snapshot says it holds is what the files held when they were
  read (`Snapshots`), and the banner of a surface is about its symbols (`Banners`).
* The codebase map: while nothing has strayed, each file of the commit on a map's
  stamp was seen by a mapper or is covered (`MapIsThorough`), and the same holds
  of what a mapper has in hand (`MapperIsThorough`) and of the gate's last verdict
  (`SaidIsThorough`). The first attempt failed here: a mapper that is sent by a
  verdict on another map than the one it extends leaves files out on one
  unchanged commit. The model's excuse now names that case, and so does the
  property's comment.

Two things were changed so that this could be proved: the three cuts of a graph
are three definitions in place of a fold over a list of three, and constants got
the shapes their instances always had (`GraphConstants`, `SurfaceConstants`,
`ConfigConstants`, `CodebaseConstants`).

Only model-checked: liveness under fairness (out of the prover's reach); the types
of `Frontend` and `PlanningTools` (that of STATE.md sums over a set, and what a
fold returns needs induction over data); and of the planning tools `PlanIsWhole`,
`UpgradeIsWhole` and `HealthRepairs`. The renumbering of a roadmap counts lines
(`FoldLeft`, `Cardinality`), the import of a GSD-2 project flattens sequences of
sequences, and the commands on a roadmap and the repairs of its health move
whole tables of phases at once: what they promise of every input is an induction
over data. Their instances are small because the faults are about one or two
processes and a handful of files; what TLC cannot show there is that a third
process adds nothing.

## 5. Disagreements met while modelling

Shown by a run:

* Phase 2's D-12 allows one in-flight turn; a retry of an old failed turn runs
  beside a newer one (`OneInFlightTurn`).
* A pending row may stay pending although no process died: `_complete_turn`
  locks message then conversation, a `submit_turn` retry the other way round,
  and the database kills one of them (`PendingTurnResolves`).
* Phase 4's D-07 retries a failed start once; the retry carries a capability
  that is used up and is refused (`RetryIsAdmitted`).
* Phase 4's D-17 keeps a payload until its expiry; a store that took its clock
  before another turn's sweep extends an artifact whose file is gone
  (`PayloadUntilExpiry`).
* The UI specification of phase 1 gives `registration_accepted` a
  return-to-login action; its button calls `setAuthMode`, which never leaves
  that state (`ReturnsToLogin`).

Met in the browser's and the accounts' modules and not made a run:

* The sign-in form is enabled before the restoration has ended (the first
  poll's snapshot is shown while the controller is already `checking_session`),
  where `01-UI-SPEC.md:401` says not to render it; a refresh that is answered
  after a logout leaves its token with the signed-out page.
* `ChatWorkspace.tsx:909-913`: after a failed first message the newest
  conversation of the list is taken for the failed one. The undo toast outlasts
  the server's six-second window.
* `chat-session.ts:445`: the retry of a turn with a local id names that id to
  the server and can never succeed; at `:456` a failed direct turn overwrites a
  draft typed meanwhile.
* `admin_evidence.py:371`: two administrators who demote each other at once both
  succeed, and nobody is left; `get_user_bundle_by_id` reads role and scopes in
  two statements, and a change committed in between can leave a role with the
  scopes of the other. `:387-391` compares a sorted list with `ADMIN_SCOPES`,
  which is not sorted, so giving the role "admin" always reports changed scopes.
* `sessions.py:88`: the second of two simultaneous first uses fails on the unique
  index with an error and leaves no record of a replay.
* `oauth_service.py:138`: two callbacks at once can link two subjects of one
  provider to one account; no unique index forbids it.
* `AccountAccessShell.tsx:434-441` makes a new `onSessionExpired` at each render,
  so each readiness poll loads the list of conversations again.
* `docs/security.vi.md:38` and `.planning/STATE.md:87` say the device key is
  kept in memory only; `device-proof.ts` stores it in IndexedDB.

Met in the planning tools (`gsd-core/bin/lib`):

* `phase.cjs`: removing a decimal phase renumbers only some of the references,
  where `remove-phase.md` says all are.
* `phase remove` renumbers the roadmap and the directories of `phases/`, not those
  a closed milestone archived, which `findPhaseInternal` (`core.cjs:866-898`)
  searches next: after `milestone --archive-phases` and `phase remove 2`,
  `phase complete 2` finds the archived directory of the removed phase and marks
  the phase that took its number. TLC finds it once three commands run on a
  roadmap whose phases all have directories (the excuse `"archived"`).
* `worktree-safety.cjs:491-500`: a rerun after a blocked cleanup stops at
  entries that an earlier run has finished; `execute-phase.md:760-761` tells the
  agent to rerun. Two completions of one workstream on one day can lose the
  first one's archive.
* `installer-migrations.cjs:513-562`: the later rollback deletes its copies even
  when a restore failed, and runs without the lock.
* Configuration: `loadConfig`, `migrate-config` and `config-new-project` write
  without the lock that `config-set` takes. `new-project.md:821` says a
  multi-repository project gets `planning.commit_docs` false, but the flat
  `commit_docs` true that is written takes precedence (`planning-config.md:382`).
  `migrate-config` overwrites an explicit `planning.sub_repos` that `loadConfig`
  keeps.
* `roadmap upgrade`: a rollback through git restores nothing of a `.planning`
  that git ignores, and still says "rolled back"; in a roadmap with the newest
  milestone first a prefixed reference can be renumbered twice; a crash after
  the roadmap was written is taken for "already migrated".
* `verify.cjs:1070` repairs nothing on `--backfill` alone, which the fix text of
  W018 (`verify.cjs:1000`) and `workflows/health.md:181,195` recommend. The
  snapshot of v1.1 is taken for registered when the registry names v1.10. A
  config reset lacks a key that the next run then has to add.
* `surface.cjs`: the header says the set is closed over the manifest's
  requirements; disabling or removing a skill leaves those that require it. In a
  directory of commands every `.md` that was not staged is deleted.
* `graphify.cjs:471-496`: the chain writes its snapshot after the new graph was
  copied, so `diff` after a build compares a graph with itself, where `:389` and
  `gsd-graphify/SKILL.md:136,191` expect the changes since the build before. No
  property requires the one or the other; `BaselineIsNoLater` says what both
  share, that a diff's baseline is never later than the graph.
* `verify.cjs:1125-1132,1149-1156,1184-1198`: a repair that adds a key or a
  registry entry reads a file and writes it back whole, so a `config-set` or a
  completed milestone in between is lost (the excuses `"config"` and `"registry"`
  of `Health`).
* `agents/gsd-intel-updater.md` writes `files.json`, `apis.json`, `deps.json`;
  `intel.cjs:24-30` reads `file-roles.json`, `api-map.json`,
  `dependency-graph.json`: the status is always stale and the surface
  incomplete.
* `learnings.cjs`: a prune whose file vanished between its read and its unlink
  gives up the rest.
* `gsd2-import.cjs`: slice-level plans and summaries and a task's summary without
  a plan are dropped without a word; a killed import is refused until forced.
* `drift.cjs`: a new directory below any directory the map mentions is never
  reported; a remap with `--paths` stamps the whole map.
* `shell-command-projection.cjs:491-506`: when the temporary file or the rename
  fails, `platformWriteSync` falls back to writing in place, which truncates the
  original first; the models take it as one step.

## 6. What is not modelled

Left out everywhere: text (prompts, replies, titles, log lines, prose of plans),
the bytes of snapshots and files, signatures and hashes (a token is its
identity), the schema of answers, dates beyond their order.

Components without a module, and why:

* The sandbox's container runtime: one process per execution under the limits of
  the operating system.
* Access tokens and authorization, the search worker, configuration, readiness,
  logging, tracing: pure functions of a request, a token or a provider's answer.
* Gateway and attack detection, deployment and tests: rate limits and
  configuration outside the program.
* Planning tools that only read (`init.cjs`, most of `commands.cjs`, `audit.cjs`,
  `uat.cjs`, the other checks of `verify.cjs`), that dispatch (`gsd-tools.cjs`)
  or that turn one text into another (`frontmatter.cjs`, `template.cjs`,
  `docs.cjs`, `profile-*.cjs`): no state of their own. What they read is
  modelled where it is written.
* Agents, workflows and hooks: instructions to language models. Where a tool
  depends on an agent, the agent is an action that may do or leave out each
  thing it is told.

Partly modelled: login (a password is right or wrong), the coordinator (its
Python branch), the supervisor (one execution as its client sees it), the browser
session (no OAuth redirect), workstreams (not their inventory), health (not the checks that only read).
