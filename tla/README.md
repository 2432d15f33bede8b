# Specifications of api-flow-tester

TLA+ models of the scenario runner and of the web application around it, the
TLC configurations that check them on small instances, and proofs of the main
safety results for every instance, checked by TLAPS. Paths below are relative
to the repository (`tools/`, `webapp/`, `bin/`).

Check a module with `tlc -config X.cfg M.tla` and a proof module with
`tlapm M.tla`. `PROJECT.json` lists the runs, the lines each definition models,
the findings, the hazards and the theorems.

## 1. The system

api-flow-tester runs *scenarios*: JSON documents with a list of HTTP, exec,
sleep and prepare steps, and *collections* of scenarios. A command-line runner
executes them; a web application edits them, tests single steps, starts runs
and shares collections between users.

| part | state | operations | talks to |
| --- | --- | --- | --- |
| one run (`tools/scenario_runner.py`, `execute_scenario`, `run_worker`) | per worker a context of variables; shared under one lock: the aggregate of counters and the captured variables | start workers, run steps, record, capture, join, report | the system under test; the collection loop |
| collection loop (`main`) | `extra_env`, `child_results`, `skip_remaining` | load members, run or skip each, export variables, write scenario.json, exit code | `execute_scenario`, files |
| `bin/run.sh` | the result folder | call the runner, copy or replace its result, exit code | runner, ApacheBench |
| `start_run` (`webapp/app.py`) | none of its own | materialise a scenario, call run.sh, read summary.json, answer | run.sh |
| step tests (`webapp/app.py`) | a context per request | test_step, test_sequence, preview_step | `run_step`, the key store, the metadata servers |
| step execution (`run_step`) | context variables, the session | prepare, request, follow redirects, poll, evaluate, save, retry with a nonce | the system under test |
| key store (`tools/oauth_helpers.py`) | name to DPoP key, one lock | get, reset | worker threads and web requests of one process |
| metadata servers (`tools/oauth_helpers.py`) | two registries, one lock | start, reuse, stop all | worker threads and web requests of one process |
| folders (`webapp/explorer.py`) | rows with a name and the *path* of the parent; collections with the path of a folder | create, rename, move, delete, file | database sessions of concurrent requests |
| collections, scenarios, sharing (`webapp/workspace.py`, `webapp/explorer.py`) | collection documents and scenario rows, environment values per user, shares | save, attach, rename, delete, share, fork, diff, sync | database |
| login (`webapp/auth.py`) | the session, a state cookie, user rows | login, callback, resolve user | OIDC provider |
| editor (`webapp/static/app.js`) | open document, dirty flags, environment values, run state | load, edit, save, reorder, preview, run | all of the API |
| importers and exporters | none | convert formats | |

### What is hard here, and what makes each part correct

- **One run.** Worker threads share counters that are updated field by field
  and a map of captured variables that is cleared and refilled; the caller
  gives up on a worker after a timeout and then reads both without the lock. A
  step may raise, which kills a thread silently; the deadline may pass between
  any two steps. Correct means: the counters add up, the report counts exactly
  what was recorded when every worker was waited for, PASS is never printed over
  a recorded failure, the exported variables are those of one finished worker,
  the run always concludes.
- **Collections.** Members feed variables to later members; a member can fail,
  die, hang, be missing, or end the whole process. Exit codes pass through three
  programs. Correct means: no value of a failed member is used, every member
  is reported once and in order, "completed" means a clean report.
- **Keys and metadata servers.** Process-wide stores used by every thread and
  request. Correct means: nobody's key changes under a token except by an
  explicit reset, no server leaks, no URL of a stopped server is handed out.
- **Folders.** The tree is held together by path strings that each rename and
  move rewrites, in requests that check first and commit later. Correct means:
  the tree shows every folder, each shown path names one folder, what is shown
  stays in its folder and stays shown, only empty folders are deleted.
- **Step execution.** A server may redirect anywhere, answer a poll with
  anything, ask for a nonce or not answer; each of these is handled in another
  function, and what the last of them leaves behind is saved and judged. Correct
  means: a step passes on the last answer it got, saves from that one and its
  URL only (but for a query parameter that this URL lacks), does not carry its
  body or itself where it may not go, and ends.
- **Collections and sharing.** Who may read, edit, or see the owner's values is
  read when a request starts and used when it writes; forks and pulls copy what
  others may be changing; sharing can end and begin again. Correct means: only
  those allowed change a collection, stored values outlive every change of the
  sharing, a pull leaves no difference, the files of a run have distinct names,
  and no request fails that meets no other.
- **Login.** The session travels in a cookie that every answer replaces as a
  whole; the states of logins are kept twice; first requests of a user race to
  make the row. Correct means: one row per subject, a browser is signed in only
  by a login it began, a logout is final unless an answer was still out, a
  browser that does one thing at a time is let in.
- **Step tests and environments.** A test of single steps and a preview take
  other ways through the code than a run, with defaults, hosts and checks of
  their own. Correct means: both see the same variables, hosts and values, and
  what the check for missing values lets through is rendered without a gap.
- **Editor.** Answers reach the page in any order; not modelled.

## 2. Modules

| module | models | state corresponds to |
| --- | --- | --- |
| `RunReport` | what one run promises (abstract) | `history` the executions each worker has recorded, `waited` the workers the run has seen end, `phase`, `verdict` the report |
| `ScenarioRun` | `execute_scenario`, `run_worker`, `StepStats`, the verdict of `main` | `pc` where each thread is; `lock`, `entries`, `stats`, `exported` the shared data; `main`, `joining`, `report`, `result` the caller |
| `ScenarioRunProofs` | inductive invariants, theorems, refinement of RunReport | |
| `SuiteReport` | what a collection run promises (abstract) | |
| `CollectionRun` | the member loop of `main`, run.sh, start_run | `bound`, `source` = `extra_env` and where each key is from; `results` = `child_results`; `skip`; `code`, `status` the exit codes and the answer |
| `CollectionRunProofs` | inductive invariant, theorems, refinement of SuiteReport | |
| `HttpStep` | one HTTP step: `run_step`, `run_http_step`, `smart_follow`, `run_poll_step`, `evaluate_expectations`, `apply_save`, the nonce retry | `pc` where the step stands; `request`, `hops` the request that is out; `last`, `final`, `text` what `run_http_step` returns; `saved` the context variables |
| `HttpStepProofs` | inductive invariant and theorems of HttpStep | |
| `DpopKeys` | the key store, its callers, the nonce retry | `store`; per client its key's proof and token |
| `CimdServers` | the metadata servers | `registry`, `servers` the registries and what they hold, `open` the sockets; what each request does |
| `OauthHelpersProofs` | inductive invariants and theorems of DpopKeys and CimdServers, which have no names in common so that one module may extend both | |
| `Folders` | the folders of a workspace | `parent`, `name`, `filed` the rows; `tx` the uncommitted request of each client |
| `FoldersProofs` | inductive invariant and theorems of Folders | |
| `Workspace` | collections, scenarios, values, shares: the handlers of `webapp/workspace.py` and `webapp/explorer.py` | `rows` the five tables; `tx` what each user's request is about to write: Check reads and prepares, Commit or RollBack ends the session of `get_db` |
| `WorkspaceProofs` | inductive invariant and theorems of Workspace | |
| `EnvValues` | the values of an environment as operators: defaults, overrides, expansion, the host, missing names, for a run (`RunPrepared`) and for a test (`TestPrepared`) | |
| `StepTest` | `test_step`, `test_sequence`, `preview_step` beside the worker of a run of the same scenario | `context` what the preparation made; `at`, `executed` how far it is; `vars` the context variables; `results`, `history` what each request answered and left |
| `StepTestProofs` | inductive invariant and theorems of StepTest | |
| `Login` | `login`, `auth_callback`, `logout`, `get_or_create_user`, the session middleware | `session`, `saved` the cookies `aft_session` and `aft_oidc` of each browser; `req` each request with what it carries and where it stands; `rows` the users; `redeemed` the codes used |
| `LoginProofs` | inductive invariant and theorems of Login | |
| `MC...` | instances for TLC | |

Each handler is one action, split only where another thread or request can come
between two of its accesses: around the lock of a run, between the two
assignments under it (the caller does not take the lock), between
taking the metadata servers out of the registry and the shutdown of each, between the
reading and the commit of a request, and between the exchange of a code, the
query for the user, the insert and the answer. `execute_scenario` is one action of
CollectionRun, whose outcomes are those ScenarioRun shows to be possible.

Operators commented "Fault:" are small variants of the definition that follows
them, each a plausible bug; the runs must detect each of them. They are not
part of the model.

### Abstractions

- Time in ScenarioRun is one flag, "the deadline has passed"; the join timeout
  is longer than the run, so it fires only after that.
- A step is its name, its stop rule and whether it may raise; its outcome is
  any of the three `run_step` can return. A context is a version number.
- In HttpStep answers and URLs are numbered by the request they answer, so a
  value shows where it was taken from. Five kinds of host and five of content
  are told apart; expectations are a set of codes and whether the content must
  be the expected one. Templates, headers and latency are left out. Whether
  an answer that asks for a nonce brings one is left open.
- Counters in CollectionRun are zero or not: nothing there compares more.
- Sum of counters over members is the union of the kinds counted.
- A path in Folders is a sequence of segments; `Slug` says what `folder_slug`
  makes of each name. Positions are left out.
- In Workspace a document is one value, one environment stands for all, and
  `Fold`, `Candidates` say which names differ only in case and which names
  `unique_scenario_name` tries. The list of scenarios inside a document is left
  out (readers take it from the rows), as are names, positions and folders of
  collections. Identities are not those of a pending request.
- An environment value is a sequence of texts and references with or without a
  default. A name with a dot is either that of a value inside of another
  (`Nested`) or a key that has the dot in it (`Dotted`), and a reference is written
  with `env.` or `_.` before the name (`PathRef`) or without (`Ref`): where these
  are looked up differs between the expansion, the check for missing values and
  `resolve_named_token`. What an object is as a whole, when it is referred to or
  replaces a text, is left out. `Companion` says which name holds the encoded
  value of which (`foo_encoded` that of `foo`), `Words` what the texts are.
- In StepTest a variable's value names the step it comes from and the part of
  the answer that was saved; answers are told apart by what `apply_save` and the
  stop rules see: whether one came and was expected, whether the URL asked for
  has the query parameter, whether it ends at a redirect that is not followed and
  whether the target of that has the parameter. The API answers a step of the
  test and of the run alike, and a prepare action that raises does so each time.
  The page makes one test and then previews, or previews alone. Of the uses of
  variables in a step `spared` are those `missing_var_tokens` skips or does not
  see: with a default, the `seconds` of a SLEEP, the `env` of an EXEC.
- In Login a state is the number of the login that made it, a user's row the
  number of the request that inserted it. A provider that takes a code once and
  the middleware are external. The 600 seconds of `aft_oidc` are the action Lose.

## 3. Runs

Violation runs show where the code departs from what the repository says of
itself; each has an entry in "findings".

| run | question | bounds |
| --- | --- | --- |
| `scenario_run` | two workers against the calling thread: are report, verdict, order and exported variables right under every interleaving | 2 workers, scenarios of 2 steps with every stop rule, with fail_fast, with a step that raises, shared and separate entries, 2 iterations: enough for two workers to meet at every lock and for a late worker to meet the reader |
| `scenario_run_live` | does every run conclude, and keep RunReport, though steps may hang; does every worker end if they do not | 2 workers, short runs |
| `regression_error` | finding | 1 worker |
| `collection_run` | values, verdicts, answer; SuiteReport | up to 3 members: a provider, a second provider that may fail, a consumer; 2 variables |
| `collection_failed` | finding | 2 members |
| `http_step` | does a step pass, save and send as it should, and end | every kind of step with each kind of polling, 2 attempts, 2 redirects (one hop followed by another after each first redirect, and one too many), any answer to each request |
| `dpop_keys` | is a call refused only after a foreign reset | 2 clients, 2 names, flows of up to 7 operations, one nonce retry per token |
| `cimd_servers` | leaks, dead URLs, service to a request that is alone | 3 requests, 3 ports |
| `folders` | is the tree whole under every sequence of operations, and does what it shows stay, wherever a collection is posted; can a path ever name two folders | 1 client with 3 folders and a collection, three levels deep, posted at the root, in a folder or one level below what is there; 2 clients with 2 folders |
| `workspace` | access, values, names of files, pulls; which request fails with nobody beside it | six loads, one per question: a collection and its fork with values; one collection and 3 users (owner, reader, editor); two files, one named as the collection's own; two spellings of one name; two users' requests overlapping in one collection; a fork of a collection that may go. Two scenarios are enough for a clash of names, three users for an owner, an editor and one whose values must not change |
| `step_tests` | does a test leave, call, show and refuse what a run would; is expansion independent of order | 468 scenarios of 3 steps, with every way each of them ends, two of the steps with a prepare action that raises, and 4 pairs of requests of the page: 2 steps before the selected one are enough for a value to be saved, overwritten or copied before it is used, and a second request for the page to bring what the first left; 19440 documents of 9 names with references two deep, in a circle, and to the host, a value inside of another and a key with a dot, with 10 passes as in the code |
| `login` | one row per subject, whose session, what a logout leaves, who is let in | 2 browsers, 2 subjects, 4 requests, 1 lost cookie, codes used twice and links opened in the other browser; without OIDC four racing first requests. 4 requests are two whole logins, or a login, a logout and a callback beside another request. One exception of `LoginsComplete` needs five and is covered by the proof alone. Browsers and subjects are symmetric: nothing tells them apart |

Bounds that are parameters: `LoopBound` (iterations of a run without a limit),
`MaxDepth` (segments of a stored path), `MaxRequests` and `MaxLosses` of Login,
`slots` (scenario rows of a collection), the sets of identities. `MaxPasses` is
the 10 of the code. CHECK_DEADLOCK is off only where everything really ends:
requests
to the metadata servers that have been answered, folders once the identities
are used up, browsers once all requests are sent.

### Fairness

- ScenarioRun: `Spec` assumes only that the calling thread runs and time
  passes (its join has a timeout), not that steps return. `WorkersFinish` alone
  is conditional on `StepsReturn`: every thread runs and every step returns or
  raises, which request and exec timeouts give.
- CollectionRun: the runner, run.sh and start_run go on; `execute_scenario`
  always returns, which `scenario_run_live` shows.
- HttpStep: every request is answered or fails (the session has a timeout), and
  the step goes on.
- CimdServers: a request that started goes on to its `finally`.
- Workspace, StepTest, Login, Folders and DpopKeys have safety properties only:
  what they do next is up to users, or to a client.

## 4. Proofs

`ScenarioRunProofs` proves, for any number of workers and any scenarios,
`TypeCorrect`, `CountersAlwaysAddUp`, `PassIsSound` and `ReportedVarsAreSound`.
The argument has layers, each using those before it: types with mutual
exclusion (the lock is held by exactly the thread between its two assignments),
the counters (outside the critical section they add up; inside, the difference
is what its owner has still to add), the trace (what was recorded is what
the counters say was failed), the caller (once all threads it waited for are over
nothing changes, and what it has read is what there is), the exports (the
shared map is the final snapshot of a worker, or a worker is still to capture).
Two more layers give `ReportIsSound`, the report counts exactly what was
recorded (`CountInv`: the pairs of worker and position recorded so far form a
finite set, whose parts by outcome have as many elements as the counters say),
and `OrderIsSound`, a worker records the steps in their order (`OrderInv`: the
step it is at is the number of records it has, modulo the length of the
scenario). `ImplementsRunReport` maps the initial states and every step to
RunReport: the log is the history, a join that returns is WaitFor, and the
computation of the totals is Report. It needs a last layer (`ReadInv`): a
counter the caller has read is above zero only if such an execution was
recorded, and those it has read show every execution of each worker it has
waited for, although a late worker may record between two readings. Assumed: `RunAssumption` (at least one
worker, scenarios with steps).

`CollectionRunProofs` proves, for any plans, `TypeCorrect`, `OrderIsKept`,
`ExportsAreTrusted`, `CompletedIsSound`, and `ImplementsSuiteReport`: the initial
states and every step of the chain map to SuiteReport. The invariant `IInv`
says besides the properties that `skip` is set exactly when an earlier result
breaks the rest, that a running member is due, that a skipped result counts as
a failure, and what the exit code and file were computed from. Assumed:
`PlansAssumption`.

`HttpStepProofs` proves, for any steps, any `MaxRedirects` and any server,
`TypeCorrect`, `PassIsDeserved`, `SavesAreOfTheLastAnswer`, `RedirectsAreConfined` and
`RequestsStayBounded`. The properties speak of the end of a step
(a passed step has saved from its last answer, the URL of that or the one it
redirects to; `QueryIsKept` names the one mixture `apply_save` allows, a query
parameter that stays from before the step or from before a retry); the
invariant says what each exchange must leave for them to hold there: no answer
but the latest is kept, a body is kept with its answer, a success rests on the
expectations or (only before a retry) on the condition of the polling. The
bound on requests needs a count: each exchange begun may cost two
requests more than `MaxRedirects`, and one that is out has used as many as its
hops. Assumed: `StepsAssumption`.

`OauthHelpersProofs` proves, of DpopKeys, for any clients, names and flows, `TypeCorrect`,
`KeysAreReplacedByResets` and `RefusalsAreForeign`. The invariant: one client at
most is inside the lock, and only to make a key that is not there or is reset;
the operations a client is past tell whether it holds a proof and a token; if
no other client resets its name, both are of the key in the store. Assumed: `ProgramsAssumption` (flows as the prepare
actions make them: a reset only before the first proof, a token after a proof,
a call after a token).

Of CimdServers it proves, for any requests, ports and sequences of servers they
ask for, `ServersAreTyped`, `ServersAreKept`, `ReuseIsSound` and `LoneRequestsAreServed`. That nothing
is lost is not inductive: what carries it is that a server is registered at
the port it is bound to, even when it was asked for at another (`OpenInv`,
`RegistryInv`), that two servers never share a port, and that only who emptied
the registry has servers to close. Assumed: `AsksAssumption`, the type of what
requests ask for.

`FoldersProofs` proves, for any clients, folders, collections and depth,
`TypeCorrect`, `PathsFindTheirFolder`, `TheTreeIsWhole` and `ContentsAreKept`, that
is, all three properties of the run. `TheTreeIsWhole` speaks of folders: a collection
can be posted where no folder is; `ContentsAreKept` says that what is shown, folder
or collection, stays shown and in its folder whatever was posted. Hypothesis of each: `Stable`, names whose
slug is its own slug (`folder_slug` can leave others, when it cuts at 80
characters; then `FoldersAreAddressable` is false in the code). The heart is
`RewriteBelow`: rewriting the full path of a folder gives the rewritten path
of its parent with its name, unless it is the renamed folder itself; hence
every path that named a folder names the same folder afterwards (`SamePlace`).
A request that is not alone may commit what it prepared from other rows: then
only types and the unique constraint remain. Assumed: `IdentityAssumption` (a
folder is no collection), `SlugAssumption`, `LoadsAssumption`.

`WorkspaceProofs` proves, for any users, collections, names and loads,
`NothingIsOrphaned` (every row belongs to a collection that is there, also when
requests overlap a deletion), and all six properties of the run: `TypeCorrect`,
`FilesStayDistinct`, `LoneRequestsAreServed`, `AccessIsRespected`, `ValuesAreKept`,
`PullsAreComplete`. The invariant has two halves. `AccessInv`: every row has its
collection; one about to be inserted is in no other request (`FreshInv`); and
what the prepared writes of a request may contain (`TxInv`: its form, whose
values it writes, and, while requests come one at a time, that its user is
allowed to). `SoundInv`: rows have their types, links lead to collections and no
two scenarios of a collection share a name; so do those each request is about
to write; and while requests come one at a time, those writes fit the keys of
the tables as they are (but for the one fork named in `ServedAlone`), leave
names apart without their case, and make a pull what it should be. Each handler
has one lemma for each half: what it prepares is of that kind. Then only Commit
changes rows, and it keeps names distinct, however requests overlap, because
the unique constraint is tested against the rows at the flush and not against
those the request has read. `FilesStayDistinct` and `PullsAreComplete` count and
compare files through a bijection from rows to names. Assumed: `LoadsAssumption`;
`BlankAssumption`, `ReservedAssumption`, `FoldAssumption`, `CandidatesAssumption`,
which type the constants; `NoneAssumption`, that `none` is no collection; and
`LibraryAssumption`: no two files of a library collection have names that differ
only in their case, since `clone_library_path` takes the names as they are. The
library comes with the program; without the assumption a clone may have two
such scenarios.

`LoginProofs` proves, for any browsers, subjects, numbers of requests and lost
cookies, `SessionsAreSound` (the invariant), `TypeCorrect`, `UsersStayDistinct`,
`ReturningUsersAreServed`, `LoginsStayHome`, `LogoutsAreFinal` and
`LoginsAreCompleted`. The invariant
covers every place a session can be: the cookie, the copy, a request under
way and its answer each hold only states of this browser's logins and a user
who came back to it (`OwnInv`); a request that is alone is the newest of its
browser and no other answer can bring an ended session back (`LogoutInv`).
For the last theorem it says which of the two places of a state still has it
(`HoldInv`): both after the login, the copy alone after a logout, the session
alone after the callback of an older login. The proof found what the run is too
small for: that callback and a logout after it leave neither, which takes five
requests, and is an exception in `LoginsComplete`.
Assumed: `LoginAssumption`.

`StepTestProofs` proves, for scenarios of any length, any answers of the API and
any requests of the page, `TypeCorrect`, `TestsFollowTheRun`,
`BlockedStepsAreUnreached`, `PreviewsStayQuiet` and `PreviewsShowTheRun`, and
for any documents `NothingIsRenderedBlank`, `SettledExpansions`,
`FewNamesAreConsistent` and `KnownHostsAreCalled`. The properties look back when everything is over, so the first invariant, `IInv`,
says what the record of each request is on the way: every valuation in it is
what one step, of a test or of the run, leaves of the one before (`HistoryInv`);
as far as the run has come its valuations differ from those of each test only
where a redirect was not followed, by what the URL asked for has, also if the
target has nothing to save (`AlikeInv`, `Extra`), which each step keeps
(`StepsAreAlike`);
the run executes steps in order and none after one that stops it (`RunInv`).
What a list of prepare actions makes is recursive: the lemma `Least` (a set of
numbers has a least one, by the library's theorem on well-founded relations)
gives `MadeIs`, that the recursion has a solution, and with it that each action
keeps what the whole list keeps.

Previews leave steps out, so their valuations cannot be compared with a run step
by step. In a scenario that writes each variable once, before it is read, there
is another way: a valuation is described by the places of the scenario instead
of by how it came about. `Stands` says that a variable with a value has the one
its place gives it from the variables the place reads, or the default of the
action that makes it; `Supplies`, that a place whose needs are met has written
(fully in a run, and in a preview as far as the check for missing values sees); `Rises`, that no value is taken away. Each
prepare action and each saving keeps these (`PlaceWrites`, `MadeWrites`,
`ExecutedWrites`, `TestedWrites`), whether or not the steps before were
executed. Two valuations that stand agree on what both have (`ValuesAgree`), and
one has what the other has if the places before supply what they should
(`ValuesFollow`): otherwise the first place where they differ (`First`) reads
from an earlier one. The second invariant, `JInv`, adds to `IInv` that what the
page sends stands, that a preview that was sent (`Sent`) all it needs has it still and
called nothing (`Quiet`), that one that hydrates has all or is supplied up to where it is
(`Served`), and that the run is supplied as far as it has come (`SupplyInv`).

The environments need no invariant but `ContextInv`, that each context is one of
the two ways to prepare the data of the case; the work is in what expansion
does. Filling in is first taken apart (`FillIs`, `FillJoin`: a concatenation is
filled in piece by piece), which gives that filling in first what is known so
far, and then the rest with a later environment, is filling in with the later
one, if what was known stays and what a default was taken for stays unknown
(`SubstitutedTwice`). A pass brings in no placeholder (`SubstitutedHoles`) and
leaves what is known (`Passes`), so by induction on passes a value means after
the expansion what it meant before (`ExpandedMeans`), and through the two
expansions of `finalize_environment_values` with the host brought in between
(`CompleteMeans`). If nothing is left to fill in, a value is what it means:
`SettledExpansions`. A pass after which something is left has made a name known
(`NothingNew`), so this is so when there are no more names than passes
(`FewNamesSettle`). `NothingIsRenderedBlank` needs neither: what has no
placeholder is known or blank in the end (`FinalizedKnown`), and a use that is
written the way its value is stored finds what the check found; nor does
`KnownHostsAreCalled`: a host that is known from the start becomes the server
whatever is brought in beside it (`OwnHostDecides`, `ServerIs`), so both ways to
prepare the data come to one context. The exceptions of
the first two properties are the conditions under which these lemmas fail; the proof found
two the run had missed until then, a connection key that refers to the server
with a default and a default that is empty.

Assumed: `EnvAssumption`, that companions are names of their own, that no name is
both inside of a value and a key, and that hosts are neither;
`BatchesAssumption`, which types the documents, the scenarios and the requests, and
says that a test or a preview names a step that is there and that a test comes first; `NothingAssumption`,
that the mark of an action that makes its value is not the name of a variable.

Only model-checked:

- every liveness property (`EveryRunConcludes`, `EveryStepEnds`, `WorkersFinish`,
  `AllServersClose`, the fairness half of both `KeepsContract`), which is beyond
  TLAPS here;
- `TestCallsWhatTheRunCalls` of StepTest where the host is not known from the
  start, but behind references or not at all (`Known` of StepTestProofs does not
  hold): its exceptions are those of the texts of the instance; for any texts it
  would need more of them, on hosts that are a path or this machine and on
  defaults that refer to the host.
- `ExpansionIsConsistent` where more than `MaxPasses` names are left to expand
  when the passes are over: it is false there, the code gives up.

## 5. What the code does that a reader may not expect

Found while modelling. Two have a run that shows them (see "findings"); the
others are in the models as the code does them, and the properties name them as
exceptions where they matter.

- *Runs.* A step that raises (an inline prepare action, a malformed `seconds`)
  kills its worker silently and the run passes (`regression_error`). A member
  that recorded nothing fails but does not fail the suite (`collection_failed`).
  fail_fast stops the worker that failed, not the others
  (`tools/scenario_runner.py:1577` says it stops the run). The key store is
  shared by the workers, though `tools/oauth_helpers.py:91` calls it local to one.
- *Environments.* A default is taken when its name is not expanded yet, even if
  it would be one pass later (README.md:275, 280, 297 say it is a fallback); a
  reference with a default that is never resolved stays as it is; any name with
  a host excuses the missing ones among the names of hosts; encoded companions
  are brought in step after the expansion that reads them; a connection key that
  refers to the server is expanded before the host is brought in, so
  `{{ server : default }}` takes its default though there is a server in the end;
  a chain of more than 10 references is left unexpanded. `{{ a.b }}` for a value
  inside of `a`, and `{{ env.a.b }}` for a key `a.b`, pass the check for missing
  values and are rendered as nothing (`tools/scenario_runner.py:484-488` and
  `:201-219`); `NothingRendersBlank` names both.
- *Step execution.* After a retry with a nonce a variable saved from a query
  parameter may be that of the first exchange, beside the status and body of the
  second: `apply_save` leaves it alone when the URL lacks the parameter
  (`tools/scenario_runner.py:692-697`). `SavedFromTheLastAnswer` names it in
  `QueryIsKept`. An error on a later hop returns the redirect before it.
- *Step tests.* A test finds its base URL before the overrides are merged and may
  take the host of an absolute step, a run does neither. The second `apply_save`
  puts the URL that was asked for in place of the one redirected to, and a query
  parameter of it where the target of a redirect that is not followed has none
  and a run saves None (`tools/scenario_runner.py:989`). A test goes
  on after a failure unless `stop_on_failure` is there and true, a run stops
  unless it is false. A preview may run earlier PREPARE steps again, and
  leaves out a SLEEP with its prepare actions
  (`tools/scenario_runner.py:1220`), which a run executes
  (`PreviewShowsWhatTheRunSends` names the exception in `Informed`).
  `missing_var_tokens` skips uses with a default and does not look at the `seconds`
  of a SLEEP or the `env` of an EXEC: a preview that hydrates then shows the
  default where the run sends the saved value. What a prepare action made of its
  default in a preview the page keeps and sends again. An action that raises is
  a failure of a PREPARE; with any other step it ends a test or a preview with 500
  (and a worker silently), and the page has what it had before.
- *Workspace.* A scenario called `collection` gets the file name of the
  collection's own document. A fork by a user who has values for it fails if the
  owner has, too (`webapp/workspace.py:493`). It copies the owner's values
  whether or not the environment is shared. A new order of scenarios is stored
  in the document and read from the rows (`webapp/explorer.py:469`). A document is
  written back as a whole, so one of two saves that overlap is lost. A folder
  made while its parent is renamed or deleted is shown nowhere
  (`webapp/explorer.py:272`). So is a collection posted to
  `/api/workspace/collections` with a folder that is not there
  (`webapp/workspace.py:727` stores it as sent); the route of the explorer answers
  404.
- *Login.* An answer that was still out at a logout brings the session back. Two
  first requests without OIDC race for one row, and one of them fails. On
  PostgreSQL an insert in `auth_callback` (`webapp/auth.py:174`) can wait, inside
  the event loop, for a commit that the same loop has to start. With FastAPI
  0.118 and later the commit comes after the answer.

## 6. Plan

Done: one run, collections, step execution, keys, metadata servers, folders,
workspace, step tests and environments, login; proofs of every safety property
of all of these, as far as section 4 says; both refinements. Left, in this order:

1. `TestCallsWhatTheRunCalls` for hosts behind references, with the exceptions it
   needs.
2. Folders and collections of one workspace in one composition.
3. `EditorClient`: the asynchronous handlers of the page against the API,
   answers in any order, with Workspace reduced to documents.

## 7. Not modelled

- The editor (`webapp/static/app.js`): handlers and rendering in one file; its
  requests are the inputs of the models above, what it shows is not.
- Importers, exporters and the curl parser: pure conversions of a whole format,
  one call each; an enumeration of documents would test the format, not a
  protocol.
- Library files: the routes only read them; the functions that would write are
  not called.
- Rendering of templates, style sheet, latency and percentiles; migrations (run
  once before the service); packaging and CI.
- The ApacheBench half of `bin/run.sh`, and the preparation of the run directory
  in `start_run`: files of one request, under a name of its own.
