# yby-cli, verified: TLA+ models, TLC runs and TLAPS proofs

`yby` is a Go command line tool that scaffolds GitOps repositories, brings up a
local (k3d) or remote cluster from them, keeps a mirror of the working copy in
the cluster, and extends itself with plugins (atlas, bard, sentinel, synapstor,
viz) that talk to clouds, Kubernetes and AI providers.  This directory holds
TLA+ models of the parts of it whose correctness depends on order: several
goroutines or processes, retries and timeouts, crashes between two writes, and
long sequences of legal commands.  Everything is translated from the Go source;
the documents only supply the claims that are compared with it.

How to run, from this directory:

    tlasany M.tla                             parse module M
    tlc -workers 2 -config X.cfg M.tla        check M under X.cfg
    tlapm M_proofs.tla                        check the proofs of M

`PROJECT.json` lists components, runs, the mutants each property must kill, the
lines each definition models, the hazards and the theorems.

A definition whose comment says `mutant:` is never part of a specification: it
is the form a plausible bug would give to the definition that follows it, and
the property that must notice is named in `PROJECT.json`.

## 1. Inventory

| part of the system | state it keeps | operations | interacts with | what is hard | module |
|---|---|---|---|---|---|
| cloud token cache and `AutoRefreshTransport` (`pkg/cloud/token_*.go`, `pkg/plugin/sdk`) | cached token, refresh mutex | `RoundTrip`, `getToken`, `refreshToken` | cloud CLIs and SDKs, API server; shared by all goroutines of a client | stampedes, 401 races, failed generations, stale re-check | `TokenRefresh`, `TokenSource` |
| mirror (`pkg/mirror`, `pkg/retry`) | forwarder, local port, tunnel goroutines, sync loop timers | `SetupTunnel`, `Sync`, `reconnect`, `StartSyncLoop`, `Start`/`Stop`/`HealthCheck` | kubectl, git server pod, `environment` service | tunnel death, reconnection and back-off, cancellation, leaked goroutines | `MirrorSync` |
| bootstrap (`pkg/services/bootstrap`) | `~/.yby/bootstrap-state.json`, cluster contents | `Run` and its three phases | helm, kubectl, `cmd/up`, `cmd/destroy`, `cmd/bootstrap_cluster` | crash between a phase and its checkpoint, checkpoint of another cluster or project | `Bootstrap` |
| scaffold update (`pkg/scaffold/merge.go`, `manifest.go`, `cmd/init.go`) | project files, `.yby/project.yaml` hashes | `init`, `init --update`, user edits | template engine, overrides | three-way merge over long histories, crash during apply | `ScaffoldUpdate` |
| AI resilience (`pkg/ai/ratelimit_provider.go`, `retry_provider.go`) | circuit breaker, retry loops | `allow`, `recordSuccess`, `recordFailure`, calls | every AI provider; goroutines of one process | retries against a circuit others open, a bucket of size 0, text repeated by a retry | `AiClient`, `Breaker` |
| synapstor (`plugins/synapstor`, `pkg/ai/vector_store.go`) | knowledge files, manifest of hashes, vector store | index `Run`, `Capture`, `Study` | embeddings, users who edit | manifest and store out of step, edits between hash and read | `KnowledgeIndex` |
| plugin registry and execution (`pkg/plugin`, `cmd/plugin.go`) | plugin files, `trusted.json` | install (three ways), update, remove, trust, discover, hooks | processes of the user, project repositories | checks after destructive writes, trust of changed files, torn registry | `PluginRegistry` |
| sentinel (`plugins/sentinel`) | findings and patches of one scan | scan with profile and `--fix` | OPA, Polaris, the API server and the owners of its pods | findings that are stale when patched, patches that undo each other | `SentinelScan` |
| bard (`plugins/bard`) | `bard_history.jsonl`, chats in four interfaces | question, answer, tools, `/clear`, `/session` | AI, vector store, tools of other plugins | chats that share a history, lines lost or too long | `BardChat` |
| audit and telemetry logs, credential store (`pkg/cloud/audit.go`, `credential_store.go`, `pkg/telemetry`) | jsonl files with a rotated copy, an encrypted file | `Log`, `ReadEvents`, `FlushToFile`, `Save`, `Delete` | all yby processes of the user | rotation by two processes, torn lines, a file that cannot be read taken for empty | `HomeFiles` |
| self upgrade (`cmd/upgrade.go`) | binary, backup | `upgrade` | GitHub releases, shells | crash between rename and write, two upgrades | `SelfUpgrade` |
| secrets (`pkg/services/secrets`, `cmd/secret*.go`, `cmd/seal.go`) | keys of the controller, backup and its HMAC | backup, restore, rotate, seal | cluster | partial failure of a rotation, backup and HMAC written apart | `SealedKeys` |
| environments (`pkg/context`, `cmd/env.go`, `cmd/cloud_connect.go`) | `environments.yaml`, values files, kubectl's context | `use`, `create`, `connect` | up, destroy, plugins, shells | two files written in turn, lost updates | `Environments` |
| atlas (`plugins/atlas`) | the diagram in `.yby/`, the blueprint of one call | `diagram`, the context hook | the project and who edits it, AI, other plugins | files that change while they are read, edges to what is not shown | `AtlasScan` |
| viz (`plugins/viz`) | tabs, filters, dialogs, commands in flight | bubbletea `Init`, `Update` and commands | Kubernetes through `RetryClient` | messages that arrive after the screen changed, chains of refreshes that end | `VizModel` |
| AI embedding cache (`pkg/ai/cached_provider.go`) | LRU list, map, TTL | `get`, `put`, `EmbedDocuments` | providers | two callers may compute the same vector, which is harmless | not modelled |
| network access (`pkg/services/network`, `cmd/access.go`) | port-forward processes of one call | tunnels, retry, kill | kubectl | the first tunnel that gives up ends all | not modelled |
| doctor, status, validate, setup, logs, UKI, charts, prompts, styles | none beyond the call | read-only or one-shot commands | external tools | none that a model adds to | not modelled |

What makes the parts correct, and where it is stated:

- token cache: one generation per expiry, a retry never older than the refused
  token, every request returns (section 3);
- mirror: one live tunnel, no push to a dropped port, the last commit arrives,
  a signal ends the program (section 4);
- bootstrap: what a run skips was done for this target; a run that reports
  success has done every phase (section 5);
- scaffold update: no edit is lost, a finished update delivers (section 6);
- viz: an action hits what its prompt named, the list stays fresh (section 7);
- the following are in section 8.  Plugin registry: the content that runs was
  trusted, an install nobody disturbs leaves a plugin that works;
- knowledge index: after a complete run the store holds exactly the files' texts,
  and the manifest never vouches for a text that is not in it;
- AI resilience: the circuit breaker's promise holds with retries and several
  callers around it, nobody gives up on a circuit others left open, no text is
  sent twice;
- sentinel: what `--fix` reports as patched is not found again;
- bard: an answer in the history belongs to the question before it;
- logs and credentials: an event is in the log or in its rotated copy, and
  saving one credential loses no other one, except in the ways the model names;
- self upgrade: at any crash a runnable binary is in place or can be restored;
- environments: every environment of the manifest has its values file, the
  current one is defined;
- secrets: a backup that was reported done is accepted where it was made, keys
  that were reported restored are with the controller, and the loss of all keys is
  reported;
- atlas: a diagram has no loose edge and misses nothing of a project at rest.

## 2. Plan

Done, in this order: `TokenSource` and `TokenRefresh`, `MirrorSync`, `Bootstrap`,
`ScaffoldUpdate`, `VizModel`, each with its MC module, configurations and a
module of proofs; then `PluginRegistry`, `KnowledgeIndex`, `Breaker` and
`AiClient`, `SentinelScan`, `BardChat`, `HomeFiles`, `SelfUpgrade`, `SealedKeys`,
`Environments` and `AtlasScan`, which `Workstation` composes, with proofs of the
parts that assist the user (`Assistants_proofs`), of the files several shells
rewrite (`SharedFiles_proofs`) and of the composition (`Workstation_proofs`).
Every invariant, action property and refinement that a passing run checks is
also a theorem.

The core came first: what runs concurrently, what persists between two runs of
the program, and what decides over files and clusters.  Abstract specifications
are stated where the code has one in mind: `TokenSource` (a source that hands
out tokens) behind `TokenRefresh`, and `Breaker` (a circuit breaker) behind
`AiClient`.  Each question has one run; a component shares a run with the ones
it is composed with.

What is left, in the order it would be worth doing:

1. `yby up` as the composition of `Bootstrap` and `MirrorSync` against one
   cluster (a target replaced under a running mirror), and `init --update`
   under a mirror that pushes what it writes;
2. sentinel's `investigate` with its cache of answers, and network access, whose
   error group ends every tunnel when one gives up;
3. rendering in `scaffold/engine.go`, which writes `.github` and `.devcontainer`
   while it renders for a comparison;
4. the safety half of the liveness properties as theorems: in each state from
   which something must still happen, which action is due and what keeps it due.

## 3. Token cache and automatic refresh: `TokenSource`, `TokenRefresh`

`TokenRefresh` models every goroutine that issues a request through one
`AutoRefreshTransport`.  `pc` follows `RoundTrip`: `get` is `getToken` before
its cache lookup, `lock` waits for `mu`, `recheck`/`generate`/`store` are the
critical section of `refreshToken`, `send` is `base.RoundTrip`.  A token is its
position in `issued`; `cache` is a position or 0.  `refused` remembers the token
whose 401 led to the retry.
The environment advances the clock (`Advance`) and may stop accepting any token
(`Reject`): a 401 is possible only for a rejected token or one past its recorded
expiry.  `GenerateFailed` stands for a failing CLI, SDK or cancelled context.

`TokenSource` is the promise: a token is generated only when the previous one is
within the margin of its expiry.  `TokenRefresh` implements it (checked as a
property and proved).

| run | question | answer |
|---|---|---|
| `token_refresh` | can concurrent misses, 401s and failures make two tokens for one expiry, hand an older token to a retry, or repeat a request without a 401; does every `RoundTrip` return? | no; yes |
| `token_retry` | does the retry carry a new token, as the comment says? | no: the re-check under the mutex returns the refused token |

Bounds: three goroutines suffice for one to generate, one to wait behind it and
one to arrive late; three tokens give two consecutive pairs; two ticks take a
token to its margin and past it.  In `token_refresh` a new token is at its margin
from the start, so that every order of a stale cache and a 401 occurs; the
violated run has a token far from its expiry.  The body of the request is not in
the model: `RoundTrip` repeats `req` by `Clone` (`token_refresh.go:56`), which
shares a body the first attempt may have read.  Liveness assumes that a goroutine that can run does, that the
generator and the server answer, and strong fairness of `Lock`: `sync.Mutex`
hands itself to a starving waiter.  No request and no clock tick is owed.

Proved in `TokenRefresh_proofs` for every number of goroutines, tokens and
lifetimes: type correctness, exclusion of generations, at most one token per
expiry, monotone retries, and the implementation of `TokenSource`.  The
inductive invariant adds what the code relies on implicitly: the mutex holder is
the only goroutine inside `refreshToken` (`LockInv`), the cache holds the newest
token or nothing (`CacheInv`), the holder has seen the newest token stale before
it generates (`HolderInv`), and an empty cache means a stale newest token or one
about to be stored (`EmptyInv`).  The last two are why a failed generation, which
leaves the cache empty, cannot lead to a premature one.

## 4. Local environment and git mirror: `MirrorSync`

One thread runs `runLocalUp` (`pc` from `cluster` to `converge`, `mode = "up"`)
and then stands for the goroutine of `StartSyncLoop` (`mode = "first"` for its
initial sync, then `"loop"`); main only waits for the context by then
(`MainReturns`).  Each tunnel has its own `ForwardPorts` goroutine: `dialing`,
`ready`, `halfopen` (the connection is lost but the listener still accepts),
`ended` (after it was ready: `readyCh` stays closed, and `Start` may still take it
for ready) and `closed`.  `SetupTunnel` is `StartFails`, `StartTunnel`, then `TunnelReady` or
`StartCancelled`; `Sync` reads the port (`SyncTick`, `StartSyncLoop`) and pushes
(`Push`, `PushFails`, which may happen to any push) in a second step; `HealthTick` is the failing health check
with the first half of `reconnect`.  Time is abstracted: a ticker may fire
whenever the loop selects, and `retry.Do` may give up after any failed attempt
(an attempt may take any time), so the five minutes need no clock.  `period` is
the ticker's period in units of five seconds; 160s is the largest delay, the
three-minute cap in `backoffDelay` is never reached.

| run | question | answer |
|---|---|---|
| `mirror_sync` | double stop, leaked tunnels, pushes to a dropped port, no back-off after errors; does a signal end the program from everywhere; does the git server get the last commit once things are calm? | none; yes; yes, outside the two dead ends below |
| `mirror_gave_up` | and after `reconnect` has given up? | no: a nil forwarder is never health-checked again |

The two dead ends are exceptions in `ConvergesUnlessStuck`: `forwarder` is nil
after `reconnect` gave up, and `Start` waits for a tunnel whose goroutine ended
before it was ready (`forwarder.go:163` logs the error and closes nothing that
`forwarder.go:182` waits for, so only a signal ends the wait).  A third
peculiarity is visible in the model and contradicts no document: after a
reconnection the ticker keeps its long period although the error count is back
at zero (`mirror.go:236`), and a push that succeeds then sees no errors to end
(`mirror.go:250`); only the next failure and success bring it back to its pace.
`BackoffAfterErrors` states that nothing else does this (`zeroed`).

Bounds: with three tunnels one may be winding down while another is replaced by
a third; error counts saturate at 5, from where `backoffDelay` is constant.
Fairness: weak for the running thread and the tunnel goroutines (client-go pings
its connection, so a half-open one is noticed); strong for each case of the
select, which Go chooses at random among the ready ones.  Outages, commits,
signals and recoveries are not owed; convergence is claimed only under
`<>[]Calm`.  A health check that fails on a live listener is possible but owed
never.  A push through a working tunnel may fail for reasons of its own;
convergence is claimed once such failures end (`PushesSucceed`).

Proved in `MirrorSync_proofs` for every number of tunnels: type correctness, no
double stop, agreement of the two fields, pushes only through a running tunnel, no
leak, and the back-off.  The inductive invariant says at which locations
`forwarder` and `starting` are set (`FieldInv`) and that what is set is not stopped
until the process ends (`OpenInv`).  The back-off is inductive
with the bounds of the counters, once it is shown that counting errors no further
than `MaxErrs` changes no delay (`DelayStays`).

## 5. Bootstrap and its checkpoint: `Bootstrap`

`Run(ctx, opts)` is a process `r`; `target[r]` is what `opts.Root` and
`opts.Environment` say, `pc[r]` the place in `Run`: `system` and `helm` are the
two halves of `phaseSystemBootstrap`, `config` and `patch` those of
`phaseConfigBootstrap`, the `save…` locations are the calls of `saveCheckpoint`,
`clear` is `clearCheckpoint`, reached only by a run that is about to report
success.  `checkpoint` is `~/.yby/bootstrap-state.json`, one for all projects and
all processes; a file that is absent, torn or `{}` matches no project.  `cluster`
is what the commands have left installed in each cluster.  Namespaces and Argo CD
are only added (`already exists`, `upgrade --install`).  The root application is
not: `kubectl apply -f root-app.yaml` sets `spec.source.repoURL` back to the
manifest's value (`service.go:361`), so that `ApplyRootApp` removes the patch to
the local mirror that another run, or an earlier one, has made, and
`PatchRootApp` makes it again.  Targets may share a cluster (`ClusterOf`; a local
one is called `yby-local` in every project) and then overwrite one `root-app`.
Two environments of one project have the same manifest; they are told apart all
the same, so that `Installed` asks more and `overtaken` excuses more than need be.  A run is `local` when its
environment is or when `--context local` was given; the flag is not in the
checkpoint.
A run may be killed or fail anywhere (`Interrupt`), fails for certain when its
command needs what the cluster lacks (`Fail`, the custom resource `Application`
before Argo CD), and only warns when the file cannot be written (`SaveFails`, `ClearFails`).

| run | question | answer |
|---|---|---|
| `bootstrap` | can runs of several projects that trample on one file and one cluster, killed anywhere, make each other skip a phase; does repeating the command end in a complete installation? | no, but a run can undo the patch behind another's success; Argo CD and an application stay, a target's own one is complete again and again |
| `bootstrap_destroy` | also on a recreated cluster? | no: `destroy` leaves the checkpoint, the system phase is skipped for ever |

Without its exceptions `SuccessMeansInstalled` is false of the code, in two ways.
A recreated cluster breaks it when a run was killed before `clear` and left the
checkpoint of the last phase behind; hence the clusters in `replaced`.  And a
second run breaks it that was past its own reading of the checkpoint when the
first one patched: it applies the manifest again, the patch is gone until it
patches in turn, and the first run reports success, or leaves a checkpoint that
makes a third one report it.  The history variables `overtaken` and
`fileOvertaken` mark exactly the runs, and the checkpoint, whose application was
applied over in this way; for them the properties claim Argo CD and some
application only.  They are not a licence for good: a run that stops and the
checkpoint that is rewritten lose the mark, and `RetriesInstall` does not know
them beyond `Undisturbed`.  It claims `[]<>Installed`, not `<>[]Installed`, which
is false: every full run of a local target leaves a moment between the apply and
the patch.  For a remote environment bootstrapped with `--context local` only the application is
claimed, not the patch: whether a run that resumes behind phase three would have
patched is not in the checkpoint, and it does not ask.

Bounds: two runs at a time, of a local and a remote target that share a cluster,
with either value of the flag; a run that returned may start again, so one run is
overtaken by any number of others between reading the file and writing it.  The
cluster may be replaced once, which is enough for a stale checkpoint.  Targets in
clusters of their own are covered by the proofs.  Fairness: weak for a run that can
go on (helm, kubectl and the retries end), strong for the user's next attempt at
each target, in whichever process; the premise of `RetriesInstall` is that
interruptions, and failures of the final clearing, end.  A failing write of a
checkpoint is not excluded even then.

Proved in `Bootstrap_proofs` for any number of runs, targets, clusters and
replacements: type correctness, `SuccessMeansInstalled` and `CheckpointIsTrue`.
Inductive are `ProgressInv`, what a run knows to be installed from where it is, and
`FileInv`, the same for the checkpoint: a run writes only what `ProgressInv` gives
it, and starts where `FileInv` allows, so that neither holds alone.  `ApplyKeeps`
is the step that needs the history: what it takes away it takes from those it
overtakes, and from nobody else.

## 6. Three-way update of a project: `ScaffoldUpdate`

`disk` is the project, `scaffold` what this release renders with this project's
flags (`Absent` for a filtered template), `hashes` the `fileHashes` of
`.yby/project.yaml`, `plan` the `MergePlan`.  A content is the set of scaffold
texts it contains, the set of the user's edits, and whether it is marked; hashes
are injective, so contents stand for them.  `init` is `InitApply` then
`InitSave`, which records no hashes; `--update` is `PrepareUpdate` (render, plan),
`Confirm`, one `ApplyEntry` per entry in any order, `SaveHashes`.  The files of
`RootFiles` are written by the rendering itself.  The user edits and deletes
files at any time, also while the prompt waits.  `Stop` is a kill, a declined
prompt or a failing entry; `ApplyFails` a rendering that stops halfway; both
saves may fail, which the code only warns about.

| run | question | answer |
|---|---|---|
| `scaffold_update` | with a recorded base without edits, can any history lose an edit; does a finished update deliver the templates? | no; yes |
| `scaffold_preserved` | is a preserved edit safe in the next update? | no: the hash of the edited file becomes its base |

The premise of `EditsSurviveKnownBase` is a base that is recorded and has no
edits, and a file that was not touched since the plan.  Each part is needed.
Without a recorded base the first update overwrites edits, because `init` records
no hashes (`init.go:351`).  A base with edits is what `scaffold_preserved` shows.
A file touched while the prompt waits is written from the old plan
(`merge.go:250`).  The files of `RootFiles` are outside the claim, they are
written before the plan is made (`engine.go:145`).  After an interruption a file
the user never edited may get conflict markers (`merge.go:219`): its base is then
an older one than the text on disk.  The property holds through kills at any file, which is where one would expect a
three-way merge to fail.

Bounds: two files below the target, so that an update can stop between them, and
one in the root; two templates that may alternate (also back to an old one, as
flags do) or disappear; one edit, which suffices for losing it.  Every write of a
file is one step: a torn file is not modelled.  No fairness, no liveness.

Proved in `ScaffoldUpdate_proofs` for any number of files, templates and edits:
type correctness, `UpdateDelivers`, and the action property
`EditsSurviveKnownBase`.  The invariant needs `PlanInv` (the plan was computed
from the hashes that are still recorded), `EditsInv` (no content has an edit that
was not made yet, so that editing a file never makes it look unchanged) and
`DoneInv` (entries that are not pending are delivered).

## 7. The terminal monitor: `VizModel`

`Update` handles one message at a time, so each message and each key is one
action; a command is a member of the bag `inflight` from the moment it is
returned until the message it produces is handled.  A fetch (`Fetch`) becomes
data (`Listing`) in `Read` or `Failure` in `ReadFails`, data becomes a `Tick`,
a tick the next fetch, and an error that is not final a `ReconnectTimer`.  A
fetch carries the tab and the filters of the model it was created from, as the
method value `m.fetchResources` does.  A confirmed prompt is a `Job` that
changes the cluster in `RunJob` and ends as `Result`.

`tab`, `data`, `selected`, `filter`, `input`, `view`, `action`, `retryCount`,
`reconnecting` and `err` are the fields of `Model`; one `scope` stands for
namespace and label, which are sent to the API server, `status` and `search` are
applied on the screen.  A filter is the set of resources it lets through.  The
`prompted` field of an action is history: the resource that was selected when the
prompt opened.  "rollout" is scale and restart.

`ListMode` is the order of the tests at the top of `Update`: a prompt, then the
detail view, then a filter input take every message.  `Swallow` is what they
drop, and with it ends a chain of refreshes.

| run | question | answer |
|---|---|---|
| `viz` | can a late answer open over a dialog, can a refresh under a prompt redirect the action, is a refresh lost while the list is shown, and does a list with a live refresh converge to the cluster? | no; no; no; yes |
| `viz_ticker` | does opening and closing the detail view leave the list fresh, as the comment says? | no: the chain ends there, until a key starts another |
| `viz_search` | is the resource a prompt opens for the highlighted one? | not with a name search |

`ActsOnPrompted` holds because a prompt freezes tab, data, selection and
filters: the very dropping that ends the refreshes keeps the delayed read of
namespace and kind (`model.go:915`) honest.  The kind may differ in one way that
the property admits: for a StatefulSet, scale and restart address the Deployment
of the same name (`model.go:934`, `actions.go:35`).

More is visible in the model than the properties say.  A program starts with two
chains (`model.go:73`), and each key that fetches adds one that never ends, so
the load on the API server grows.  The chains share `retryCount`, so one that
succeeds resets the count of one that fails, and two that fail use up the three
attempts together.  `err` is never cleared, even if data arrives afterwards.

Bounds: `viz` has two tabs and two StatefulSets, one of which others create and
delete, so that a selection can point beyond the end and a refresh can move the
rows, and `MaxInFlight = 3` leaves room for one command beside the two chains.
The bound is on commands that keys start; a chain replaces its command one for
one.  `viz_ticker` and `viz_search` have two pods.

Fairness: weak, for each kind of message and for `Read` and `RunJob`: timers
fire, requests have an answer or time out, the bubbletea loop handles what it is
sent.  Keys, failures and other users of the cluster are never forced.  Both
liveness properties are about executions in which these cease (`Quiet`), and
`ConvergesWhileRefreshing` also asks for a list on the screen and a chain alive.

Proved in `VizModel_proofs`, for any tabs, resources, filters and commands in
flight: all of the run's properties but the liveness.  `OneDialog` and
`ActsOnPrompted` need no types; the invariant that carries the second is
`PromptInv`: while a prompt is open, the selection is what it was opened for.
`RefreshSurvives` rests on `CountedBag`: the commands in flight, each with its
copies, are a finite bag of which one action takes or adds a copy (`AddCounts`,
`RemoveCounts`), so the number of chains falls only where a message has no
successor.  `TypeOK` needs `CommandsOK`, the types of what fetches and their
answers carry, and `RowExists`: for every number below the count of the rows
there is a row with as many above it, which is what makes `RowAt` a resource.

## 8. The workstation: ten parts and `Workstation`

Everything else a user's yby commands do on one machine has a module of its own:
`PluginRegistry`, `KnowledgeIndex`, `AiClient` (with `Breaker`), `SentinelScan`,
`BardChat`, `HomeFiles`, `SelfUpgrade`, `SealedKeys`, `Environments`, `AtlasScan`.
Each has its type invariant, initial states, one action per operation and a
specification (`RegistrySpec`, `IndexSpec`, ...).  Where several processes meet
in files, one action is one access to one file: no mutex of the program works
between processes, so any other process may come between two accesses, and a
process may die between them, or in the middle of a write, which then leaves a
torn file.

No step of the program touches the state of two parts, so `Workstation` composes
them by interleaving.  A behaviour follows one part, `focus`, from each of its
initial states while the others keep one of theirs, which keeps the sum of the
parts from becoming their product.  `Workstation_proofs` shows that this is
sound: `Composition` proves that a behaviour of the workstation is one of every
part, and the next theorems carry what is proved of a part over to the whole.
No fairness is assumed: these commands are typed by a user and may be killed,
and all that is claimed of them is safety.

The run `workstation` checks everything in this section, about 1.4 million
states.  Its bounds: two processes wherever processes meet (the commands on sealed keys come
one after another: one operator looks after them), one plugin file in
the home and one in the project with two builds and three commands (an install, and
two others that disturb it); two knowledge files with two texts; two callers,
a circuit that opens at two failures and three failures in all, so that it opens,
is probed, and opens again; one pod with three sets of traits and one edit; two
turns of two chats; logs that rotate at two lines with five events, so that a
rotated copy is itself replaced; two keys and two passphrases; two upgrades; three
generations of sealing keys, and a backup reached from two hosts under two spellings
of its path; two environments with one to begin with; four projects
and one edit.

| part | property | what it says | what breaks it (the mutant) |
|---|---|---|---|
| `PluginRegistry` | `RunsWhatWasTrusted` | the content a plugin command is about to execute was registered by somebody under that name, unless the file was replaced after its checksum was compared | the checksum is computed and not compared |
| | `LoneInstallRuns` | an undisturbed install that saves the registry leaves a whole plugin it vouches for | the error of `io.Copy` dropped |
| `KnowledgeIndex` | `CompleteRunAgrees` | a complete run leaves a manifest that is true of the store | an error half way through `AddDocuments` is only logged |
| `AiClient` | `KeepsBreakerPromise` | refinement of `Breaker`: an open circuit admits nothing before its cool-down, and closes only on a success after it | any success closes |
| | `GivesUpOnlyOnFailures` | a call that starts while the circuit is open outlives it | the retries end with the cool-down |
| | `NoTextTwice` | text that reached the user is not sent again | the retry does not ask the writer |
| `SentinelScan` | `FixedFindingsGone` | what `--fix` patched is not found by a new scan, whatever was patched after it, unless its pod was replaced | a finding gets a patch that does not mend it |
| `BardChat` | `AnswersFollowQuestions` | an answer in the history comes right after its question in its session | a question is taken while another is answered |
| `HomeFiles` | `HomeFilesKept` | the last events and all credentials are there, except in named cases | `Save` starts from an empty map |
| `SelfUpgrade` | `AlwaysRecoverable` | a whole program is in place or at `.bak` | the checksum is not verified |
| `SealedKeys` | `LastBackupRestores` | a backup reported done is intact, and accepted on the host and under the path of its making and nowhere else; keys reported restored are those of a running controller; a cluster left without keys is not reported as a success | the pod is not restarted |
| `Environments` | `EnvironmentsHold` | the current environment is defined, each has its values file | `use` does not look whether the name is there |
| `AtlasScan` | `DiagramsAgree` | no loose edge; a project at rest has all its selections and chart dependencies drawn | the overview keeps only the nodes edges start from |
| all | `TypeOK` | the conjunction of the parts' type invariants | a call that ages without bound |

### What each part stands for, and what it shows

**`PluginRegistry`.**  A place is a directory and a base name; its content is a
build or `PartialFile`.  `command[p].pc` is where process `p` is: `create` and
`copy` are the two halves of `copyFile`, `trust`, `load`, `open`, `write` those of
`TrustPlugin`, `check`, `hash`, `exec` those of `IsTrusted` and the call.  `seen` is
the entry a command read, `hashed` the content its checksum was computed from.
The file is executed by its name later (`executor.go:99`, then 130, 154 or 179), so
a file replaced in between is executed unchecked: `RunsWhatWasTrusted` speaks of
the content that is there at the call and excepts exactly that window.  The
registry is found by base name, so a home entry also vouches for a project file
of that name with the same content.  Shown on the way: an install that is refused
has truncated the plugin by then (`manager.go:553`); a local install over a file
an interrupted download left is not executable; a torn `trusted.json` blocks every
later trust and every checked run.  Left out: the JSON of the hooks and the time
limits of child processes.

**`KnowledgeIndex`.**  `indexing` is the run in progress with its maps; hashing and
reading a file are two steps, an edit may come between them (`raced`), and a
deletion the store refuses is only logged (`kept`).  Those two are the exceptions
in `CompleteRunAgrees`; a third, a run after one that failed, is its premise
`agreed`, since a text added by a run that saved no manifest may be reverted before
the next one.  When no files are left the run returns early and deletes nothing.  A
changed embedding provider is not noticed by the manifest.

**`AiClient`.**  `call[c].pc` follows one call through `RetryProvider`,
`RateLimitProvider` and the provider; other decorators of `wrapProvider` keep no
state that could stop a call.  A tick is the longest back-off: a call makes an
attempt between two ticks, unless its provider takes longer to answer.  The
constants keep the ratios of the code: the 30 seconds of the cool-down are shorter
than the two minutes of retries, which is all the proofs assume.  A 429 with
`Retry-After` is slept twice, in `recordResult` and in `classifyError`, so that such
a call may use up its time.  A limit below one request per second makes a bucket
of size 0 (`noBurst`), which admits nothing; it is the exception in
`GivesUpOnlyOnFailures`.  Left out: bard's own retry loop around the client, which
does send a text again, and the choice of a provider.

**`SentinelScan`.**  A part of a pod is a set of traits, a check an operator on
them, and `Patched` what the strategic patch of `generator.go` does to them.
OPA and Polaris, when they found anything, replace the checks, and their findings
get no patch.  `runAsNonRoot` on a container that asks for user 0 is reported as
applied and changes nothing that the check looks at: this exception is spelled out
in `FixedFindingsGone`.  The server may refuse any patch; it does refuse most
changes to the containers of a running pod, which ones depends on its version, so
that letting it accept them all is an over-approximation.  The patch of an escalation precedes that of a privileged
container and the API server refuses it.

**`BardChat`.**  A chat is its session, whose identifier is the time to the second
(`main.go:226`): two chats that start in the same second share one, and are left
out.  `chat[c].pending` holds the answers being worked out, by a
command of the full-screen interface or within the loop of the plain one.  A line
longer than 64 KiB hides all later ones from the reader (`long`), `/clear` leaves
in the prompt what it removed from the file, and a tool of the home directory wins
over the project's tool of the same name, although `loader.go:28` says the
opposite.

**`HomeFiles`.**  A behaviour follows the audit log, the telemetry log or the
credentials.  `overtaken` records that one process renamed a log another had just
rotated, or wrote to one that was rotated after it had opened it: events are lost
in no other way.  `spinning` is the loop of `ReadEvents` after a torn line, which
does not end.  A credentials file that cannot be decrypted counts as empty and is
overwritten by the next save (`credsDisturbed`).

**`SelfUpgrade`.**  Names refer to inodes, so a shell that writes through a
descriptor whose name has been moved is represented.  Two upgrades that overlap may
lose both programs; `overlapped` records that.

**`SealedKeys`.**  The cluster's key secrets, the keys the controller has loaded,
the backup and its HMAC.  A command is a sequence of `kubectl` calls any of which
may fail.  The HMAC is keyed with the host name and the path as it was
typed (`service.go:19`): an intact backup is refused on another host, and under
another spelling of its path, which `BackupAccepted` says in so many words.
`vouched` is the content and the HMAC key of the last backup reported done,
`restored` the keys last reported restored.  The pod's deletion and the
controller's next start are two steps, and so are asking for a restart and having
it.  Commands interleave with the controller, which restarts and renews keys at any
time, and not with each other.  Rotation deletes all active keys, although the text of the command says the old ones are
kept for decryption; if it stops before the restart, the controller goes on with
keys that the cluster no longer holds.

**`Environments`.**  A command reads the manifest, changes its copy and writes it
back; `values` comes before `save`.  Two shells lose each other's environments, but
a copy, however old, names only environments whose values file exists, since
those files are never removed.  `yby init`, which writes the manifest before the
values files (`init.go:239`, `301`), is not among the commands here: the project is
one whose init is over.  A torn manifest may parse with fewer environments,
which is the exception `envTorn`.

**`AtlasScan`.**  A file declares resources and references; each analyzer is an
operator from files to resources and relations, `survey` is the scan of one call,
file by file, while the user may edit the project (that all manifests are searched
for the mark of SOPS is one step).  `DiagramsAgree` compares
what is drawn with what the project says, stated without the analyzers: the
declarations of its plain manifests and charts.  Seen on the way: a Service selects
by labels in every namespace, node identifiers merge `a-b`, `a.b` and `a/b`,
`connects` edges of a compose file follow the order of a Go map, so two runs may
differ, and an emptied project leaves the old diagram.  Languages, frameworks, the
C4 diagram, cycles, diffs and metrics are left out; no command calls the last
four.

### Proved

All properties of the table, for every value of the constants, and for the
workstation as well as for the part they are about.

`Assistants_proofs`, for any constants with a cool-down shorter than the time for
retries, and any number of callers, files, chats, pods and projects:

- *AI client.*  `Patience` says that a call untouched by a failure is never older
  than the time since the last failure, unless the cool-down is over.  So when an
  open circuit refuses it, it is young, and the cool-down ends before its retries
  do.  `NotDue` says that only a call in a back-off can have an attempt due, which
  no tick overtakes.  The refinement of `Breaker` is proved step by step: every
  action is an action of `Breaker` under the mapping or leaves its variables
  alone (`StepMaps`).
- *Index.*  `EntryFits` and `StoreFits` say of each file what the run knows of it:
  it has no entry yet, or the one the manifest had, or one of the text that was
  read; and what the store holds by then, step by step.  At the save they say that
  the two agree.
- *Chat.*  `AnswersAwaited`: a chat awaits at most one answer, and the last line of
  its session is then the question, unless a line of that chat was lost or cleared.
  The other lines in the file may be of any chat.
- *Scan.*  `AppliedOK`: every finding that was fixed has a patch and, unless its
  pod was replaced since, is settled.  The lemmas below it go through the checks:
  the patch of each one settles what it found, and no other patch adds what another
  check looks for.
- *Atlas.*  `Heard`: an undisturbed run knows of each file it has read what is in
  it, so when nothing is due any more the analyzers have what the project says.
  From there the relations and the nodes they need are followed through the two
  levels of detail and the names given to nodes (`Complete`, `Closed`).  The proof
  found a gap in what had been checked: a dependency between charts holds of the
  diagram only if a directory has one `Chart.yaml` that describes one chart, which
  is now the assumption `OneChart`; and what the diagram leaves out on purpose,
  nameless charts and templated names, is excluded from `Selections` and
  `ChartNeeds`.

`SharedFiles_proofs`, for any number of shells and of what they work on:

- *Upgrade.*  The step of the one upgrade that replaces the binary is tied to the
  inodes: until the new file is whole the backup runs, and the file being written
  is not the backup.
- *Environments.*  The copies about to be written promise what the file promises,
  and values files are never removed.
- *Home files.*  `LogHolds`: while no writer was overtaken, the log and its
  predecessor hold the last lines written, in order and without a gap, and the
  predecessor is full unless nothing was ever dropped.  `CredsHold`: the file is
  what is expected of it, or will be when the only process about to store has
  done so.
- *Sealed keys.*  `BackupHolds`: a backup that is vouched for is whole, and its HMAC
  is that of its content under the key it was made with; between the two writes of a
  backup the file is the one the HMAC will be of.  `ClusterHolds`: keys reported
  restored are in the cluster, so any controller that starts has them; an empty
  cluster belongs to a rotation under way, or to a command that failed.
- *Plugins.*  `CommandFits`: what a command has read of the registry was trusted
  once, and at the call so was what it hashed, being equal to it.  Trust is a set that only
  grows, so another process may come in between; what the file holds at the call is
  then trusted, or is not what was hashed.  `LoneFits`, for the installs: at each step of a command that nobody
  overlapped, what is in its file and in the registry it read.

`Workstation_proofs`: `Composition`, from which each of the thirteen properties
follows in one step, and `WorkstationTyped`, the type invariants of the ten parts.

To be within reach of the provers, some operators are written over sets of
numbered things instead of selected sequences: the lines of a history, the places
of plugins, the checks of a scan in the order of the registry.  That the least of
a set of numbers exists is proved from the well-founded order of the naturals
(`LowestExists`).
## 9. What is checked only, and what is not modelled

Model-checked on small instances and not proved: the liveness properties
`RoundTripReturns`, `CancelEnds`, `ConvergesUnlessStuck`, `RetriesInstall` and
`ConvergesWhileRefreshing`, which need fairness and ENABLED, and those the prover
does not treat.  Every other property of a passing run is a theorem.  No module
uses a RECURSIVE operator; what would be an induction over a sequence is stated
over its numbered elements instead, where the well-founded order of the naturals
is enough.

The `expect: violation` runs are kept as they are: each shows that a comment, a
flag description or a document promises something the code does not do, with the
shortest execution that shows it.  They are listed under `findings`.

Not modelled, with reasons, are the components with status `not_modelled` in
`PROJECT.json`: calls of external tools without state of their own, rendering
and printing, and the parts section 2 names as left.  The embedding cache is of
one process and its only race computes a vector twice; a provider that answers
with fewer vectors than texts would make it panic.  Network access keeps nothing between two calls.

In the core modules a write of a file is one step, or is lost as a whole
(`Bootstrap` counts a torn checkpoint as an absent one); in the workstation's
modules a write may also be cut short.  Time is the order of events, except in
`AiClient`, which has ticks.  The contents of files, tokens and resources are
members of small sets.
