# ginger-infra in TLA+

A model of [ginger-infra](../src/README.md): the agent that runs scripts on
devices on behalf of an executor service, and the Kubernetes controllers around
it. TLC checks small instances; TLAPS proves every safety invariant and action
property that they check for every value of the constants.

## 1. The system

    PipelineRun ── CustomRun ──> remote-task-controller ──> TaskRun (runner pod)
                                                              │ entrypoint.sh
                                                              v
                                              ginger-infra rpc (SSE client)
                                                              │ HTTP
                                                              v
                                                     executor service (external)
                                                              │ call "execute"
                                                              v
       notification broker (external) <══ websocket ══> ginger-infra start (device)
                                                        WAMP client + handlers

### Inventory

| component | code | state it keeps | operations | interacts with |
|---|---|---|---|---|
| WAMP client | `wamp_client.rs` | pending map, publish channel behind a mutex, connection, ping state, backoff | `call`, `publish`, `listen`, `register`, inbound dispatch | broker; every handler and the heartbeat share one client |
| execute handler | `start.rs` 128-374 | `/tmp/{job_id}`, the child process, two stream tasks | one inbound RPC per job | publishes logs and the terminal event through the client, its return value is the reply |
| heartbeat | `start.rs` 761-888 | presence channel, consecutive failures | a call every 5 s, re-fetch after 3 failures | client, presence service |
| device handlers | `start.rs` 376-758 | the certbot lock file, certificates, scripts with piped output | install_ssl, self_update, delete_cluster, create_cluster, setup_gateway, delete_gateway | certbot, scripts, the runtime's threads, the whole process (exit) |
| CustomRun reconciler | `customrun.rs`, `taskrun.rs` | none of its own; status of the CustomRun, the TaskRun | reconcile | API server, Tekton, its own watch |
| RemoteTask reconciler | `remotetask.rs` | phase of the RemoteTask, its TaskRun | reconcile | the same TaskRun names |
| restic controller | `restic-snapshot-controller/main.rs`, `resticrestore.rs` | phase of each ResticRestore, backup and restore jobs | cron sweep, reconcile | API server, pods that mount a PVC |
| restore CLI | `restore_restic_backup.rs` | a deadline | create a ResticRestore and poll it | restic controller |
| rpc CLI | `rpc.rs` | SSE buffer | post a job, follow its stream | executor |
| plan, dry run | `plan.rs`, `run_dry_run.rs` | `values.memory.json`, `build/` | resolve values, render templates, diff | files, shell, kubectl; every command of the directory |
| rollout, verbose replace | `rollout.rs`, `verbose_replace.rs` | cluster objects | plan, then apply per file; render one file | `build/`, kubectl |
| helm installer | `install_helm_charts.rs` | `helm-build/`, releases | render, then install | helm |
| fixture loader | `load_fixtures.rs` | databases | drop, create, load | kubectl exec, psql |
| upload | `upload.rs` | the file's position, the part number | session, parts, finalisation | bucket service |
| restic controller installer | `install_restic_controller.rs` | seven objects in the cluster | check, then apply one by one | API server |
| command line | `main.rs` | none | dispatch to all of the above but the controllers | |
| autoclean | `autoclean.rs` | cron entries | two scheduled scripts | shell |
| tekton CRD installer, portal installer, entrypoint | `install_tekton_crd.rs`, `portalInstaller.rs`, `entrypoint.sh` | none | one request each | kubectl, IAM service |

### What is hard, and what makes each part correct

* **WAMP client.** Tasks of a multi-threaded runtime share a map, a mutex and a
  bounded channel with a loop that reconnects. A call must be resolvable as long
  as it waits, return what its own callee answered, leave nothing behind, and
  leave the client whatever dies; a dead link must be noticed; SIGTERM must end it.
* **execute.** Two stream tasks and a handler publish through one lock; the
  executor closes the stream at the terminal event, so nothing may follow it;
  jobs share `/tmp`; the cleanup script should run whatever happens.
* **CustomRun reconciler.** Stale watch copies, lost answers, restarts,
  overlapping controllers, names that are used twice. A script must run once, a
  result must be real and final, and every run must end.
* **RemoteTask reconciler.** The same, and it looks TaskRuns up by name where the other
  one looks by label, in the same namespace of names. Running must be backed by a
  TaskRun, and a task must be handed off.
* **heartbeat.** The device must be announced again after any outage, without
  hammering a channel nobody listens to.
* **install_ssl / self_update / scripts.** A blocking flock on a runtime thread, an exit
  under running jobs, pipes nobody reads. Every request must be answered.
* **restic controller.** Check-then-act on mounted PVCs, a restart in the middle of
  a restore, overlapping sweeps; a restore must never run beside a writer or twice.
* **plan, dry-run, rollout, helm, verbose-replace.** Sequential processes over shared
  directories without a lock. Each step may fail or be the last one before Ctrl-C. What is
  applied must be what was rendered, all of it, to the cluster it is for; a secret
  that was generated once must stay.
* **load-fixtures.** It drops before it loads: whatever is left must be reported.
* **upload, rpc.** Lost answers and streams in arbitrary pieces: an object is the whole
  file, a success is a success, and no command waits for ever.
* **Installer.** Seven objects that refer to each other, replaced one by one.

The full list, each at its line with the properties that cover it, is in
`PROJECT.json` under "hazards".

## 2. Modules

| module | models | kind |
|---|---|---|
| `WampClient` | `wamp_client.rs` | component |
| `CallPromise` | what `call()` promises (l. 391-392) | abstract specification |
| `WampRefinement` | WampClient implements CallPromise under distinct ids | refinement |
| `WampClientProofs` | theorems about WampClient; it implements CallPromise, without its fairness | TLAPS |
| `JobExecution` | the execute handler, composed with WampClient | composition |
| `CustomRun` | `customrun.rs`, `taskrun.rs` | component |
| `CustomRunProofs` | theorems about CustomRun | TLAPS |
| `RemoteTask` | `remotetask.rs`, `remote_task.rs` | component |
| `TaskControllers` | the controller process (`remote-task-controller/main.rs`): RemoteTask with CustomRun | composition |
| `ResticController` | `restic-snapshot-controller/main.rs`, `resticrestore.rs`, `restore_restic_backup.rs` | component |
| `ResticProofs` | theorems about ResticController | TLAPS |
| `DeviceHandlers`, `Heartbeat` | `start.rs` 376-758, 761-888 | components |
| `Device` | both in one process | composition |
| `Workspace` | `plan.rs`, `run_dry_run.rs`, `rollout.rs`, `install_helm_charts.rs`, `verbose_replace.rs` | component |
| `Fixtures`, `Upload`, `RpcCommand`, `Installers` | `load_fixtures.rs`, `upload.rs`, `rpc.rs`, `install_restic_controller.rs` | components |
| `TaskProofs`, `DeviceProofs`, `JobProofs` | theorems about TaskControllers, Device, JobExecution | TLAPS |
| `CommandProofs` | theorems about Workspace and Installers | TLAPS |
| `ProgramProofs` | theorems about Fixtures, Upload, RpcCommand and GingerInfra | TLAPS |
| `GingerInfra` | `main.rs`: any one of the components above that the program runs | composition |
| `MC...` | small instances for TLC: symmetry sets, loads and cases | instances |

Definitions named "Mutant of ..." in their comment are variants of the definition
that follows them with one plausible mistake. They are not part of any
specification; they document which mistake each property detects.

### WampClient

A task is one invocation of `call` (`Calls`), `publish` (`Publishes`) or one
inbound RPC event (`Rpcs`); each puts at most one message into the channel, so
messages are named after tasks.

| state | code |
|---|---|
| `phase` | where `listen()` is: before, top of the loop, backoff, connecting, inner loop, in the body of one of its branches (`Inside`: writing a ping, a message or a refusal), close drain, returned |
| `attempt`, `shutdown`, `waiting` | `attempt`, the watch channel, `waiting_for_pong` with `pong_timeout` |
| `link` | whether the TCP connection really lives (not visible to the code) |
| `lockQ` | the tokio mutex around `publish_tx`: it is fair, so it is the sequence of holder and waiters |
| `outq` | the mpsc channel of capacity 32 |
| `hand` | the message taken out of the channel whose write to the socket has not ended |
| `delivered` | history: what reached the broker |
| `pc`, `result` | where each task is, what it returned |
| `corr`, `pending`, `slot` | correlation ids, the pending map, the oneshots |
| `answer` | what the callee of each call answered |

One action per step between two awaits. `CallStart` is the insertion into
`pending` (ids are any elements of `CorrIds`, because `uuid()` is the clock in
milliseconds), `CallPublish` / `CallPublishFails` the lock-protected send and its two `?`
returns, `CallReturns` / `CallTimeout` the two ends of the 30 s wait. The inner
`select!` is biased: `Serving` excludes every branch after the shutdown branch
once the signal came, `Receiving` excludes the inbound branch while a message
waits in the channel. The body of a branch awaits its write to the socket (l. 327, 347, 569), and
no other branch is polled until that ends: neither SIGTERM nor a timer is noticed meanwhile.
Such a branch is therefore two steps, `PingTick` and `PingWritten`, `OutboundTake` and
`OutboundWritten`, `InboundUnknown` and `RefusalWritten`. A message is taken out of the channel
before it is written, so on a dead link `OutboundWritten` loses it. `handle_message` is
`InboundReply`, `InboundUnknown` and `InboundRpc`; a reply that finds no entry is
ignored, which is how late and repeated replies are handled.

Abstracted: payloads (ok or err), times (any timer may fire when it is armed), the
number of a connection attempt beyond `BackoffCap`, topic names.

### JobExecution

Every handler is a task that WampClient's `dispatch_rpc` spawned, every log line
and terminal event a publish of WampClient: `INSTANCE WampClient WITH Rpcs <-
Jobs, Publishes <- JobEvents`, no calls. `stage` follows the handler through
its awaits; `files` is `/tmp/{job_id}` for every id, with the job whose `run.sh` and
`cleanup.sh` it holds; `ran` records whose script each job executed. Each `?` is a
disjunct of `PrepareFails` or `WaitFails`. That `wait()` returns (`ScriptExits`) and that the stream tasks
are joined (`StreamsJoined`) are two steps: once the script was waited for, only the stream tasks can
let the handler go on. A child that `run.sh` left in the background may keep its pipes open, and with them the
stream tasks, after the script ended: such jobs are in `held` until `BackgroundEnds`. `Exited` is what `main` does when
`listen()` returns: everything stops where it is.

### CustomRun

A reconcile is a sequence of requests to the API server (`Start`, `Find*`,
`Resolve`, `Create*`, `Patch*`) on behalf of `snap`, the copy that the watch
delivered some time ago (`cache`). Each request may fail, and creation and patch
may succeed with their answer lost. Each way out is one of `AwaitChange`,
`Requeue` (5 s) and `Err` (15 s), as in the code. `Controllers` has two elements
where the question involves overlap: the Deployment that
`install_tekton_crd.rs` renders has one replica and the default rolling update,
and there is no leader election. kube's controller reconciles one copy of an
object at a time, so there is one `pc` per controller and name.

`taskrun` is the one object that can bear the name `<name>-exec`; `maker` says whether it has
this controller's label. `started`, `twice`, `removed` and `verdicts` are history.
The API server, the garbage collector, Tekton, users and kube's watch are external and
modelled by how `customrun.rs` uses them.

### ResticController

The workers of the process are the reconciles of `Restores` and the `Sweeps` (one per
cron tick, nothing keeps two apart). Both go through `run_backup_job`, whose steps are
`CreateOk` / `CreateFails`, `WaitSees` / `WaitFails` and `Delete`; what follows is
`AfterJob`. `pc` names the request a worker is about to make, `cache` the phase
in the watch's copy, `mine` the Job in a worker's hands. A Job is `created`, then
has a pod (`running`; `ending` once it was deleted in the background) and finishes
`ok` or `failed`. `HasPod` is what `pod_attached_to_pvc` counts: pods that have not
succeeded or failed, those being deleted included. `cli` is the command that made the
ResticRestore. History: `restored` (a Job of that restore succeeded), `freed` (its PVC was free
at some moment since its reconcile began), `strays` (Jobs whose creation was not
acknowledged, whose deletion failed, or whose process died).

Abstracted: scripts, labels, logs, snapshot ids, and the PVC's attributes, which stay as
they are (`volume`).

### RemoteTask and TaskControllers

`RemoteTask` extends `CustomRun`, whose `taskrun` it shares: the CustomRun `x` and the
RemoteTask `x-exec` both want the TaskRun `x-exec`, and a name of `Runs` stands for both.
`GetOk` takes any TaskRun of that name, `TaskCreateOk` a 409 for it. `task`, `copy`, `due`,
`at` and `forUid` are what `run`, `cache`, `queued`, `pc` and `snap` are in CustomRun;
`maker = "other"` is a TaskRun without the CustomRun's label. In `TaskControllers` the two
reconcilers run side by side and `RestartBoth` restarts both, as they are two futures of one
process. `load` fixes at the start what users do, to keep the cases small: names used
twice with deletions, or both kinds of object under one name without deletions.

### Device

`pc` is where each request is. `Alive` is what tokio needs to poll a task: the process
runs and a worker thread is free. A request in `flock()` (`blocked`) keeps its thread;
everything else the handlers wait for does not. The kernel hands the lock to a blocked thread
without another one (`FlockReturns`), whereas `SslEnds`, which unlocks, needs one: that is
the deadlock. What certbot did and how it exits are independent (`CertbotEnds`): `SslResult` goes by the status, the
test for a certificate by what is there. Waiting for a process can fail even when it succeeded. `big` says to which pipes a script writes more than they hold, `Drained` which of
them its handler reads. `Exit` is the timer task of self_update.

`Heartbeat` has one action per step of the tick. `link` is `dead` while only the network
knows; a call needs `link = "up"` and a channel where the presence service has listened since
the call began (`reaches`). `announced` and `stale` are history.

### Workspace

A command is a sequential process (`at`); `memory` is `values.memory.json` (cut, empty, or with the value
kept), `known` the commands that have the value in their own memory, `build` and `helmBuild` say for every
file which command wrote it. A write is a truncation and a
write (`CutMemory`, `WriteMemory`), so that kills and other commands can come between. The one
`onceshell()` is started (`OnceBegins`, counted by `executions`) and ends (`OnceEnds`), well or not. `mishaps` counts
what may cost another run: beginning to resolve values while another command does, and a kill or a failure between the start of the
shell command and the end of the write of its value (`Losing`). A file's place is
decided by `Target`: the first `.envrc` that is present at that moment on the way `Up` from the file's directory to
build/. A rollout, dry-run or install that fails part of the way leaves the part behind (`HelmWipeFails` some files of the
earlier helm-build/, `HelmRender` a resources.toml without what belongs to it). `disturbed` is history: commands that used a
directory while another one removed or wrote it. There is no lock that would keep them apart, and the
properties about whole results are stated for the commands that were not disturbed; what they then exclude is said
in each. `huge` are the files for which kubectl prints more than a pipe holds before it read its input.

### Fixtures, Upload, RpcCommand, Installers

* `Fixtures`: `db` says of each database whether it exists and whose SQL it took. A load
  that succeeds means that psql came to the end of the file: without `ON_ERROR_STOP` it exits 0 after failed statements.
* `Upload`: a part is as long as the read that filled it; the answer to a part or to the
  finalisation may be lost.
* `RpcCommand`: every event is a line, every line two halves, a chunk ends after any half. A
  line that came in two chunks may be harmed by `from_utf8_lossy`. A `done` whose exit code is not 0 is the event
  `doneBadly`, which the client reports as an error; the executor's steps are external.
* `Installers`: `cluster` keeps of each of the seven objects whether it is there and what others refer to:
  namespaces, the secret, the subject.

### GingerInfra

The components of the program that share no state with each other are checked in one run: `component` is chosen
in the initial state, and a behaviour consists of steps of that one, with its own
commands, requests and failures overlapping as they like. `Benches` are the cases of
`Workspace`: a plan that may overlap with a rollout, with kills; two rollouts in turn with a huge file; a dry-run
and a verbose-replace in turn with kills; two installs in turn with kills, between which charts are taken away.

## 3. Runs

Passing runs:

| run | question | bounds | distinct states |
|---|---|---|---|
| `client_safety` | are calls resolvable, own, leak-free; do calls that draw the same id stay apart? | 2 calls, 1 publish, 1 RPC, 2 ids, capacity 1, backoff cap 1 | 794 000 |
| `client_live` | does the client implement CallPromise, does everybody get out, is a dead link noticed, does SIGTERM end it? | 2 calls with distinct ids, 1 RPC, capacity 1 | 155 000 |
| `jobs_two` | does a job run its own scripts? | 2 jobs, 2 ids, no output | 1 580 000 |
| `jobs_stream` | is a job's stream in order, and does its handler return? | 1 job, 2 streams, 2 lines each, capacity 1 | 281 000 |
| `customrun_safety` | one TaskRun per CustomRun, success real? | 1 name, 1 uid, 2 controllers, all forms, TaskRun names that collide with somebody else's | 1 500 000 |
| `controllers_live` | is success real and final, does every CustomRun end and every RemoteTask get handed off, is Running backed by a TaskRun? | 1 name used twice by either reconciler or shared by both, 1 controller | 52 000 |
| `restic_safety` | success real, no restore over a pod that stays, one writer per restore, no Job left behind? | 1 restore, 1 sweep, 1 PVC, 2 Jobs at a time, 1 restart | 920 000 |
| `restic_live` | does every restore end once its PVC is free? | 1 restore, 2 Jobs at a time, 1 restart | 134 000 |
| `commands` | are the handlers answered, is the device announced again, is what the other commands leave behind whole or reported, and do they end? | 3 install_ssl on 2 threads and 2 domains, 1 script, 2 updates; 3 moves or outages; 2 commands over 2 clusters and 3 directories, one inside another; 2 loaders of one database; 4 units in reads of up to 3; 2 log lines; 2 installs | 48 200 |

Why these bounds are enough to be interesting: two calls and two ids allow both
distinct and equal ids, and a late reply to an id that was taken over; capacity 1
makes the channel full with a second task behind the lock holder; one publish and
one RPC are enough to hold the lock while a handler ends. Two jobs are what it takes
to share a directory; two lines per stream let a line wait while another is in
flight. CustomRuns with different names share nothing the reconciler writes, so one
name suffices; two uses of a name are what it takes to mix up incarnations, two
controllers what it takes to race. One restore whose reconcile is repeated is enough
for two of its Jobs to meet; a restart, a lost answer and a failed deletion each leave
one Job behind. Three install_ssl requests on two threads are one more than fit: with two the lock holder's thread is always free, so the bound of `JammedByLoadOnly` is met exactly.
Two domains tell a cached certificate from one of another domain. Three troubles let the presence service move while the
link is down and move again after the fetch. Two commands are what it takes to disturb each other; three directories give a file beside its `.envrc`, one
below it and one without. `controllers_live` and `commands` do not check the interplay of names, directories or clusters beyond two users of each. `restic_safety`, `restic_live` and `commands` do not check deadlock: when all
restores or commands have ended and nobody asks for more, the system rests. Symmetry is used in the safety runs only, over
sets of model values that no definition tells apart.

Bounds that are part of the modules: `BackoffCap` (the backoff stops growing at 6
attempts, beyond it the counter only feeds a log line), `Lines`, `MaxUid`, one deletion by a
user per TaskRun owner (`Prune`), `JobIds` (Jobs that exist at the same time) and `MaxRestarts`.

Runs that show a disagreement between the code and what it says of itself:

| run | what happens |
|---|---|
| `client_replydrop` | a handler's result is dropped because another task held the publish lock at that moment |
| `jobs_endlost` | the terminal event is lost on a dead link, the reply arrives on the next connection |
| `restic_overlap` | two restores of one PVC both find it free, and their pods write into it together |

More that the models contain without a run of their own:

* SIGTERM ends the process with `run.sh` started and `cleanup.sh` not run (`Exited` in
  JobExecution), while README l. 112 says it "always runs — even on failure or cancellation".
* A reconcile of a stale copy of a CustomRun overwrites the terminal status it was given
  meanwhile (`Start` in CustomRun looks at `cache`). `SuccessIsFinal` holds as long as nobody
  deletes the TaskRun, because the same result is mirrored again.
* A restore that succeeded is repeated when the patch that says so fails or when
  its copy is stale (`PatchFails`, `Start` in ResticController), over whatever the PVC holds by then.
* Two calls in the same millisecond share a correlation id, and one may return the
  other's Ok. `OwnReply` and the refinement are stated for calls whose id nobody
  shares. In this binary only the heartbeat uses `call()`, one at a time, so the
  collision needs a second caller of the shared client.
* A 409 caused by somebody else's TaskRun counts as success: the CustomRun is
  patched running and no TaskRun is ever found for it while the other one exists.
  `RunsEndUnlessNameTaken` names that case.
* A CustomRun re-created under its name before the garbage collector removed its predecessor's
  TaskRun takes over that one's result, because only the label is compared (customrun.rs l. 480); a re-created
  RemoteTask is marked running by it. `SuccessIsReal` and `RunningIsBacked` say what is kept.
* Nothing ever takes a RemoteTask out of Running: `reconcile_remote_task` returns on every phase but Pending.
* As many install_ssl requests as worker threads, waiting for the lock, stop the whole process while
  certbot runs (`Jammed`), the heartbeat included, and certbot's end goes unnoticed.
* delete_cluster never reads its script's stdout (`Drained`); rollout and load-fixtures write all
  input before they read output (`huge`, `chatty`): each waits for ever if there is enough of it.
* A device whose first fetch of the presence channel failed is never announced
  (`MayCall`), as only failed calls lead to another fetch.
* A child that run.sh leaves in the background with its stdout keeps the handler in `join!` (start.rs l. 269) after
  `wait()` returned, without a limit: no result, no cleanup (`held`).
* A broker that accepts the connection but reads nothing keeps `listen()` inside a write, and SIGTERM and the timers with it,
  until TCP gives up (`Inside`).
* certbot may exit 0 without a certificate and not 0 with one: the caller hears the status (`SslResult`).
* A plan under a running rollout makes it apply the other's files, or files without their
  `.envrc`, to the cluster of the caller's own KUBECONFIG.
* An install-helm-charts without a resources.toml in platform/ installs what an
  earlier one left in helm-build/ (`Start`, `HelmCollect`).
* A second install-restic-controller takes the rights of the first one in another namespace (`After`).
* autoclean.rs l. 52 passes a cron string with month 0, on which `expect` panics; l. 43 fires hourly, not daily.
* When the answer to the create request is lost, the CustomRun is failed with "failed
  to create TaskRun" while its script runs. `SuccessIsReal` has therefore no counterpart for failures.

### Fairness

* Weak fairness for every step of a task or of the loop that tokio will poll when it is
  ready: sends, timeouts, the ping tick, the pong timer, the backoff, the shutdown branch. `CloseDone`
  relies on the peer's close frame or on TCP giving up, and so does `WriteEnds`: a write to the socket ends
  because the peer reads on or because TCP gives up; the code sets no limit to it.
* Strong fairness of `ConnectOk` and `OutboundTake`: the broker is not unreachable
  for ever. Nothing in the code bounds a wait for a place in the channel, so without this
  assumption a call, a publish or a job can wait for ever.
* JobExecution: weak fairness of each step of a handler by itself (`HandlerFairness`). No failure is ever promised,
  except that of a write into a directory that was removed, which cannot succeed: so a handler whose stream task waits in `publish`
  gets out of `join!` only through that publish. run.sh ends when its output is read; its background child need
  never end, and `JobsReturn` exempts the jobs it holds.
* CustomRun: weak fairness of the watch, of Tekton and of the collector; strong fairness of
  the successful request, because the code repeats every failed one for ever and the
  API server is not down for ever.
* ResticController: as for CustomRun, and strong fairness of a successful patch for the phases
  that are not final and for those that are, because another request that succeeds says
  nothing of these. Weak fairness of the Jobs: pods are scheduled, end, and go when deleted.
* RemoteTask: as for CustomRun.
* Device: weak fairness of every step of a task while a thread is free, of certbot, the
  scripts and the installer (they end), and of the link's return; strong fairness of a fetch and of a call that get
  through, as the heartbeat repeats both for ever.
* Commands, loaders and the rpc client are sequential processes whose children end: weak
  fairness of a command that was started, unless it `Stalls`: a kubectl or psql that waits for its parent does not end. Scripts
  end, the executor closes no stream by itself. The rpc client has no timeout and no keepalive (rpc.rs l. 98-106, 125):
  `CommandsReturn` assumes that the network delivers what the stream holds, or its end; on a half-open connection
  the command would wait for ever.
* Nothing is promised of signals, failures, replies, users, or new work.

## 4. What is proved

`WampClientProofs` (for any sets of calls, publishes, RPCs and ids, any capacity; assumptions:
`WampAssumption`):

* `TypeCorrect`: `Spec => []TypeOK`, with the channel within its capacity.
* `WaitersAreRegistered`, `NoOtherLeaks`, `RepliesAreOwn`: the three invariants of
  `call()`. None is inductive. `CallInv` is: it adds that a call that has not begun
  has no id and no value (`Untouched`), that anything sent, queued or answered
  belongs to a call that drew its id (`Begun`), that a result is final
  (`FinishedOnce`) and that the value in the oneshot of a call in progress is
  already its own (`OwnSlot`). Only three kinds of steps touch the pending map:
  an insertion (`StartKeeps`), the removal of an entry with or without a value
  (`TakeKeeps`) and a call that moves on (`MoveKeeps`); every other action leaves
  the variables of `CallInv` alone or only grows `answer`, `delivered` and `outq`.

`CustomRunProofs` (for any names, number of controllers and uids; assumption:
`CustomRunAssumption`):

* `TypeCorrect`.
* `OneTaskRunEach`: `Spec => []ScriptRunsOnce`, by `TaskRunsStay`: a uid for which a
  TaskRun was made still has it, under the only name it can have, or it was
  deleted. So a second creation, which the API server allows only when the name is free,
  implies a deletion. The label lookup is not needed for this; the fixed name and
  the 409 are. The typing needs two more facts: a reconcile past `Start` has a
  copy of an object that existed (`CopyExists`), and TaskRuns of this controller
  have an owner (`OwnerKnown`).
* `SuccessIsTrue`: `Spec => []SuccessIsReal`, by `RealInv`: the status of the run, the verdict about to be
  patched and the status of the TaskRun it is copied from all stand for a success that Tekton recorded.
* `SuccessStays`: the action property `SuccessIsFinal`, for one controller (`OneController`), by `FinalInv`: while no
  TaskRun of the name was deleted, a success, reported or about to be, is that of the TaskRun that is there, and where
  it is reported no reconcile is past its lookup with another verdict. A stale copy does send a reconcile to the lookup,
  but what it finds there is terminal. With two controllers it fails, and TLC shows it: one may hold a "running" from before the other's
  patch, which is why the hypothesis is needed. It is satisfied by every Deployment that is not rolling.

`ResticProofs` (for any restores, sweeps, PVCs, Job ids and number of restarts; assumption:
`ResticAssumption`): every safety invariant that `restic_safety` checks.

* `TypeCorrect`, `SuccessIsTrue` and `NoJobForgotten` by `IInv`, which adds to them that
  a worker holds a Job exactly between its creation and its deletion and that this
  Job is its own and still there (`Holding`), and that a Job that ended well and a
  phase that is yet to be patched tell the truth as well (`Real`).
* `NotWrittenOver` and `OneWriter` by `Writing`, on top of `IInv`: a reconcile that goes on
  to its Job has found its PVC free (`Free`), its Jobs are about that PVC (`OwnPvc`), so
  no pod of a deleted Job is left when it goes on (`Alone`), and with the outcome of a
  Job it never starts over without looking again (`Decided`). A pod that starts then
  belongs to the Job its restore holds (`WriterIsHeld`), or to one nobody knows of.

`TaskProofs` (TaskControllers: for any names, shared or not, processes and uids; assumption:
`CustomRunAssumption`): `BothTypesCorrect`, `OneTaskRunPerTask`, `RunningHasTaskRun`, and
`SuccessIsTrueOfBoth` and `SuccessStaysInBoth`, which are CustomRun's `SuccessIsReal` and `SuccessIsFinal` in the
composition. The argument is
one of non-interference. `LabelledMoves` says all that the CustomRun
reconciler does to TaskRuns, seen from RemoteTask: it makes labelled ones where there is none and
removes only those. `LabelledKeeps` then carries `TaskInv` over every step of the
one reconciler, `UnlabelledKeeps` carries `RunInv` (the invariants of `CustomRunProofs`) over those of the other.
`TaskSparesOurs` does it for `FinalInv`. `TaskInv` needs that uids in copies and history were given out (`UidsGiven`), that a reconcile works for a
task that existed (`OwnersExist`), and that what is about to be marked running is backed as well (`BackedInv`).

`DeviceProofs` (for any requests, domains, threads, channels, moves and outages; assumptions:
`DeviceAssumption`, `HeartbeatAssumption`):

* `LockIsReturned` (`LockInv`: the lock is exactly where certbot runs or just exited) and
  `NoDuplicates`, which needs `CertInv`: a running certbot relies on there being no certificate for its domain.
* `NoJamBelowLimit` counts: the blocked requests and the holder of the lock, who is not one of them, are all
  in flight; with every thread blocked that is one more than there are threads.
* `StaleCallsAreFew` by `StaleInv`: the calls that went to a channel nobody listens to are at most the
  failures counted plus the call in progress, and the count is reset only when the channel was fetched.
* `EachAlone`: `Spec => DeviceSpec /\ HeartSpec`; the process runs each of its two parts as it is specified alone.

`WampClientProofs` has one more, which no run checks: `LockIsGivenBack` (`LockDiscipline`): the tasks in the queue of the
publish lock are exactly those between `lock()` and the end of their send, each once. A queue without repetitions is
joined at its end by a task that was not in it (`JoinKeeps`) and left by its head (`LeaveKeeps`); all other
steps touch neither the queue nor who is publishing.

Its last theorem is the refinement: `PromiseIsKept`, `DistinctSpec => KeepsPromise`. Under distinct ids every step of the client maps to a step of
CallPromise or to a stutter:

| WampClient | CallPromise |
|---|---|
| `CallStart` | `Begin` |
| `CallPublish` | stutter |
| `CallPublishFails`, `CallTimeout` | `GiveUp` |
| `CallReturns` | `ReturnVerdict`, or `GiveUp` when the loop dropped the call |
| the callee's answer (`Answer`) | `Decide` |
| every other step | stutter |

`ReturnVerdict` needs `CallInv` (the value in the slot is the callee's answer) and that nobody shares the id.

`JobProofs` (for any jobs, ids, streams, lines, channel capacity; assumptions: `WampAssumption`, `JobAssumption`):

* `JobTypes`: `JobTypeOK`, with the client's state inside the composition.
* `ScriptsAreOwn`: `RunsOwnScripts`, by `ScriptsInv`: from the write of a file to its execution the directory holds
  this job's, because only a job with the same id writes or removes there (`OwnFiles`), and a job that has not begun has
  no id (`Unborn`).
* `MessagesInOrder`: the action property `StreamOrder`, by `OrderInv`. The channel is first in, first out, but a loss
  takes its head away and the order in which tasks get the lock is arbitrary, so the order is stated of the
  queue itself, of the message in `hand` and of what was delivered (`QueueOrder`); it holds where messages are added because the
  handler announces the end when its stream tasks are joined and silent and returns when that is queued (`Joined`).
* `ClientAsSpecified`: `JobSpec => Spec`, the client's specification with the jobs as its RPCs and their events as its
  publishes. `JobsGiveTheLockBack` takes `LockIsGivenBack` over with it: the lock discipline proved once of the client,
  by instantiating `WampClientProofs`, holds under every interleaving of handlers and stream tasks.

`CommandProofs` (for any platform/, number of commands, clusters, installs; assumptions: `WorkspaceAssumption`, `InstallersAssumption`):

* `RunOnce`: `OnceMeansOnce`, executions are at most one more than mishaps, by `OnceInv`, which counts. The executions so far and
  the commands that found no value and have yet to run it (`Prospects`) are at most that many together. When one more command
  finds no value, either some command has yet to run it or to write it down (`Answers`), so that this one began while another
  was resolving and was counted as a mishap, or there is an execution to spare.
* `WholeRollout`: `RolloutIsWhole`, by `RollInv`: while an undisturbed command uses build/ nobody else renders, every
  file in it is its own or still to be rendered, and from the collection on each .yaml file is still to
  come, failed or applied (`Rolled`). `Bystander` is the non-interference of the other commands.
* `PlannedOnly`: `InstallsThePlanned`, by `HelmInv`, the same for helm-build/.
* `InstallFits`: `InstalledWorks`, by `InstallInv`: the install that started last is the only one under way unless it is
  in `together`, and what it has come past is as it wants it (`Owns`); by
  `FixedInv` the objects that carry no name of one install, which no install takes away, are there once any install
  came past them.

* `WorkspaceTypes`: `WorkspaceSpec => []WorkspaceTypeOK`, by `WorkspaceInv`. `RollInv`, `HelmInv` and `OnceInv` type what they are
  about; `FilesInv` adds the rest: what each command still has to do, did or failed are files of platform/, and
  each was rendered by a command.

`ProgramProofs` (assumptions: those of the components):

* Numbers. `LeastNumber` (stated in `CommandProofs`, which needs it too): every set of numbers that is not empty has a least member, from the library's fact that `<` is well
  founded on `Nat` and that a well-founded order has minima (`WFMin`). This takes the place of induction: the
  library's induction rules have an operator for parameter, which the provers cannot instantiate, but a least
  counterexample needs none. A greatest one is the least distance to the end (`LastTaken`).
* `ObjectsAreWhole`: `UploadSpec => []UploadIsWhole`, by `UploadInv`: there is a sequence of offsets such that part n is the
  file between the n-th and the next (`Covered`), whatever lengths the reads returned. What the service makes of these parts is the
  recursive function `Joined`. A function that satisfies its equation is written down, so the one that is chosen does as
  well, and the parts from n on are the rest of the file from offset n: there is no last n for which they are not (`JoinedIsFile`).
* `NoFixtureForgotten`: `FixturesSpec => []Accounted`, by `FixturesInv`: fixtures are taken in their order and each is
  reported or loaded (`Taken`), and for each database the last one taken is what it holds, or is reported, or is the one
  that is being loaded (`Filled`). `FixturesAssumption` says of the list of fixtures what the definitions take from it,
  that it has a length and that its lines are numbered.
* `PrintsWhatWasSent`: `RpcSpec => []RpcIsFaithful`, by `RpcInv`: what is printed goes as far as what arrived, in the order in
  which it was sent (`PrintedAfter`), a line is harmed only if a chunk ended inside it, and "done" is sent only after a success.
* `EachAsSpecified`: `ProgramSpec` implies the specification of every component in it (`DeviceSpec`, `HeartSpec`,
  `WorkspaceSpec`, `FixturesSpec`, `UploadSpec`, `RpcSpec`, `InstallersSpec`): a step of the program is a step of one and a stutter of the others
  (`StepOfEach`). So what is proved of each alone holds in the program.
* `EverySafety`: the ten safety invariants the run `commands` checks, all of `ProgramSpec`, by that theorem and, for the three
  about the device, by the conjunction of the components' inductive invariants (`ProgramInv`), because `Device` chooses its loads in
  its own initial states. `ProgramTypes` is `ProgramTypeOK` from the same conjunction.

With these every safety invariant and every action property that a run checks is a theorem.

Only model-checked: the liveness properties (`TasksReturn`, `DeadLinkNoticed`, `StopsOnSignal`, `JobsReturn`, `TasksHandedOff`,
`RunsEndUnlessNameTaken`, `HandlersReturn`, `AnnouncedAgain`, `CommandsReturn`, `RestoresEnd`) and the refinement with its
fairness, because `ENABLED` is out of the prover's reach; and the three findings, which are counterexamples.

## 5. Plan

Every component with state of its own is modelled. What remains worth doing:

1. Pure functions against reference definitions: reply classification (`make_reply`,
   `handle_message`: a payload with a key `is_error` or `result` is misread), value and template resolution
   of `plan.rs`, `.envrc` parsing.
2. The rpc command composed with JobExecution instead of with an executor that may lose any event.
3. Time: the requeue delays of the controllers (each `set_running` patches a new
   lastTransitionTime, and its own watch event starts the next reconcile at once), and how long the biased
   `select!` starves the inbound branch.
4. Proofs: `TaskControllers` as an implementation of `CustomRun` and of `RemoteTask`, each with the other in its
   environment, which needs the removal of somebody else's TaskRun as a step of `CustomRun`.

## 6. Not modelled

Payload encoding and the wire format, template syntax, manifests beyond the references between their objects, log output,
the executor, presence, bucket and metadata services (external), Kubernetes beyond the calls used. Of the components:

* `install_tekton_crd.rs` renders a manifest from constants and pipes it into one kubectl: no state, one failure path.
* `portalInstaller.rs` reads two files and makes one request.
* `autoclean.rs` has two cron entries and no state; what is wrong with it is in its two literals (above).
* `entrypoint.sh` is a straight line that ends in the rpc command.
* `main.rs`: argument parsing, the token check before `start`, and `deploy`, which is `todo!()`.
