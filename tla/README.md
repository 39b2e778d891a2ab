# server-kit in TLA+

This directory holds a model of what changes a server-kit host: the engine that
turns a confirmed change into one execution, the transactions that take a change
back unless it is confirmed, and the tasks that change services, ports, names,
nodes, proxy exits and keys. TLC checks it on small instances; TLAPS proves the
safety of the engine for every instance. Paths below are relative to the
repository.

## 1. The system

server-kit manages one Debian host. Administrators use a web site or a command
line; both talk over a Unix socket to one root agent. The agent reads the host
through `server-kit-manager.sh` and changes it only through *tasks*: previewed,
confirmed by an administrator, queued, executed one at a time, and recorded in
SQLite. Changes that could lock the administrator out are *transactions*: the
script applies them, arms a systemd timer, and keeps them only if an independent
login session confirms in time.

```
web / CLI --socket--> agent.py --> ControlPlane (core.py) --> ScriptRunner --> server-kit-manager.sh
                         |              ^   prepare / inspect / execute            |  change lock (flock -n)
                         v              |                                          v
                  ChangeTaskEngine (tasks.py)                       live files, units, rollback timers
                   server thread + worker thread
                         |
                   tasks.sqlite3
```

### Inventory

| Component | State | Operations | What is hard | What makes it correct |
|---|---|---|---|---|
| Change-task engine, `control_plane/tasks.py` | tasks table (state, owner, action, fact digest, ciphertext, result), worker thread, stop and wake events | preview, confirm, cancel, get, list, has_active_tasks; process_one; constructor recovery; maintenance; reconciliation | two threads over one table, facts inspected outside transactions, crash between a script and its record, windows of another task | serial execution, no replay, true outcomes, queue bound, no early discard, everything settles |
| Action catalogue, `control_plane/actions.py` | constant table | resolve, validate | its flags decide who may confirm, what blocks the queue | every guarded family is classified consistently |
| Control plane, `control_plane/core.py` | none | prepare_task_action, inspect_task_action, execute_task_action, cleanup_task_action | the digest must cover what matters | a stale preview is invalidated |
| Agent process, `control_plane/agent.py`, systemd units | listening socket | serve, activated listener | one request at a time, restart on failure | recovery is complete before the first request |
| Script runner, `control_plane/runner.py` | none | one subprocess per call | the answer may be lost after the effect | never reported as plain success |
| Public endpoint transaction, `server-kit-manager.sh` 1011-1474 | metadata, manifest, backups, outcome file, timer, five live artifacts | apply, confirm, rollback, automatic-rollback, transaction-status | crash between any two steps, timer against confirmation, retried restore | a closed window leaves all new or all old artifacts |
| VLESS listener transaction, `debian_vless_manager.sh` 622-930 | metadata, backups, outcome, timer | the same | metadata and configuration written separately | the same |
| SSH transactions, `debian_security_manager.sh` | pending directory, context file, transient timer | apply, confirm, rollback | timer lost on reboot, no outcome kept, nested firewall transaction | the administrator is never locked out |
| Firewall transaction, `debian_firewall_manager.sh` | pending directory, context file, transient timer | apply, confirm, rollback | the same | the same |
| Backup and restore, `lib/server_kit_backup.py` | archives, assurance, restore transaction, rollback archive, timer, context of the session | create, verify, delete, drill, restore apply / confirm / rollback / automatic rollback | files replaced one by one, a timer that outlives its window, a record of the opener written last | the files are all of the archive or all of before, and another session confirmed |
| Exit resolvers, `lib/server_kit_exit_dns.py`, `debian_vless_manager.sh` 1324-1410 | worker files and units, Xray's file, manifest | prepare, apply, probe, commit, rollback | four calls with a switch of Xray in between; the undo runs in an exit trap | no route to a worker that does not run; an undone refresh leaves nothing |
| AWG access and enrolment, `lib/awg_*.py`, `amneziawg-setup.sh` | node lists, policy and pending policy, interface, packet filter, enrolments | import, enrol, disable, enable, remove, permissions, reconcile | first handshake against expiry; five places to change per command | a node not yet seen is restricted; rights die with the node; enrolments end |
| VLESS access and the network page, `lib/vless_access.py`, `lib/server_kit_network.py`, `server-kit-manager.sh` 1898-2430 | policy and pending policy, Xray, publication switches, management node | add, enable, disable, remove, compatibility, permissions, transfer, publish | Xray is switched before the policy is committed, publication comes last, root stages in the same file | nodes, policy, Xray and subscriptions agree; only what was previewed is committed |
| Domains and dynamic DNS, `lib/server_kit_node_domains.py`, `lib/server_kit_duckdns.py` | domains by node and address, dynamic name, timer | change, configure, disable, delete, refresh of Xray and subscriptions | tasks compared with different facts; two views refreshed one after the other | the host's own names are never captured; views follow the file |
| Proxy exits and relay, `lib/server_kit_proxy_resources.py`, `lib/server_kit_relay.py` | catalogue, identities the relay serves, subscriptions | add, change, delete, choose, default | relay and publication switched one after the other, with an undo of both | a published exit is served; a choice is kept |
| Services and files, `debian_file_manager.sh`, `lib/server_kit_file_resources.py` | configuration, payloads, links, running server, uploads | deploy, start, stop, publish, detach, purge, rotate | payload and list of links in two steps around a restart; a menu that takes no lock | a link has its file |
| Ports, `lib/server_kit_managed_ports.py`, `lib/server_kit_port_facts.py`, `debian_firewall_manager.sh` | configured, listening, allowed and custom ports | change of a port with plan and undo, custom ports, firewall windows | a change over four components; a rollback of older rules | no port twice; what listens is let in |
| SSH keys and hardening, `lib/server_kit_ssh_keys.py`, `debian_security_manager.sh` | `authorized_keys`, staged keys, drop-in, timer | add, delete, harden, confirm, roll back | root's editor, a deletion inside the window | root can log in |
| Payload encryption, `control_plane/task_crypto.py` | machine key | encrypt, decrypt | key replaced between preview and execution | secrets are bound to their task |
| Task CLI, `control_plane/task_cli.py`, `server-kit` | none | preview, confirm, poll | client dies while waiting | no task is confirmed twice |
| Audit log, `lib/server_kit_audit.py` | hash-chained lines | append | torn last line | the chain verifies |
| Snapshot, inventory, telemetry, topology | none | read | none | read only |
| Web dashboard, installer, browser extension | Django models; packages | forms; install, update | update while a task is active | clients of the agent |

### Interactions

- *Calls:* the engine calls `prepare_task_action`, `inspect_task_action` and
  `execute_task_action`, each of which runs scripts. No database transaction is
  open during such a call; that is where the two threads interleave.
- *Shared state:* the tasks table (server thread and worker thread) and the
  rollback windows (worker, timers, status reads, a root shell).
- *Callbacks:* `cleanup_task_action` after a row is committed; its failure is
  only logged.
- *The change lock:* every script the agent starts to change the host holds
  `acquire_change_lock` (`flock -n`), and the engine runs one task at a time. So
  what meets a command is not another command but a timer, a reboot, a kill by
  the agent's timeout, root's own editor or menu, and whatever an earlier
  command left half done.
- *Facts:* a task is previewed against a digest of facts and refused if the
  digest differs at execution; two tasks previewed side by side meet there.
- *Time:* preview deadlines and purge dates are noticed by whichever request or
  worker round runs the maintenance next; window deadlines by the systemd timer
  or by a status read.

The hazards met while reading are in `PROJECT.json`, each at its line.

## 2. Modules

| Module | Role |
|---|---|
| `TaskActions` | how the catalogue and the control plane classify a change |
| `ChangeTaskEngine` | the engine, its two threads, the agent process and the windows it acts on |
| `TaskLifecycle` | abstract specification: what the engine promises of a change |
| `MCChangeTaskEngine` | instances for TLC: which changes are asked for |
| `ChangeTaskEngineProofs` | the inductive invariant `IInv`, the safety theorems, the proof that the engine implements `TaskLifecycle`, and that what it says of rollback windows is true |
| `PublicEndpointTransaction` | the stable public endpoint: every script that works on it, step by step, its timer and the host |
| `GuardedWindow` | abstract specification: what a script transaction promises to the engine |
| `PublicEndpointProofs` | its inductive invariant, its safety theorems, and the proof that it implements `GuardedWindow` |
| `MCPublicEndpointTransaction` | instances for TLC: which steps may fail |
| `RestoreTransaction` | backups and the online restore, file by file, with its timer and the record of its session |
| `ExitDns` | prepare, apply, probe, switch, commit and rollback of the exit resolvers |
| `AwgMembers` | commands on AWG nodes step by step, permissions, and the enrolment timer |
| `MCHostWindows` | these three side by side; `AwgProofs` has the theorems about nodes, `HostWindowProofs` those about the other two and the whole |
| `DomainTasks` | domains of nodes and addresses, the dynamic name, what Xray and subscriptions resolve |
| `ProxyTasks` | airports, exits and choices; relay and publication |
| `ServiceTasks` | deployment, start and stop of services; files and links |
| `PortTasks` | change of a managed port, custom ports, firewall windows; `MCPortTasks` gives it values, `PortProofs` has its theorems |
| `RootLogin` | keys of root and the hardening of SSH; `RootLoginProofs` has its theorem |
| `NetworkTasks` | nodes, VLESS clients, permissions, management transfer and subscriptions as the network page changes them; `NetworkProofs` has its theorems |
| `MCHostChanges` | these six side by side; `HostChangeProofs` has the theorems about domains, exits, services and the whole |

How they compose: `ChangeTaskEngine` sees a transaction as a window, and
`PublicEndpointTransaction` is shown to be one (`GuardedWindow`). The modules of
the host see the engine as what it promises: a task is previewed, its facts are
compared, and one command runs at a time under the change lock (`WindowBlocksQueue`,
`OneRunning`, `ExecutedAtMostOnce`). `NetworkTasks` takes an AWG command as one
step that succeeds or fails; `AwgMembers` has its steps.

### ChangeTaskEngine

State and code:

| Variables | Code |
|---|---|
| `state`, `owner`, `action`, `digest`, `created` | columns of the tasks table; task t is the t-th row, so the numbers are the order of `(created_at, rowid)` |
| `payload` | tasks whose `payload_ciphertext` is not empty |
| `expected` | `transaction_id` inside `result_json` of a waiting task |
| `purged` | `details_purged` |
| `agent` | down, running the constructor, or serving |
| `wpc`, `wtask`, `wend`, `wmark` | where `process_one` (or constructor recovery) is, its task, and the state or transaction id it is about to write |
| `spc`, `request` | the request the server thread works on |
| `todo`, `reading`, `verdict` | per thread: rows still to reconcile, the row inspected, the state decided from that inspection |
| `window[f]` | the script transaction of family f: idle or pending, its id, the outcome file |
| `revision` | a version number for all host facts outside the windows |
| `upload` | the `upload_id` in a task's parameters; several tasks may name the same one |
| `staged` | uploads on disk |
| `doomed` | per thread: uploads whose task is over and that it is about to discard |
| `abandoned` | uploads for whose preview the website got no answer, so that it removes them |
| `execs`, `fate`, `target` | history: executions of a task, how its window was closed, which window its preview showed |

Granularity: one action is one SQLite transaction, or one script call. So
`preview` is two actions (`Prepare` reads facts, `InsertPreview` inserts),
`confirm` and `cancel` are the maintenance, the decision and the answer,
reconciliation is an inspection and a later `FinishWaitingRollback`, and
`process_one` is maintenance, reconciliation of every waiting row, the claim, the
inspection, the execution and the record. Between any two of them the other
thread, a timer, a root shell or a crash may step.

An upload belongs to nobody: a preview may name any that is staged, and whoever
is done with a task discards the upload its parameters name. Discarding is a
step of its own after the commit that ended the task, is skipped by a crash and
may fail without notice; the script that reads an upload removes it itself while its
task is still running, and the website removes what it has staged when it gets no
answer to the preview, although the preview may have been recorded.

A script call may succeed, be refused, fail after undoing its work, or succeed
while its answer is lost; an inspection may fail; a cleanup may fail. A crash
kills the subprocess with the agent, so an interrupted call is one of these
outcomes followed by `Crash`. An orderly stop of the agent has the same effect:
`close()` waits two seconds for the worker and changes no row.

Windows are abstract here: `Open` and `Close` are single steps. The families
differ in what their status reports (`ReportsOutcome`), whether a close names its
transaction (`NamesWindow`), whether a root shell may drive them
(`CommandLineFamilies`), and how the catalogue classifies them.

Definitions named `Fault...` are not part of the model. Each is the definition
that follows it with one plausible slip, kept beside it to show which property
notices.

### TaskLifecycle

A change is proposed, approved at most once, gets one turn, acts at most once
inside that turn, and may guard the queue until it is settled. Turns are serial
and in order of proposal among the changes that may start; only exempt changes
may start while another one guards. The refinement maps the twelve states to
six phases, the closing tasks to `exempt`, and executed tasks to `acted`.

### PublicEndpointTransaction

State and code:

| Variables | Code |
|---|---|
| `live` | endpoint fact, file service configuration, certificate (with key and fact file), Clash payload directory, Clash configuration; the content of each is the address it was made for |
| `address` | what `get_public_ip` answers |
| `dir` | the transaction directory: `phase`, `id`, `session` and `expired` are its metadata, `backup` the saved artifacts, `intact` whether the manifest still verifies, `displaced` whether the live payload was moved into it |
| `outcome` | `public-endpoint-last-outcome.json` |
| `unit` | the transient timer and service `server-kit-public-endpoint-rollback` |
| `script` | the script that holds the change lock: operation, next step, and whether a failing command ends it (`strict`) or not (`lenient`) |
| `bounds`, `changed`, `rebooted` | what is left of the bounds; history: the last window whose change began, the window open at the last reboot |

Granularity: one action is one durable change (a rename, a removal, a unit
started or stopped) of one script. Scripts exclude each other by `flock`, so at
most one is under way, and it may be killed, or the host rebooted, before any
step. A script that does not get the lock or is refused changes nothing and is
not an action. `rm -rf` of the directory is two steps, since it takes files away
in any order. The certificate timer (`Renew`) ignores the lock; it is one step.
Renames are taken to be durable once made: the code syncs files and directories
where it relies on that.

`Restore("strict")` and `"lenient"` differ because `public_endpoint_restore 1 ||
return 1` turns errexit off inside the function, while the plain calls of
`rollback`, `automatic-rollback` and a failing `apply` keep it on.

`NeedsRepair` names the states in which no retry can succeed: backups already
partly deleted, the live payload lost before it was displaced (a kill between
the two moves of `refresh_clash_subscriptions`), or a backup that does not fit
the host's address. All three are reachable; `ExpiredWindowCloses` is about the
others, and `ExpiredWindowAlwaysCloses` (section 4) about the last.

### GuardedWindow

What a status promises: at most one window; it is withdrawn before anything
changed, or ends confirmed or rolled back; and how it ended stays readable under
its number until the next apply begins. This is what the engine relies on when
it settles a waiting task. The transaction is mapped to it by what
`public_endpoint_render_transaction` would show.

### RestoreTransaction

State and code: `disk` are the files of the archive, `backup` the content of the
one backup, `assurance` the record of the drill, `transaction`
`restore-transaction.json`, `kept` the rollback archives, `restoreTimer` the
transient timer, `context` the file in which `run_backup_json` records the
session, `restoreScript` the command that holds the lock, `reading` the status
read that takes none, `prepared` the previewed task, and `opened` (history) the
last window with what it replaced. One action is one durable change. A lock file
whose process is gone is taken over by the next command, so it is not modelled
apart. `RestoreFaults` names the steps that may fail.

### ExitDns

One action is one durable change of `Lifecycle` or of `refresh_server_relay`:
a worker's file, its unit, a start, a probe, Xray's file, its restart, the
removal of what is not wanted. `exitVersion` stands for the upstream of an exit,
`manifest` for the transaction's manifest, `refresh` for the shell with its exit
trap. Each step of the undo may fail: the worker or Xray is then left as the failure leaves it,
and the shell goes on or breaks off as the code does. A killed refresh has a transaction directory nobody opens again.

### AwgMembers

`members`, `disabled`: the two node lists; `access`, `staged`: the active and the
pending policy; `peers`: what the interface has loaded; `reach`: what the loaded
rules permit; `enrolments`: `enrollments.json`. A command is a list of durable
steps that may break off anywhere. A *key* stands for a node's identity, so that
a later node of the same name can be told from its predecessor. Ports of a
permission are left out, and so are changes of the server's own key and address.

### DomainTasks

`dnConfig` is `node-domains.json`, `xrayHosts` and `clashHosts` the two views the
script refreshes after it has saved, `dnEndpoint` with `dnWindow` the stable
endpoint as its transaction leaves it, `dynDns` with `dnsTimer` the dynamic
name. A domain is a wildcard or a name, a name a sequence of labels, so that the
conflict check of the code is computed and not assumed. A refresh of Xray merges
what is rendered over the names it already has for `OutsideAddresses`, addresses
that are not in the AWG network, and replaces all others (`RefreshedHosts`). The periodic update of
the address record is left out.

### ProxyTasks

`pxConfig` is `clash-inputs.json`, `pxRelay` the identities Xray serves,
`pxPublished` those that the subscriptions name. Names are pairs of the token
they are published under and a spelling: two spellings may share a token.

### ServiceTasks

`svServices`: state and port; `svDownloads`: links in the configuration;
`svServed`: links the running server has loaded; `svPayloads`: files on disk;
`svUploads`: staged files. `svRefusal` (history) records the last refusal at
execution and whether anything it depends on had changed. `MenuDuringTasks` is
`FALSE` in the runs: the console menu (`rotate_link`,
`debian_file_manager.sh:2805`) takes no lock, and with `TRUE`
`PublishedFilesExist` does not hold.

### PortTasks

A socket is a protocol and a port. `ptPort`: configured ports; `ptListening`:
services that run; `ptLive`: what the kernel accepts; `ptActive`: the saved rules;
`ptWindow`: the firewall window; `ptCustom`: `custom-ports.json`; `ptForeign`:
sockets of programs server-kit does not manage. A change of a port goes through
its seven steps; the rollback of the firewall and the undo of the configuration are steps
of their own, whose failure the code ignores (`ptCut`). Firewall apply, confirm and rollback are one
step each here; the engine has them as windows.

### RootLogin

`rlLines`: lines of `authorized_keys`, each a key in a form (plain, with options,
commented, junk); `rlPending`: staged additions; `rlFile`, `rlLive`: the drop-in
and what sshd has loaded; `rlWindow`, `rlTimer`, `rlAuto`: the window, its
transient timer and the rollback that timer has started, which takes no lock.
Root's editor takes none either. A reload
of sshd that fails goes unnoticed, since `validate_and_reload_ssh` is called in a
condition: the window opens with the old configuration live, unless the check that follows sees it. `rlRaced` is a history variable: it is set when
root edits the file while a deletion runs, and when a command is killed between
the removal of its transaction and the end of its timer (section 4). Renaming of
keys is left out. Assumption: the administrator confirms after a login with a key
has succeeded, as `harden-ssh-auth` asks.

### NetworkTasks

`nwPeers`, `nwAccess`: AWG nodes and their permissions, at the granularity of
whole commands (AwgMembers has the steps); `nwManager`: the management node;
`nwPolicy`, `nwPending`: the VLESS policy and the pending one; `nwXray`: the
clients Xray serves; `nwSwitches`: `publication-state.json`; `nwPublished`: what
the subscriptions say; `nwScript`: the command that holds the lock, with the
steps it still has to make and what it saved for its undo. A client carries an
identity, so that a removed and re-added one differ.
Assumptions: root's shell stages and applies between commands only (its commands
take no lock) and gives no client the name of an AWG node; the installation of
Xray's file and its restart are one step (ExitDns has them apart); a failed
`refresh-clash` restores itself. Ports of a permission are "all" or "manage"
(22 and the website). Rotation of a link is left out.

### What histories leave out

Some states cannot be repaired by the code, and a property that holds otherwise
says so. `ptCut`, `pxCut`, `dnHistory.cut`, `nwHistory.cut`: a command was killed
half way, or its own undo failed (of `ptCut`: an ignored rollback or undo). `nwHistory.unpublished`: nodes that were
enabled, disabled or removed since the last publication; the preview says that
this task does not publish. `dnsOutcome = "broken"`: a step of an undo failed, or a kill
between the two halves of a start or of Xray's switch. `awgHistory.cutOff`: the
registration of this key was killed. `awgHistory.stranded`: the removal of this
key was killed, see section 4.

## 3. Runs

The engine runs use `MCChangeTaskEngine`, `endpoint_transaction` uses
`MCPublicEndpointTransaction`; deadlock is checked in all of them.

| Run | Instance | Shows |
|---|---|---|
| `engine_queue` | 2 tasks, 2 administrators, host changes that carry a secret or name an upload, 2 uploads, each task naming either, limit 1, 1 crash | `UploadSurvives`, `QueueBounded`, `TerminalIsFinal` |
| `engine_window` | 3 tasks, VLESS apply / confirm / rollback, limit 1 | `GuardedOutcomeIsTrue`, `WindowBlocksQueue`, `ClosesPreviewedWindow` |
| `engine_recovery` | 2 tasks, public endpoint apply and confirm, restore apply, SSH apply, limit 2, 1 crash, 1 root-shell change | `TypeOK`, `OneRunning`, `ExecutedAtMostOnce`, `SecretsErased`, `ImplementsLifecycle` |
| `engine_settles` | 2 tasks, firewall apply and rollback and a host change, 1 crash, 1 purge, fairness | `TasksSettle` |
| `violation_confirmed` | 3 tasks, public endpoint | `ConfirmedMeansKept` fails |
| `endpoint_transaction` | 2 windows, 2 sessions, 2 addresses, 1 kill or reboot, 1 failing step, 1 change of address, 1 renewal, fairness | `TypeOK`, `ChangeIsGuarded`, `NoEarlyRollback`, `NeverHalfRestored`, `ConfirmedStays`, `ImplementsGuardedWindow`, `ExpiredWindowCloses` |
| `host_windows` | restore: 2 files online, 1 offline, 2 restores, 1 failing step or kill, 1 edit; resolvers: 2 exits, 2 refreshes, 2 failing steps or kills; nodes: 2 names, 2 keys, time 3, 2 changes, 1 failing step or kill | `OriginalsAreKept`, `RestoreIsAllOrNothing`, `ConfirmedByAnother`, `TimerKnowsItsWindow`; `RoutesHaveWorkers`, `UndoneIsAsBefore`; `PendingIsRestricted`, `NoInheritedAccess`; `WindowsTypeOK` |
| `awg_enrolment` | 2 names, 1 key, time 4, 1 failing step or kill, fairness | `EnrolmentEnds` |
| `host_changes` | domains: 1 node, an address in the AWG network and one outside, 3 previews, 2 edits; exits: 4 names, 3 exits, 2 previews; services: 3 previews, 1 rotation; ports: 3 ports, 4 services, 2 previews, 1 window; keys: 2 keys, 1 preview, 2 hardenings, 2 edits; nodes: 2 names, 2 previews, 1 edit; 1 failing step or kill in each | `HostKeepsItsNames`, `ViewsFollowConfig`; `PublishedExitsAreServed`, `ChoiceIsKept`; `PublishedFilesExist`; `PortsNeverShared`, `FirewallFollowsPorts`; `RootCanLogin`; `NodesAreServed`, `OnlyPreviewedChanges`; `ChangesTypeOK` |
| `violation_invalidated` | services, 2 previews, nothing fails | `InvalidatedOnlyWhenChanged` fails |
| `violation_closed_port` | ports, 2 previews, 1 window, nothing fails | `ClosedPortStaysClosed` fails |
| `violation_last_key` | 2 keys, a line may be commented, 2 previews, 1 edit | `LastKeyRemains` fails |

In `endpoint_transaction` every kind of step may fail except the write of the
outcome (see `OutcomePersistedFirst` in section 4). Two windows are
needed for a timer that outlives its window; one kill reaches every step of
every script, and one failing step together with it a retry of a restore that
was cut short. Its fairness: a running script goes on, deadlines pass, timers
elapse (weak); the failed rollback service gets its turn (strong,
`Restart=on-failure`, `RestartSec=10s`), and so does a status read (strong: the
engine's worker asks every second while a task waits for the window, and the
pages of the dashboard ask too). The strong assumptions are needed because the
lock may be taken by others whenever they try.

`host_windows` and `host_changes` check several parts side by side. A part
reads no file another part writes, or the module that reads it has a variable
of its own for it; the change lock keeps commands apart, so nothing of two parts
interleaves but what each module already has (timers, editors, kills). A
behaviour is therefore one of one `part`, and the others rest in one initial
state: the run is the sum of the parts, not their product. Deadlock is not
checked there, since bounded tasks run out.

Their bounds: two tasks previewed side by side are what one stale preview
needs, and three are used where a property relates three kinds of task (a name
of the host, a domain and an endpoint). Two exits, two names of nodes and two
keys let a change of one disturb the other, and a name be used twice. One
failing step or kill may fall on every step of every command; two where an undo
can itself be cut (`ExitDns`). `MaxExits` = 3 is reached; `MAX_EXITS` of the code is larger and used only as a
limit. The keys have one preview, two hardenings (a timer that outlives its
window meets the next) and two edits (a key taken out and put back). `host_changes`
has no commented lines in `LineForms`: with them `RootCanLogin` fails for the
reason `violation_last_key` shows. The proof of `RootCanLogin` has no bounds, and
the same assumption about comments.

`awg_enrolment` has one part only, so that its liveness is about that part.
`AwgFairSpec` assumes that a running command goes on and that the clock does (weak), and that the reconciliation of
the enrolment timer gets its turn at last although other commands hold the lock
(strong: the systemd timer fires again and again). Handshakes and administrators
are not fair. Steps may fail a bounded number of times; the timer's next turn
repeats what failed.

The paragraphs below are about the engine.

Why the bounds suffice. `MaxTasks` = 3 is the least number in which a later
window of the same family exists while an earlier task still waits and a third
task closes one of them; 2 is enough for anything about a pair (serial execution,
order, the queue limit being reached and exceeded). One crash reaches every
point of every step, and a second one starts from a state the first restart can
reach as well, since the constructor works on rows one at a time and a crash
inside it is covered. Two uploads are what it takes for
one clean-up to meet an upload that is not its own. `MaxMeddling`, `MaxPurged` bound the environment and the
purge; `revision` grows with executions and meddling only, both bounded. The
proofs of section 5 have no such bounds.

Fairness (`FairSpec`): the worker loop wakes at least every second
(`_wake.wait(timeout=1.0)`) and a call of a script ends (subprocess timeouts), so
the worker thread is weakly fair; systemd restarts the agent
(`Restart=on-failure`) and the constructor runs; an open window is closed by its
timer at the latest. Two strong assumptions: an inspection the worker repeats
every round succeeds at last, and maintenance finds an expired preview at last
(deadlines pass). Requests are not fair: nobody has to confirm, cancel or look.
A worker thread that died of an uncaught exception is outside these assumptions
(see hazards).

## 4. What the code does and the texts do not say

### Findings

The four violation runs are disagreements between the code and its own messages;
`PROJECT.json` quotes the lines.

1. `violation_confirmed`: a failed apply may be recorded as *confirmed*, because
   `_recover_rollback_execution` reads the last outcome without comparing
   transaction ids.
2. `violation_invalidated`: every deployment of the file service is refused as
   invalidated, because two parameters added after the digest are part of the
   digest at execution.
3. `violation_closed_port`: a custom port closed while a firewall window is open
   is open again after the rollback of that window.
4. `violation_last_key`: a key in a comment counts as a key that works, so the last
   one that does can be deleted.
### Statements without a run

These are stated in the modules, and the code does not keep them; no run is spent
on them. TLC gives the counterexample when the statement is put into the
configuration of the run named.

- `InterruptedMeansRestart` (`engine_settles`): SSH and firewall applies end
  *interrupted* after every normal close, since their families keep no outcome.
- `OnlyAppliesWait` (`engine_recovery`): a confirmation that was running when the
  agent exited is not *interrupted* but waits for a window another task opened.
- `AllClosePreviewedWindow` (`engine_window` with firewall changes): the digest of
  an SSH or firewall confirmation cannot tell one window from the next one.
- `OutcomePersistedFirst` (`endpoint_transaction` with a write of the outcome
  that may fail): a status read or a late confirmation that settles a window
  calls the restore on the left of `||`, where the shell ignores failing
  commands; the outcome may stay unwritten and the metadata is deleted.
- `ExpiredWindowAlwaysCloses` (`endpoint_transaction`): if the host's address
  changes inside a window and there was no endpoint before, the restore rewrites
  what it just restored and then refuses the result, again and again.
- `CleanupIsExclusive` (`engine_queue`): `core.py:2504` calls what `cleanup_task_action`
  removes the task's own, but it discards by upload identifier and a preview accepts
  any identifier that is staged (`core.py:479`, `724`), so cancelling one of two previews
  that name the same upload takes it from the other. The website's own forms stage a
  new upload each time, so the second preview comes from another client of the agent's
  socket; the agent itself does not refuse it.
- `XrayForgets` (`host_changes`): `vless_access.py:406` says that the forced resolutions are
  replaced and the preview of an address without names that all its records are deleted
  (`core.py:938`), but entries of addresses outside the AWG network are kept
  (`vless_access.py:421`): a name taken from such an address goes on being resolved by
  Xray, with no step failing, until it is given to another owner.
- `UnconfirmedRestoreEnds` (`RestoreFairSpec`): the timer of a restore fires once
  and gives up when another command holds the lock; a kill after the transaction
  is recorded and before the timer is armed leaves no timer at all.
- `RefusedOnlyWhenChanged` (restore): the first restore task of a backup that was
  not drilled yet is refused, because its own preview records the drill in the
  listing the digest covers.

`RevokedStaysRevoked` (services: no link made before a rotation comes back) holds
on the instance of `violation_invalidated` with a rotation, with and without the
menu; it is stated and has no run of its own.

### Noticed while modelling

Each is a property of the code as it stands; the model follows it, or leaves it
out and says so.

- *Engine:* `confirm` lets another administrator confirm any security
  transaction, apply included (`tasks.py:203`), while ADR 0004 limits takeover
  to cancelling, rolling back and confirming a recovery. A restore opens a window
  that does not guard the queue, because `_prepare_restore_task` does not pass
  `supports_rollback` on. The branch `rollback_window_missing` of `process_one`
  cannot be reached, since the runner raises on any other answer first.
- *SSH:* the timer's rollback takes no lock, so a confirmation may answer
  *confirmed* although the timer has taken the change back; a reboot loses the
  transient timer. Two races may leave root without a key while passwords are
  forbidden, and `RootCanLogin` excepts them by name. `delete_key` reads the lines
  it will write before it lists the keys it checks: a key that root takes out and
  puts back around that read is checked and then lost (any edit by root in between is
  lost). And a command killed after it removed its transaction and before it
  stopped the timer leaves a timer whose rollback takes the next hardening's window,
  between its drop-in and its own timer. `rename_key` drops the options before a key.
- *Restore:* a crash after the rollback archive was written leaves it on
  disk, unencrypted, under the transaction directory; a `restore-status` without the lock may remove
  the record of a window opened meanwhile; `assurance.json` is written without
  the lock.
- *Exit resolvers:* a kill between the installation of Xray's file and its
  restart is not noticed by the next refresh, which compares files.
- *AWG nodes:* `awg syncconf` comes before `nft -f`; a killed removal leaves the
  enrolment behind, whose confirmation then fails each time; a killed change of
  permissions leaves a pending policy that a later import or removal commits and
  that blocks permission changes. An expired enrolment does not take the node's
  domains with it.
- *Network page:* an AWG import whose publication fails discards a VLESS policy
  root has staged (`server-kit-manager.sh:2208` is not guarded like 2170).
  `publication-state.json` and VLESS permissions, which store the address of
  their target, survive a removed node. Withdrawing the rule for the VPS from
  the management node is not examined, only the default access. The overview
  takes a missing access entry for unrestricted, `set_management_admin_peer`
  refuses it. A removed and re-added VLESS name keeps its link until a
  publication. Shell commands of the VLESS manager take no lock.
- *Subscriptions:* `refresh-clash` killed between the move of the directory and
  the installation of the configuration leaves new payloads with the old list;
  `save_clash_inputs` takes no lock.
- *Dynamic name:* `perform_update` writes its state before the configuration.
- *Services and ports:* the menu's re-installation of the file service and
  starting a stopped one do not apply the firewall again; `change_managed_port`
  refreshes all ports, not one.
- *Runner:* a call that times out leaves no line in the audit log.

## 5. Proofs

`tlapm` checks every obligation. Each component's proof begins with an
inductive invariant that TLC checked first; one lemma per action (or group of
actions) shows that a step keeps it, and the safety theorems are its
consequences. The theorems hold for every value of the constants that meet the
assumptions the modules state; no bound of a run enters them.

### The engine (`ChangeTaskEngineProofs`)

Assumption: `EngineAssumption` (naturals, a positive queue limit, actions taken
from the catalogue). Nothing bounds the number of tasks, administrators, crashes
or changes made beside the engine. The properties are not inductive. `IInv` adds

- *where the worker is*: outside "loop" and "reconcile" the worker holds exactly
  the one running row, and no row runs otherwise while requests are served, so a claim
  finds none running and `OneRunning` is kept;
- *execution counts*: a row the worker has claimed but not yet executed has count
  0, which gives at most one execution; after a crash the row is running, and recovery only
  finishes it or lets it wait;
- *rows beyond `created`* are absent, so an insertion touches no earlier task;
- *verdicts* are terminal states and belong to a row that is or was waiting, so a
  late finish cannot move a row from any other state;
- *secrets* belong to rows that may run.

`UploadsSurvive` has an invariant of its own (`UploadInv`): an upload that is gone,
or that a thread is about to discard, was given up by the website, or one of the
tasks that name it runs, has run or is over, and no step makes such a task
waiting or queued again. It says which of the tasks that share an upload may
lose it: those that are left when the first of them is done.

`TerminalStatesAreFinal` is an action property: under `IInv` each action changes
only states that are not terminal. `Refinement` maps each action to one step of
`TaskLifecycle` or to a stutter and uses `IInv` for the guards of the abstract
steps: that nothing runs when a claim is made, that the executed task has not
acted before.

What the engine says of windows needs a second invariant, `TruthInv`, because
a row holds only the number of a window and a thread only what an inspection
showed some steps ago:

- every window that has a number was opened by the task of that number, its
  family's and executed, and the fate of that task is "open" while the window is
  open and its outcome afterwards (`WindowInv`); a task that has not acted has no
  window (`FreshInv`), so a closed fate never changes (`FateStays`);
- a row knows a window only while it waits or once it has ended (`ExpectedInv`),
  and what a thread has read of such a row (`ReadInv`) stays true until it is
  written, also when another window of the family opens in between (`EndInv`);
- the number a preview shows, the number in its row and the open window that the
  inspection before an execution found are the same (`PreviewInv`): afterwards no
  other task of the engine executes, and a root shell cannot open a window of a family
  that reports its transaction.

### The public endpoint (`PublicEndpointProofs`)

Assumption: `EndpointAssumption` (naturals, sets of names and addresses without
the two values that stand for none). `IInv` adds to the types

- *what live files and backups hold* (`ContentInv`): names and addresses that are
  well formed wherever a restore, a renewal or a reconciliation uses them;
- *what the script that holds the lock knows* (`LockInv`): at each step whether
  the window is open, pending or gone;
- *whose timer it is* (`TimerInv`): windows are numbered as they open, and one whose
  change has begun has its own timer unless a reboot has forgotten it;
- *what has expired* (`ExpiryInv`): only an expired window is ended by its timer, a
  status or a late confirmation;
- *what is recorded as undone* (`RestoredInv`) is restored.

The refinement has one assumption of its own, `OutcomeIsWritten`: writing the
outcome does not fail. It is needed. Where the shell calls the restore on the left
of `||` it goes on after a failed write, deletes the metadata and leaves a window
that ended unseen; `OutcomePersistedFirst` in section 4 is that behaviour.

### Ports (`PortProofs`)

Assumption: `PortAssumption`. `PortsNeverShared` needs that neither the port a
change sets nor the one its undo restores is taken by another service; both
follow from the revision checked under the lock. `FirewallFollowsPorts` needs
more: while the window is open the saved rules and the candidate let in what was
there before and what comes, because the timer may take the rules back at any
step and the change then undoes itself. `FirewallInv` says which of the two states
each set of rules serves. A change that was killed, or whose undo failed, which the code does not
notice (`ptCut`), is excepted by the property itself.

### Logging in (`RootLoginProofs`)

Assumptions: `LoginAssumption` and `NoCommentedKeys` (no key stands in a comment;
`violation_last_key` shows what happens otherwise). `LoginInv` says, of runs in
which neither race was lost, that a deletion writes what it has checked; that a
timer or rollback without a window is about to be stopped; and of each of the
three configurations (on disk, loaded, to be restored) that it forbids passwords
only if a key works or the window is open. One lemma (`WorksStays`) has the
content: no step takes away the last key that works.

### Restore and exit resolvers (`HostWindowProofs`)

Assumptions: `RestoreAssumption`, `ExitDnsAssumption`. Nothing bounds sessions,
files, edits by root, exits, versions or failures.

`RestoreInv` follows the script and says at each step what would be left if it
were killed there:

- *each file* (`DiskInv`) is as it was, as the backup has it, or one root edited;
  the transaction names every file of the window (`TransactionInv`), so an undo can
  be begun again any number of times (`UndoInv`);
- *the recorded session* (`ContextInv`) stands for files that are all replaced
  or being taken back, since it is written last;
- *the fate of the window* (`FateInv`) agrees with the files once the transaction
  is gone, which gives `RestoresWhole`.

`OriginalsAlwaysKept` is the case before that: the archive exists while the window
is undecided. `OnlyOthersConfirm` and `TimersKeepToTheirWindow` are action
properties: only two actions start a confirmation, and a window is left only after
its timer.

`DnsInv` has one clause per phase of a refresh. Outside a refresh the host
`Serves`: every exit that the running Xray routes through a worker has one that
runs. Inside, `ManifestInv` says what has been touched since the manifest was written
and that the manifest tells how to take it back; the order of the switch (workers,
then Xray) and of the undo (Xray, then workers) is what keeps the clause. An undo may fail at any of its steps:
the shell passes over a failed one, and a failure inside the rollback of the workers may end it early
(`BreakOffStep`). A host
that a kill, or such an undo, has left half switched is excepted by `RoutesHaveWorkers`
and `UndoneIsAsBefore` themselves, and only its types are claimed.

### AWG nodes (`AwgProofs`)

Assumption: `AwgAssumption` (naturals; enrolments last, and the clock runs, at
least one tick). Nothing bounds names, keys, commands, failed steps or kills.
Both properties relate seven stores that a command changes one at a time, with
an undo for some of the steps and none after a kill. `AwgInv` says

- *what is left of the script* (`AwgScriptInv`): each command is at one of the
  few tails of its list of steps. From the tail follows what it has written and
  whether a failure would bring the saved files back (`MayReturn`);
- *the node it works on* (`AwgNodeInv`): the node of a removal that has begun is
  gone, and the timer's confirmation, or an administrator's opening, is only on
  its way for a node that no longer waits. The timer reads all handshakes first
  and acts later; what it read stays true, since a key that has made a handshake
  keeps it, and a new registration has a new key;
- *waiting nodes are registered* (`Registered`): one that waits has an enrolment
  with its own key, so the handshake by which the timer confirms an enrolment is
  that of the node it opens;
- *keys are given out once* (`AwgKeysInv`), which separates a node from its
  predecessor of the same name;
- *active, pending and saved policies are equally good* (`AwgPolicyInv`,
  `AwgSavedInv`): they restrict who waits, and give permissions only to the nodes
  they were given to. The saved policy counts as long as a failure may bring
  it back, and with the node list it would come back with;
- *a registration under way* (`AwgRegisterInv`, `Excused`): between the record of a new
  node and the commit of the policy that forgets its name, the active policy may
  still name a predecessor. The key is excused for just these steps; a
  registration killed among them leaves it excused for good (`cutOff`), as the
  property does.

`PendingStaysRestricted` and `NobodyInherits` are its consequences.

### The network page (`NetworkProofs`)

Assumption: `NetworkAssumption`. `NwInv` says

- *of previews:* a task that is waiting names a client, a node or a switch as its
  handler checked it;
- *of the running command:* which steps are left determines which of policy,
  Xray, peers and publication are already new and which are as saved
  (`NwScriptInv`, `NwServedInv`), so each failure's undo restores all of them;
- *of the pending policy* (`NwPendingInv`): what a command of the website
  activates and commits is what it has staged itself, since it stages only where
  nothing is staged (root's shell stages between commands, an assumption of the
  model).

`NodesStayServed` and `OnlyPreviewed` are its consequences. The first excepts
names changed by hand without publishing, and commands that were killed, as the
property does.

### Domains, proxy exits, services (`HostChangeProofs`)

Assumptions: `DomainAssumption`, `ProxyAssumption`, `ServiceAssumption`.

- *Domains* (`DnInv`): what has to be clear of wildcards is more than the saved
  catalogue and the present names: also the endpoint that an open window would bring
  back, and the catalogue that the undo of a running change would restore. The check
  under the lock gives this; the check of the preview alone would not. `ViewsAreCurrent`
  needs that an undo refreshes Xray again. Xray is not simply what is rendered: names of
  addresses outside the AWG network stay until they are rendered for another owner, so the
  theorem rests on the order of that merge (`RefreshedResolves`: each saved name is resolved
  to its owner and to nobody else) and on no two owners having a name in common (`Exclusive`).
  It claims nothing of names that nobody has saved any more outside that network
  (`XrayForgets` in section 4).
- *Proxy exits* (`PxInv`): the relay is refreshed before the publication, and the
  old catalogue is put back if either fails. `ChoicesKept` is an action property:
  any other task filters a node's choice or keeps it.
- *Services* (`SvInv`): a file is written before its link and removed after it.
  `LinksHaveFiles` has the hypothesis `~MenuDuringTasks`, which the run
  shares: root's menu takes no lock, and used in the middle of a task it can
  publish a link whose file the task then removes. TLC finds that with
  `MenuDuringTasks = TRUE`; it is a precondition on the operator that the
  code does not enforce.

The types of the three parts (`DomainTypesCorrect`, `ProxyTypesCorrect`,
`ServiceTypesCorrect`) say more than they seem to and have invariants of their own:

- `DnCountInv` counts previews, so that the set of tasks does not outgrow its bound;
- `PxTypeInv` makes the catalogue one that the whole check accepts at every step,
  also the saved one that an undo puts back (`GoodCatalogue`): exits have unique ids up to
  `MaxExits`. An added exit finds a free id because there are fewer exits than ids (`FreeId`, by
  the pigeonhole principle), and a deletion takes exactly one id out of catalogue,
  choices and default (`DeleteGood`). `ProxyAssumption` asks for room for the one airport and two
  exits of the initial catalogue; the code has 8 and 16 (`MAX_AIRPORTS`, `MAX_EXITS`);
- `SvTypeInv` says that no service is ever taken off the host and that a link is
  one some rotation made (`SvCountInv`). It needs no hypothesis on the menu.

### The host as a whole (`WindowsKeepPromises`, `ChangesKeepPromises`)

The runs `host_windows` and `host_changes` check compositions in which the parts
take steps one at a time. `WindowsCompose` and `ChangesCompose` prove that every behaviour of a
composition, seen through one part's variables, is one of that part's own
specification; so the theorems about the parts hold in the composed host, and what
TLC checks on the composition is what was proved of the parts. `WindowsTypesCorrect` and
`ChangesTypesCorrect` state the same of the types; the types of ports and of keys
are `PortTypesCorrect` and `LoginTypesCorrect`, the latter with commented keys too.

### Model-checked only

Every invariant and every action property that a passing run checks is stated by
a theorem. What stays with TLC is liveness (`TasksSettle`, `ExpiredWindowCloses`,
`EnrolmentEnds`), which is beyond this prover.


## 6. Not modelled

- *Web dashboard (except for the files it stages), browser extension, topology page, client scripts:* clients of
  the agent; they keep no state of the host.
- *Installer and updater:* sequential shell over a stopped agent. The updater asks
  `has_active_tasks` once and then replaces the agent; a task confirmed in between
  meets a restart, which the engine's model has at every step.
- *Snapshot, inventory, telemetry, topology facts, secret resources, read model:*
  read only.
- *Audit log:* one hash chain over one file. Its only hazard, a torn append, is in
  the list of hazards.
- *Task command line:* a client that previews, confirms and polls; losing it
  changes nothing for the engine.
- *Inside components that are modelled:* request framing and authentication on the socket;
  validation of parameters and wording of previews; the text of subscriptions,
  of Xray's document and of firewall rules; the steps inside the SSH and VLESS
  listener transactions and of the firewall's apply (windows in the engine);
  installation of services and certificates; ports inside a permission in
  `AwgMembers`; rotation of one subscription link; renaming of keys; the
  periodic update of the dynamic name's address.
- Wall-clock time is "may be past its deadline", except for enrolments, which
  count it.

The remaining hazards that no property covers carry a note in `PROJECT.json`.

## 7. Plan

Done: the engine with its proofs and refinement; the public endpoint
transaction with its proofs and refinement; restore, exit resolvers and AWG nodes
(proved); the tasks on domains, exits, services, ports, keys and the network
page (proved), and both compositions.

Open, in this order:

1. The SSH and VLESS listener transactions step by step, with their transient
   timers and the nested firewall transaction.
2. `AuditChain`: appends with a crash inside one.
