# Verification of the spore-drive Python client

This directory holds TLA+ models of the spore-drive Python client
(`src/pkg/spore-drive/clients/py/spore_drive/`). It has TLC configurations that
model-check them on small instances, and TLAPS proofs of their main safety
invariants. `PROJECT.json` lists the components, the runs, the mutants, the
mapping from each definition to the source lines it models, the findings, and the
hazards.

## The system

The client is a Python library that drives the spore-drive service, a Go binary
that is not part of this source tree. It has the following parts:

| Part | Source | State | Operations |
|------|--------|-------|------------|
| Service lifecycle | `service_manager.py` | `self.process`, `self.port` of each manager. It also uses shared state: the install directory (`bin/drive`, `bin/version.txt`), the run file `.spore-drive.run` (`{pid, port}`) and the process table. | `start`, `stop`, `_get_port`, `_download_and_extract_binary`, `_execute_binary`, the module singleton (`get_service_manager`, `stop_service`) |
| Operation encoder | `operations.py` (`BaseOperation`) | none (pure) | `_build_op` folds a path of section names into nested `Op` messages. `_do_request` sends the result and turns any error into an empty `Return`. |
| Binder | `operations.py` (`_dict_to_protobuf`) | none (pure) | recursive merge of a dict into a message |
| Section wrappers | `operations.py` | none | get/set/list/delete per config section. `Signer.set` rejects key together with password. |
| Config session | `config.py` | `_config` handle, `_client` | `init` starts the service and creates a handle. `free`, `commit`, `save`, `download` are the other operations. |
| Drive / Course | `drive.py` | drive and course handles | `plot`, `displace`, `progress`, `abort` |
| Transport | `clients.py`, `types.py`, `utils.py` | the channel | pass-through RPC stubs |

How the parts interact:
- Every `Config` or `Drive` starts the service through the module singleton
  `start_service()`.
- Several Python processes on one machine share the service through the run
  file: the first one provisions and launches it, and the later ones discover it.

The behaviours that make this hard are in the lifecycle:
- concurrent provisioning into one directory;
- a crash at any point;
- a stale run file whose pid was reused by another process;
- the race between the 3.5 s registration deadline and a slow service;
- the read-then-unlink of the run file in `stop()`;
- a download without a timeout.

## Modules

### `ServiceManager.tla`

This module models the whole `ServiceManager`, with several client processes
(`Clients`) on one machine.

**Constants**
- `Clients` and `Pids`: model values.
- `NoPid` and `NoClient`: stand for `None` and "no owner".
- `Supported`: whether `_parse_asset_name` knows this platform.
- `PollLimit`: how many 0.5 s sleeps fit in the 3.5 s deadline of `_get_port`.

**Variables**

| Variable | Code |
|----------|------|
| `pc[c]` | where client `c` is inside `start()` or `stop()` |
| `process[c]` | `self.process`, as the pid of the child |
| `port[c]` | `self.port`. A port is identified with the pid of the service that registered it. |
| `cand[c]` | the pid a call read from the run file (a local variable) |
| `polls[c]` | the sleeps of the current `_get_port` loop |
| `proc[p]` | what occupies pid `p`: none, a booting or serving service, or a foreign process |
| `runFile` | the pid named by the run file |
| `bin`, `stamp` | the binary (absent, partial, complete) and `version.txt` |
| `owner[p]` | history: the client that spawned `p` |

**Actions.** There is one action per step of the code between two points where
another process can interleave.

| Action | Code |
|--------|------|
| `StartCached` | the early return of `start()` |
| `Start` | entering discovery |
| `GetPortHit`, `GetPortMiss`, `GetPortRetry`, `GetPortTimeout` | one iteration of the loop in `_get_port` |
| `Attach` | discovery returns a port |
| `DownloadAndExtractCheck` | the skip, the unsupported-platform raise, or the download |
| `Download` | `urlretrieve` |
| `ExtractBegin`, `ExtractEnd` | `extractall` begins to rewrite `bin/drive`, then succeeds or raises |
| `WriteVersion` | `version.txt` and `chmod` |
| `ExecuteBinary` | `Popen`, or the raise on a missing binary or a failing exec |
| `Registered` | the second `_get_port` and the ignored health loop |
| `Stop` | terminates the own child |
| `StopReadRunFile` | load the run file and check its pid |
| `StopKillRunFilePid` | SIGTERM, then unlink |
| `ClientExit` | the client process exits, or `stop_service` drops the singleton |

**Environment**
- The service binary registers (`ServiceRegister`) or crashes (`ServiceCrash`).
- The OS gives a free pid to an unrelated process (`ForeignStart`, `ForeignExit`).

**Modelling choices**
- `kill(pid, 0)` succeeds on an occupied pid and also on an unreaped child
  (`IsProcessRunning`).
- The health probes are folded into the step that returns from them, because
  `_get_port` and `start()` ignore their result.

### `MCServiceManager.tla`

This module instantiates `ServiceManager` for TLC. It adds the symmetry of clients
and pids, which is sound because no definition tells two clients or two pids apart.

### `WrapperTree.tla` and `OperationEncoder.tla`

These two modules are the pure part of `operations.py`: the wrapper classes and
what their methods send. Neither has variables. `WrapperTree` holds the class
structure and the `set()` plans. It declares no recursion, so the session
proofs can use it. `OperationEncoder` extends it with the recursive fold and
binder.

- A dict is a function from its keys; a protobuf message is a function from its
  set fields. The schema is reduced to one question the binder asks:
  `IsMessageField`. Selector fields are messages, and so are the payload fields
  of a `StringSliceOperation`.
- In `WrapperTree`: `CloudTree`, `P2PTree`, `HostsTree`, `AuthTree` and `ShapesTree` list each
  class's properties and selection methods (`Nav` steps: the selector they
  append and the class they return) and its terminal methods (`Act`: the action
  case and its payload kind). `LeafActs` are the string, bytes and string-list
  leaves. `HostShape.id/key/generate` go through `_instance`, a `select`
  without a name, which is the `Nav` step to `HostInstance`.
- In `OperationEncoder`: `BuildOp` is `_build_op`: the fold from the innermost selector outwards, with
  the direct actions (`delete`, `generate`, `list`, `clear`, `id`) put beside
  the selector's name or shape and the others under `"op"`.
- `Bind` is `_dict_to_protobuf`, recursive, with `Inline` for the `"op"` merge.
  That merge copies a message field when set and a scalar only when it differs
  from `DefaultOf` its field. `DoRequest` is the `Op` envelope of
  `_do_request`.
- `Expected` is the reference: the message spec section 8 describes for a path
  and an action.
- In `WrapperTree`: the `set()` methods are plans (`CloudPlan` ... `ShapesPlan`). A plan is the
  sequence of leaf `set()` calls the method makes, or a raise. The config
  dataclasses are records whose falsy fields are `Zero`. SSH's `addr:port` and
  Host's `lat,long` formatting are modelled as the structured value they build.

Constants: `Names`, `Values` (scalar payloads), `Zero` (the falsy or default
value), `Slices` (string-list payloads) and `SSHPorts`.

### `ConfigSession.tla`

This module is one user session: a `Config`, the wrapper the user holds, a
`Drive` built from the `Config`, and a `Course` plotted on it, against the
handles the service holds.

| Variable | Code |
|----------|------|
| `cfg` | `Config._client` (set or not) and `Config._config` |
| `wrap` | the wrapper object the user holds: its class, `op_path` and captured `config` |
| `drv`, `course` | `Drive._client`, `Drive._drive`, and the course of the `Course` object |
| `live`, `issued` | the service's handle table (the service is Go code outside this tree) |
| `carried`, `ops`, `outcome` | the handles named by the last call's requests, its `Op` requests, and whether it returned, raised, or raised `ValueError` |

The actions:
- `ConfigInit` (the factories `create`, `new`, `from_directory` and
  `from_archive`, `__aenter__`, or a direct call -> `init`), `ConfigFree`, `ConfigCall`
  (`commit`, `save`, `download`) and `Section` (the four section properties).
- `Navigate`, `Issue` (one `_do_request`) and `SectionSet` (a `set()` plan,
  executed up to its first raise).
- `DriveInit` (the constructor and the `create` / `with_*` factories ->
  `init`), `DriveFree`, `Plot`, `Displace` (also `progress`) and `Abort`.

`init()` has no guard of its own, in `Config` as in `Drive`. A repeated call
therefore replaces the handle the object holds, and `ConfigInit` and
`DriveInit` are enabled in every state. The tau source of a `Drive` only
selects one field of the `DriveRequest`, so it is abstracted. Its
`ValueError` comes before any call and is the "raised, nothing changed" branch.

Every server call may fail in transport. `_do_request` swallows that failure,
and every other call raises. `start_service()` is abstracted to "a port or a
raise", since `ServiceManager.tla` models it.

`ConfigSession` extends `WrapperTree` only. The requests it records
(`Req`: handle, `op_path`, action) are encoded in `MCConfigSession.tla`.
That module extends both `ConfigSession` and `OperationEncoder` and defines
`RoundTrip` over the `ops` of each step.

### `ConfigSessionProofs.tla`

This module holds the TLAPS proofs about the session, described under
"What is proved".

### `ServiceManagerProofs.tla`

This module holds the TLAPS proofs. It is described under "What is proved".

## Runs

Every cfg sets `Supported = TRUE` and `PollLimit = 1`. One sleep is enough for
the retry path and for the timeout after a retry. A larger limit repeats the
same states.

| Run | Instance | Checks | Result |
|-----|----------|--------|--------|
| `one` | 1 client, 2 pids | `InstallIntegrity` | passes: a single client that may crash at any step never stamps an incomplete binary |
| `two` | 2 clients, 2 pids, `FairSpec` | `TypeOK`, `OwnedChildTracked`, `CallsReturn`, `ChildNeverReplaced` | passes (about 0.96 M states, under 2 min): a manager never loses the handle of a live child it spawned, never spawns over one it holds, and every call returns unless it is stuck in the download |
| `install_race` | 2 clients | `InstallIntegrity` | **violated**: one client stamps `version.txt` while another is still extracting |
| `stop_pid_reuse` | 1 client | `StopSignalsOnlyServices` | **violated**: `stop()` signals a reused pid |
| `attach_unhealthy` | 1 client | `AttachOnlyToServing` | **violated**: `start()` adopts a stale record |
| `ready_no_port` | 1 client | `ReadyHasPort` | **violated**: `start()` returns None after a failed registration |
| `stop_keeps_port` | 1 client | `StopClearsPort` | **violated**: an adopted port survives `stop()` |
| `leak` | 1 client, 2 pids | `NoLeakedService` | **violated**: a serving service is reachable by nobody |
| `session` | `MCConfigSession`, 1 name, 1 value, 1 slice, 3 handles | `TypeOK`, `IssuedHandlesOnly`, `RoundTrip` | passes (about 45 k states, 30 s): no call sends None or an unissued handle, and every `Op` of every wrapper method and `set()` plan binds to the message of spec section 8 |
| `default_dropped` | `Values = {Zero}` | `RoundTrip` | **violated**: `Port.set(0)` or `set("")` arrives with no `set` field |
| `use_after_free` | 2 handles | `NoUseAfterFree` | **violated**: a freed config or drive handle is sent again |
| `signer_validation` | 1 handle | `ValidationBeforeCalls` | **violated**: `Signer.set` writes the username before it raises |

Each violation is explained in `PROJECT.json` under "findings".

**Why the bounds are enough**
- Two clients are enough for every race between two processes.
- Two pids give room for a launched service and a stale record or a foreign process.
- In `ConfigSession`, one name, value and slice suffice for `RoundTrip`. The
  encoder never compares two names or two values; it only places them. The
  fan-outs over dicts then have at most one entry. Three handles let a config,
  a drive and a course be live at once.
- Every action, and each branch of its disjunctions, fires in the passing runs.
  One branch is never taken: the unsupported-platform raise of
  `DownloadAndExtractCheck`, because every cfg fixes `Supported = TRUE`. That
  branch leads only to "failed", which the download and exec failures reach
  as well.

**Mutants.** Each property of a passing run comes with a mutant: a plausible fault
in the code, defined just before the definition it replaces (in `ServiceManager.tla`,
`ConfigSession.tla` or `OperationEncoder.tla`). With the mutant in place, TLC
finds that property violated. The session mutants are:
- `SectionNoInitCheck`, a section property without its init check, which breaks `TypeOK`;
- `ConfigFreeNoCheck`, `free()` sending None, which breaks `IssuedHandlesOnly`;
- `BuildOpQualLost`, which drops a selector's name beside a direct action and breaks `RoundTrip`.

## Fairness

`Fairness` is weak fairness on each client's in-call steps (`ClientBusyStep`).
The code justifies it as follows:
- A running call keeps executing.
- `_get_port` ends after at most `PollLimit` sleeps, because of its deadline.
- Every health probe has a timeout of 1 s and a bounded number of retries.
- `stop()` waits at most 5 s before it kills.

Some steps are not assumed to happen:
- The download is excluded from the fairness, because `urlretrieve` has no
  timeout. That is listed as a liveness hazard.
- Calling, exiting and the environment are never forced.

## What is proved (TLAPS)

`ServiceManagerProofs.tla` proves the following for every set of clients and pids
and every `PollLimit`, assuming only `ConstantsAssumption`:
- `TypeCorrect`: `Spec => []TypeOK`. The lemma `TypeStep` shows that `TypeOK` is
  preserved, with one step per action.
- `ChildTracked`: `Spec => []OwnedChildTracked`.

`OwnedChildTracked` is not inductive on its own. In a state where a client at the
launch step still holds a live child, `ExecuteBinary` would overwrite
`self.process`. Such a state is unreachable: `start()` returns early when
`self.process` is set. The inductive invariant is therefore

`IInv == TypeOK /\ OwnedChildTracked /\ NoChildBeforeLaunch`,

where `NoChildBeforeLaunch` says that no client before the launch holds a child.
The proof has three steps:
- `IInvInit` shows that `Init` implies `IInv`.
- `IInvStep` shows that every action preserves `IInv`. The `ExecuteBinary` step
  picks the new pid and uses that the launching client owned no live service.
- `ChildTracked` concludes by PTL.

Two more theorems in the same module:
- `NoReplacedChild`: `Spec => ChildNeverReplaced`, an action property. The
  lemma `ReplaceStep` shows `IInv /\ [Next]_vars` implies the step formula.
  - `ExecuteBinary` uses `NoChildBeforeLaunch`, since the client at the launch
    has no child, and `FreePid`, since the new pid is unoccupied.
  - `Stop` and `ClientExit` only clear `self.process`.
  - The lemma `ProcessFrame` shows that every other client step leaves
    `process` unchanged.
- `InstallIntegritySingle`: `ASSUME NEW c0, Clients = {c0} PROVE Spec =>
  []InstallIntegrity`. It holds for one client process, which may exit at
  any step, and any number of pids. It cannot hold for two: run
  `install_race` is the counterexample, because one client stamps
  `version.txt` while the other is extracting. The inductive invariant is
  `IInstall == TypeOK /\ InstallIntegrity /\ InstallSteps`. `InstallSteps`
  says two things:
  - a client that downloads or extracts has not stamped the pinned release,
    since the check before the download sends a pinned stamp with a complete
    binary to the launch;
  - a client about to write `version.txt` has a complete binary.
  TLC checked `IInstall` on run `one`'s instance before the proof.

`ConfigSessionProofs.tla` proves the following for every `MaxHandles` and every
set of names, values and slices, assuming only `SessionAssumption`
(`MaxHandles \in Nat \ {0}`):
- `TypeCorrect`: `Spec => []TypeOK`. The lemma `TypeStep` has one step per
  action, and the actions that issue a handle get one sub-step per disjunct.
  `TypeOK` says that a held wrapper captured an issued handle. It uses the lemma
  `NamedClasses`: every `Nav` step, terminal method and `set()` class belongs to
  a named class.
- `HandlesIssued`: `Spec => []IssuedHandlesOnly`. `IssuedHandlesOnly` is not
  inductive alone, because `Issue` and `SectionSet` send `wrap.handle`. The
  inductive invariant is `TypeOK /\ IssuedHandlesOnly`. The `SectionSet` step
  shows that every request of a plan carries the wrapper's handle, whatever the
  plan is. The lemma `SetCarriesWrapHandle` states this.

**No refinement is stated.** Abstract specifications of the handle table
(ids issued fresh, released only when named, sent only when held) and of
service ownership (spawn only without a child, stop kills the child it
forgets, exit orphans it) were mapped onto both components. Under the
natural mappings they add nothing the invariants above do not already say:
the handle table reduces to `IssuedHandlesOnly`, and the ownership protocol
reduces to `OwnedChildTracked` and `ChildNeverReplaced` plus the OS's choice
of a free pid. So the project checks and proves those properties directly.

## What stays with TLC

- Liveness (`CallsReturn`) is checked by TLC only, because TLAPS
  does not handle liveness under fairness or ENABLED.
- `InstallIntegrity` with several clients is false, as run `install_race`
  shows. It is proved only for one client.
- The violated properties are counterexamples and are not proved.
- `OperationEncoder` and `RoundTrip` are only model-checked. The binder and the
  fold are recursive, and TLAPS cannot reason about RECURSIVE operators or
  prove what a recursive definition computes for every input. For this reason
  `ConfigSessionProofs` extends `ConfigSession` and `WrapperTree`, never the
  encoder.

## Not modelled, and plan

- Responses are not modelled: what `get`, `list` and `id` return is whatever
  the service answers, and the service's configuration store is outside this
  tree.
- `ConfigSession` abstracts `start_service()` instead of composing with
  `ServiceManager`. The two share only the port, and no property relates them.
- Transport stubs (`clients.py`) are the "may fail in transport" of every
  call, and nothing more is modelled of them. Type conversions, packaging scripts,
  examples, tests and the mock auth server hold no state worth modelling, as
  explained in `PROJECT.json`.

Hazards without a property (each has a note in `PROJECT.json`):
- a malformed run file, where `get('pid', 0)` makes `kill(0, 0)` succeed;
- the download without a timeout;
- the errors that `_do_request` swallows, as the spec intends;
- a second `Drive.init` or `Config.init` leaking the first handle (the model
  has the steps, but with one object of each class no property can tell a
  leaked handle from a released one);
- `Port.get`'s default of 0.

Next steps:
1. Compose `ConfigSession` with `ServiceManager` through the port.
