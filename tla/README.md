# Verification of codex-proxy-guard

TLA+ models of the parts of codex-proxy-guard whose correctness depends on the
order in which things happen: several Guard processes over one configuration
file and one managed `.env`, a launch that must not be submitted twice, and a
session whose worker, budget, cancellation and confirmations race, the two front
ends over it, the helper processes it runs, and what it concludes from watching
processes and packages come and go. TLC checks small instances; TLAPS proves
every safety property of the passing runs for every instance.

## The system

codex-proxy-guard is a Windows program that points Codex Desktop at a local
proxy. The same engine serves a full-screen TUI, a line console and headless
commands, and several of them may run at once.

| Part | State it keeps | Operations | What makes it correct |
| --- | --- | --- | --- |
| Configuration store (`cpg-engine/config_store.rs`, `cpg-windows/fsio.rs`) | `config.toml`; handles with share modes | load or create, edit the endpoint, grant or revoke consent, init, lease | a mutation writes over what it checked; a failed one restores; consent never appears unasked |
| Managed block (`config_store.rs`, `cpg-domain/dotenv.rs`, `cpg-windows/txf.rs`) | Guard's block in a Codex Home's `.env` | prepare, revoke, inspect | a block is always accounted for by a stored consent; a launch sees its own endpoint |
| Launch pipeline (`cpg-engine/launch.rs`) | startup lock file, facts of the run | discover, prepare, stop the daemon, last checks, mark, submit, receive | one submission at a time, ordered effects, honest facts, nothing after a cancellation |
| Engine session (`cpg-engine/session.rs`) | published view, proposals, one worker, mailbox, latch | request, poll, cancel, drop | one foreground effect; single-use confirmations that match what was shown; committed facts survive |
| Owned process (`cpg-windows/process.rs`) | a child, three pipes, a deadline | run, cancel, time out, terminate | no child and no thread outlives its call; a verdict that never denies a submission |
| Activation worker (`app/worker.rs`, `cpg-windows/activation.rs`, `cpg-domain/worker.rs`) | one request on a pipe | activate, observe, answer | a receipt claims only what was observed |
| Signals (`cpg-windows/console.rs`, `cancellation.rs`) | two flags, a latch and its event | signal, take, cancel, wait | no signal is lost |
| Process observation (`cpg-windows/process_state.rs`) | nothing | snapshot, inspect, classify | "stopped" is said only of what was inspected |
| Discovery (`cpg-windows/appmodel.rs`, `cpg-domain/discovery.rs`) | nothing; the registry changes under it | list, read, qualify, choose | what is chosen can be launched and nothing better was there |
| TUI (`cpg-tui/app.rs`, `lib.rs`) | screen, dialog, editor, pending request, last results | keys, poll, events, close | what is confirmed is what is on screen; failures are shown; results stay |
| Line console (`cpg-tui/plain.rs`) | the prompt, what was printed | commands, prompts, wait | every result is printed; a signal reaches the operation |

A front end calls the session; the session hands one task to a worker thread and
collects its result from a mailbox; the task calls the store or the pipeline; a
launch holds the store's lease from before the first `.env` byte to the end; the
pipeline runs helpers through the owned-process runner and activates Desktop in
a worker process that has no job object and survives its Guard.

What is hard: the operating system's share modes are the only mutual exclusion
between Guards and nothing ever waits for them; everything a decision rests on
(file, Desktop, processes, clock) may change before the effect; a budget or a
cancellation arrives while the effect is being carried out; a device, a
randomness source or a process may fail between two steps.

## Modules

### ConfigStore

Guard processes `Procs` share `file` (config.toml) and `env` (one `.env` for each
directory). A handle is not a variable: a process holds one exactly while its
`pc` is in `WriterAt` (the Transaction of config_store.rs) or `LeaseAt`
(ConfigLease), which is how a crash closes it. `CanRead` and `CanWrite` are the
share modes. `seen` is what a session retains of its last refresh and `job` the
operation in hand. Each label boundary is a point where the code lets go of the
processor between two system calls that other processes can come between:
`Probe`/`Create`/`Load` for load_or_create_config, `CheckMissing`/`OpenProxy`/
`Commit` for update_proxy, `OpenConsent`/`RevokeRead`/`RevokeApply`/`Commit` for
update_consent, `Lease`/`PrepareRead`/`PrepareApply`/`EndLaunch` for a launch.
Commands of the CLI start from the same requests as a session's tasks.

A configuration is its port (the whole endpoint), its consent and its Home.
Bytes that are no configuration are `Marked` or `Plain`: what
may_contain_consent tells apart. An `.env` is the port of its block and a text
that is plain, conflicting or not acceptable to parse_env. `Canonical` gives the
directory a spelling of a Home names.

### LaunchPipeline

Guards run launch_with step by step: `OpenLock`, `Discover`, `Prepare`, `Verify`
and `StopConfirmed` or `StopUnconfirmed` (repair only), `Final`, `Mark`,
`Submit`, `Receipt` or `NoReceipt`. `stamp` is the time in the startup lock file
and the lock itself is held at `LockHeldAt`. `facts` is LaunchFacts, what the
run will report; `deeds` is what it did, which no code keeps. `flight` is the
time of the mark of a run's submission that has neither shown Desktop nor failed;
when the run dies or gives up in `activate` the mark becomes one of `orphans`,
because the worker goes on, and `Surface` is its end, however late. `Cancel`,
`Crash`, `Surface`, `Tick`, `Skew`, `UserActs` and `Update` may come between any two
steps.

### EngineSession

One session: the requests, `Cancel`, `Close` and `Join` of the front end's
thread, the steps of the worker (`Mutate`, `Read`, `Observe`, `Launch`, `Panic`)
and poll (`TimeOut`, `Collect`). `foreground` is ForegroundState; `latch` is the
one Cancellation the session owns. `shown`, `spent`, `held` and `interrupted`
are history variables: what was displayed with each revision, the last revision
displayed before a submission, what the file has held, and whether the operation
in hand was cancelled. Consent proposals are taken from `shown`, so a front end
may submit one that is no longer on display. `Homeless` are the configurations for
which a Home may not be told or is relative: then no consent is offered, but a repair
may be (`Confirm`). What a mutation does to the file and
what a launch does is one worker step each here, and ConfigStore and
LaunchPipeline have the detail.

### OwnedProcess

One call of run_owned_process. `main` is where the calling thread is: `Create`,
`Boundary` and `Reap` are the setup; `Poll`, `CheckOutput`, `CheckErrors`,
`CheckFinished` and `CheckClock` are the looks of the wait loop, each a step because
the other threads set their flags in between; `Settle` and `Kill` are Owned::settle,
`Judge` the verdict. `Reader(s)` and `Writer` are the threads, with the stop flag
looked at before each blocking call. The child may read, write, close, exit, act
(as the activation worker does, on a whole request and its end) or start a
`descendant` with the same pipe ends, and owes nothing. A pipe counts chunks. The
two callers are a daemon stop without a request and an activation with one. A
child that is created too late for its deadline is reported `cancelled`, as the
code does. This is the detail behind `StopConfirmed`, `StopUnconfirmed`, `Receipt`
and `NoReceipt` of LaunchPipeline.

### SessionContract and SessionClient

`SessionContract` is what EngineSession promises a front end, with no worker, no
mailbox, no file and no token: one operation at a time, offers that stand only
over an idle session and carry the revision they were displayed with, authorized
operations that use the offer up, and how each kind of operation may end.
EngineSession contains the refinement mapping (`Contract`), and `KeepsContract` says that every step of it is a
contract step or leaves the contract's state alone. `SessionClient` is a contract
session as a client sees it: the contract's steps, and the public facts (view,
results, endpoint) that come with them. The front ends are built on that, so what
is shown of them holds over the detailed session as far as the contract is all
they use of it; `FrontEndsKeepTheContract` proves that their steps are the contract's.

### Tui, LineConsole and Console

`Tui` is run_loop of app.rs: `at` is where a turn is (a key, poll, the handling of
one event), `modal` the dialog, `opened` the revision of the proposal an open
dialog was opened with, `saving` the operation an editor waits for, `result` the
launch whose outcome is on display, `refreshed` the refresh the console starts by
itself when a launch is over. `LineConsole` is interact and wait_with_controls of
plain.rs: prompts, the drain of a stray Ctrl+C, the wait with its look at the
flags, and leaving. `flags` are the SIGNAL_FLAGS of console.rs, loaded and then
cleared in two steps. `Console` is run_console: one session under one of the two,
with the worker beside it and the fall-back from a failed terminal to the line
console over a session of its own.

### Observation

`procs` is the process behind each pid. Other programs start and end processes and
reuse pids throughout. `TakeSnapshot`, `Walk`, `WalkFails` and `Classify` are
desktop_process_state: one entry at a time, each opened by a pid that may be gone,
another's or not openable. The code takes any error of Process32NextW for the end of the
snapshot, so `Classify` may come with entries still `Ahead`. `ReadTime`, `Activated`, `OpenAnswered`, `Query`, `Probe`
and the failures between them are activate_and_observe; `Publish` is the validation
of the receipt and what activation_receipt makes of it. `survivors`, `unreadable` and
`seen` are history: which Desktop processes the snapshot had, less those the walk broke
off before, that still run, whom the walk could not
read, and what the process held open really is.

### ManagedBlock, Discovery and Preparation

`ManagedBlock` is the grammar of an `.env` as a sequence of kinds of lines: a
marker, a key of the block, an exclusion entry of a kind (`loopback`, `quote`,
`slash`, ...), anything else. It defines which configurations are valid and can be
planned (`ValidConfig`, `CanPlan`), the loop of parse_env (`ParseLine` turn by turn,
`Scan` to the end), the table of generated_no_proxy, what a plan writes and what a
revocation cuts out (dotenv.rs, config.rs). `Discovery` is one
discovery: the sizing call and the listing, then for each package its path, its
manifest and its applications, while packages are installed and removed; the runtime rules and the
order of the candidates are operators. `Preparation` composes them: a launch
discovers and prepares, a revocation cuts out, and other programs edit the file
between discoveries and the registry during one. `Scan`, `BestOf` and the table are
recursive functions, as the loops they stand for, and so can be proved about.

The `MC` modules give the instances TLC checks; the `_proofs` modules hold the
theorems. In every module an operator marked "Mutant" is a plausible bug in the
definition that follows it, used only to see that a property notices.

## Runs

| Run | Bounds | Shows |
| --- | --- | --- |
| `ConfigStore_edits` | 2 processes, 2 ports, 1 Home, 1 edit by another program, 1 crash | `LeaseHolds`, `TransactionHolds`, no orphaned block, a current block at the submission, no lost update |
| `ConfigStore_recovery` | 1 process, 2 spellings of a Home, 3 edits, 1 device failure, 1 crash | a file that is deleted, torn or damaged under a consented session is not recreated with consent; a revocation that fails half-way orphans no block |
| `ConfigStore_refused_repair` | 1 process, 3 edits | violated: see Findings |
| `LaunchPipeline` | 2 Guards, 2 runs, 2 kinds of Desktop, 2 instants, a cooldown of 1, 1 update, 1 clock step back, 1 crash | `FactsAreHonest`, `EffectsInOrder`, `CancelStopsEffects`, `NoDoubleStart` |
| `EngineSession_safety` | 3 operations, 2 ports, 1 configuration without a Home to propose, Guard not elevated, 1 failure or step of another program, randomness intact | the session's safety properties, `KeepsContract` (refinement) and `GateReopens` (liveness) |
| `EngineSession_latch` | 2 operations, no failure | violated: see Findings |
| `OwnedProcess_call` | 1 output stream of 2 chunks with a limit of 1, a request of 2 chunks, pipes of 1, 1 failing system call | `NothingLeftBehind`, `ActivationNeverDenied`, `SuccessIsNatural`, and `Returns` (liveness) |
| `OwnedProcess_truncated` | the same without failures | violated: see Findings |
| `Console_fronts` | both front ends, 3 operations, panics, 2 signals, 1 endpoint | what is confirmed was shown, failures are reported, results stay, a user who leaves leaves, signals reach the operation |
| `Console_signals` | the same, 1 signal | violated: see Findings |
| `Observation` | 3 pids, 5 kinds of process, 3 started by others, 2 instants | `StoppedIsObserved`, `RootIsReported`, `ReceiptIsVerified`, `ReceiptsAreAccepted` |
| `Preparation` | 2 endpoints, lists of at most 2 entries of at most 3 bytes, 4 packages of 2 families, 2 steps of other programs | a written block is recognised and can be taken back, other lines are kept, the package chosen can be launched and is the best |

Why the bounds are enough. Two processes meet in every pair of steps, and the
properties relate at most two of them; a third adds no new pair, and the proofs
cover any number. One edit is what it takes to invalidate one check; the recovery
run has three, for consent, disappearance and reappearance. Two ports tell an old
endpoint from a new one. Three operations of a session are the shortest history
in which a proposal is shown, superseded and submitted late; failures and steps of
other programs share one budget, because no property relates two of them, and the
proofs have no such bound. A cooldown of one tick has the instant of a mark and one past
it. One output stream is enough where the two readers share nothing;
two chunks against a limit of one exceed it by one, and two chunks of a request
can be cut in the middle. Three operations of a console are a launch, the refresh
it starts by itself and one more request; two signals are one that is taken and one
between its load and its clearing. Three pids are a root, its helper and
one that is reused. The entries of `Preparation` are one of each kind the parser
tells apart, and two whose quotation marks pair up; file edits happen only
between discoveries, with which they commute, and registry changes only during
one. It starts from three installed packages and reaches the others by changes.
The processes of ConfigStore, the Guards of LaunchPipeline and the pids of
Observation are symmetric; no run with a symmetry set checks liveness.

Assumptions about time: the clock is not set back nor the lock file cleaned away
(`spoiled`). Nothing is assumed of how long a worker takes. The code has a cooldown of
five seconds and gives a worker thirty, and a Guard that dies or gives up leaves its
worker without the lock, so a second submission while the first has shown nothing
is possible once five seconds are over. `NoDoubleStart` says what the lock and the
stamp do promise: they are never closer together, and nothing younger than that
brings Desktop up behind a Guard's last checks. With workers that settle within the
cooldown that means no double start.

Fairness:

- `GateReopens` assumes that the worker makes progress (every call it makes has a
  budget of its own), that the front end keeps polling until the result is
  collected (its loop does), and that a dropped session joins its worker (Drop
  blocks until then). No request, cancellation, time-out or external step has to happen.
- `Returns` assumes that the threads of the call run, that the operating system ends
  a terminated process and that the deadline comes; the child owes nothing, and a
  descendant that keeps a pipe for good is excepted.
- `Leaves` and `SignalsReachTheOperation` assume that the TUI's loop runs (it waits
  for a key no longer than a slice and poll returns at once), that the line console
  proceeds where it does not read a line, that a cancelled worker ends, and that
  a failed terminal drops its session. Reading a line may wait for ever, and so may an
  operation that nothing cancels.

`CHECK_DEADLOCK FALSE` stands where the system really stops: a closed session, a
call that has returned, a console that was left, a launch that is settled, and a
preparation whose outside steps are used up.

## Findings

- **A refused repair may leave a file** (`ConfigStore_refused_repair`).
  docs/TROUBLESHOOTING.md:38-40 says the file is left absent. If it disappears
  between the check and Transaction::open, open creates it before the refusal,
  and an empty file is a default configuration.
- **The latch is never released** (`EngineSession_latch`). The message of a
  timed-out operation says to refresh; the session's Cancellation stays set, so
  every later refresh of that session fails.
- **Truncated output may pass as whole** (`OwnedProcess_truncated`). The wait loop
  loads over_limit before done; a reader that sets both between the two loads, for
  a child that has already exited, ends the loop without a failure.
- **A Ctrl+C at a prompt cancels the next operation** (`Console_signals`). The comment
  at plain.rs:125 says an idle Ctrl+C is a no-op; only the command prompt drains it,
  and one typed at the host, port or YES prompt reaches the operation confirmed there.
  In TLC's trace it is typed at the YES prompt, with no operation in hand.

Other observations, made while modelling, that no run states:

- A repair over present bytes that are unusable and name no consent field writes the
  retained snapshot back, its consent included (config_store.rs:239-242), which a
  reader of docs/SECURITY.md:35 may not expect. `MissingFileLosesConsent` exempts it.
- The message of a failed task says to refresh first (session.rs:477); poll issues
  new proposals over the old view at once (1015-1024).
- docs/RUST_TUI_MIGRATION_ACCEPTANCE.md:128-130 relies on the child's end closing the
  pipes within the settle budget; a descendant keeps them open and the call waits
  (process.rs:549). `Returns` exempts it.
- In the TUI, `saving_operation` stays set after a save that panicked, and the outcome
  of a consent change that is refused later is dropped. `FailureIsReported` exempts it.
- docs/ARCHITECTURE.md:156-157 says that running or uninspectable Desktop roots block a
  launch. A Process32NextW that fails for another reason than the end of the snapshot
  ends the walk without a mark (process_state.rs:140-142), and what the walk did not
  come to blocks nothing. `StoppedIsObserved` and `RootIsReported` speak of what it did.
- In the line console, the prompt "(Enter keeps draft)" uses the view's endpoint; a
  close signal taken during a wait is forgotten by the prompt after it; the outcome
  of a refresh that ran out of its session budget is never printed.
- The retry loop of package_full_names (appmodel.rs) never retries, so
  APPX_DISCOVERY_UNSTABLE cannot be reported; parse_ipv6 (proxy.rs) computes
  `8 - total` before it checks that the total is at most eight.

## Proofs

| Module | Theorems |
| --- | --- |
| `ConfigStore_proofs` | `TypeOK`, `Inv`, and the six properties of the two passing ConfigStore runs |
| `LaunchPipeline_proofs` | `TypeOK`, `Inv`, and the four properties of its run |
| `EngineSession_proofs` | `TypeOK`, `Inv`, the six safety properties of its run, and the refinement `KeepsContract` |
| `OwnedProcess_proofs` | `TypeOK`, `Inv`, and the three invariants of its run |
| `Observation_proofs` | `TypeOK`, `Inv`, and the four invariants of its run |
| `Console_proofs` | `TypeOK`, `Inv`, the five safety properties of its run, and that both front ends keep to `SessionContract`; `SignalsAreHandedOver`, which no run checks |
| `ManagedBlock_proofs` | what parse_env, generated_no_proxy, a plan and a revocation do, for files and values of any length |
| `Preparation_proofs` | `TypeOK`, `Inv`, and the five properties of its run |

All but `ManagedBlock_proofs`, whose module has no specification of its own, prove
`Spec => []Inv` for the inductive invariant `Inv` that stands at the end of the model's
module, with one lemma for each action or group of actions, and derive the properties from
it; TLC has checked each `Inv` on the instances of the runs.

ConfigStore, for every set of processes, ports and Homes, every aliasing
`Canonical`, and every bound: none of the properties is inductive alone. That what was
checked at the open still holds at the commit needs `Exclusion` (a writer excludes
writers and leases, so nobody changes the file in between); that a revocation
orphans nothing needs `Revoked` (at its commit the block is gone) and that no launch
can write it back (a lease excludes the writer); and each step's effect needs
`JobShape`, the form the request gave the job. The action properties follow step
by step from `Inv`.

LaunchPipeline: `Progress` records what a run has done and reported at each label;
`Flights` says that an unseen submission younger than the cooldown is no younger than
the stamp, so `TooSoon` keeps the lock from everybody, that while the lock is held every
orphan is a cooldown old, and that only the holder has a submission of its own.

EngineSession: `OneWorker` says that there is one at most and only while something is pending,
`Stage` what it has in hand at each label, `Authority` what was on display when it was
authorized and `Evidence` what its findings rest on; `Displayed` and
`Remembered` relate offers and endpoints to what was published. `Implements` maps each step of
the session to a contract step or a stutter under `Inv`. A repair may be offered where no consent is:
`Authority` asks for a consent on display
of consent operations only. The proof also covers
a failing randomness source, which the passing run leaves out because its states do not
fit the time of a run; single use then speaks of tokens that were drawn.

OwnedProcess: `Streaming` says that nothing is read that was not written and that the
writer calls itself done only when it knows whether everything got through; `Progress` says
what the calling thread has done at each label, above all that a killed child has been
terminated by an aborted call and that the verdict is given on a complete one.

Observation: `Covered` says that every Desktop process of the snapshot that still runs,
unless the walk broke off before it, is ahead of the walk, was found, or could not be read; `Observed` that each claim of the
receipt was so; `Reached` that the process held open cannot be replaced.

Console: `SessionInv` holds whichever front end runs: offers stand only over an idle
session with a usable view, and no result carries the number of an operation that still
runs. `TuiInv` ties the dialog to the session: a consent or repair dialog is open only
while the session is idle and is about the offer on display, and no result is on display
while an operation that would replace it is in hand. `LineInv` says that at every prompt
all results are printed, and that a YES is asked for the offer on display. The line
console's variables stand still until it runs (`Untouched`). `Rests` says that no
operation is in hand at the labels where the line console reads, reports or throws a signal
away; everywhere else the bit is cleared only by the step that cancels the operation. So
no signal is lost while an operation is in hand (`SignalsAreHandedOver`), the safety half of
`SignalsReachTheOperation`, for any number of signals. `FrontEndsKeepTheContract`
needs no invariant: each key, command and poll is a call the contract has, and only the
line console that follows a failed terminal starts a new session.

ManagedBlock: `ScanInv` is the loop invariant of parse_env: after i lines it knows where
the markers are, which keys stand between them and whether a proxy key stands outside.
The three keys and two markers leave one shape, `Framed`, whose values are those of its
lines; so a file is recognised exactly when it is free of markers or frames one block
Guard could have written. A file with a new block is the old one spliced (`Spliced`),
with the markers at known places; a revocation of it leaves the lines around the block.
`GeneratedIsCut` states what the table computes without the table: a value is accepted exactly
when some cuts at its commas make at most `MaxEntries` valid entries. The value of a list
of loopback names is such a one, so Guard accepts what it writes.

Preparation: `EnumerationInv` says that each family is enumerated once and that what was
listed and recorded of one family stays out of the way of the other, so that `BestOf`, which
chooses among one listing, chooses among all that were listed; `SelectionInv` that
what was selected was listed and is the only trusted candidate of its package; `FileInv`
that a file holds nothing but lines of other people and lines Guard wrote, whoever edits it.

Induction over the lines of a file, the pieces of a value or the names of an enumeration
is done on the states of the recursive function: `LeastElement` and `UpTo`, from the
well-foundedness of the naturals, do for a set of naturals what the library's rules do for
a predicate, which the provers cannot instantiate.

The proofs assume the constants' assumption of each module, which TLC evaluates in
every run, and no more. Those about text and packages say that NO_PROXY values and
exclusions are nonempty sequences of pieces (a text cut at its commas has at least one),
that a configuration names at least one exclusion and may name the default's one, that
a package's version is a natural number and its manifest names finitely many applications,
and that an override lies in a package or in none.

Only model-checked: liveness under fairness (`GateReopens`, `Returns`, `Leaves`,
`SignalsReachTheOperation`), which is out of the prover's reach.

## Not modelled

- Text: TOML, JSON, manifests, the address grammar of proxy.rs, views and their
  wording, option parsing, command-line quoting. They are pure functions of text; what the
  properties tell apart of them is a class of values in the models.
- `.env` files as text: the byte-order mark and carriage returns belong to no line, and
  the total of 4096 bytes of exclusions is not modelled.
- The thin Windows wrappers (paths, environment block, handles, elevation, clipboard).
- The event that Cancellation creates lazily, and the resolution of the Codex CLI, which
  is one refusal in LaunchPipeline.
- take_close of console.rs is one step in LineConsole; take_cancel is two.
