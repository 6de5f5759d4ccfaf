# Formal models of integration-tests

TLA+ models of the parts of this repository whose correctness depends on an
order of events: the release pipeline, which reserves build numbers in a shared
ledger, builds and stages versioned artifacts, and publishes releases through the
GitHub API; the jobs that act on an accepted release candidate; the preparation
of the next version in a pull request; and the attended qualification run on a
laboratory device. TLC checks the models on small instances. TLAPS proves every
safety property of the passing runs, for every value of the constants:
any number of runs, jobs, operators, assets, pages, files and edits, and any
limit. `PROJECT.json` maps every definition to the lines it models.

## The system

| Component | State it keeps | Operations | What makes it correct |
|---|---|---|---|
| Version ledger, `scripts/release_state.py` | one JSON file on branch `release-version-state`: counter, publication floor, plans by run ID | read, compare-and-swap write, reserve, verify, begin publication | unique, durable reservations; a number is consumed before its tag and backs one tag |
| Version identity, `scripts/version_plan.py` | none (plans are values); declared version fields in files | create and validate a plan, project it into files, inspect artifacts | numbers stay in range; a plan's tag follows from its fields; all files or none carry the version |
| Versioned prepare and publish, `scripts/release_versioned.py` | evidence files of a run | `prepare`, `publish` | only a verified, current reservation is published |
| Release control, `scripts/release_control.py` | tags, drafts, releases and assets on GitHub | `candidate`, `promote`, the publication transaction, the lost-response readback | a public release has exactly the reviewed bytes, tag and source; no request is replayed |
| Release workflow, `.github/workflows/release-pipeline.yml` | runs, attempts, one concurrency group | dispatch, cancel, re-run | publications are serialized |
| Device runner, `hardware/device_runner.py` | journal of events, restoration ownership, sample queue, stop flag; the lab's meter service | preflight, observe, collect, reconnect probe, fault, restore, evaluate | the meter is never left down; a pass means what it says; the run ends |
| Release archive binding, `hardware/release_artifact.py` | none | bind archive, manifest and tag | exact digests |
| OCI merge and detached provenance, `scripts/merge_oci_archives.py`, `scripts/release_provenance.py` | input and output archives | inventory, walk, merge, link | the output mixes no two inputs, replaces no file |
| Receipts and staging, `scripts/version_receipt.py`, `scripts/stage_release_assets.py` | receipts | create, verify, cover | each payload has one receipt of this plan |
| Base version preparation, `scripts/prepare_version.py` | a topic branch and a pull request | choose, sync, push, open or resume | one owned topic per version; a foreign one is never overwritten |
| Runner preflight, `scripts/runner_preflight.py` | none (read only) | download under a deadline, compare | ends; fails closed |
| Change scope, `scripts/change_scope.py` | none | classify a diff | unknown input requests the full pipeline |
| Gates and contracts, `scripts/release_validation.py`, `workflow_contracts.py`, `validate*.py` | none | static checks | fail closed |
| RC fuzzing, `scripts/release_fuzz.py`, `fuzz/` | campaign report | setup, preflight, targets | no pass without every target exercised |
| Local client, `scripts/release.py`, `package_source.py` | none | dispatch, package | publishes nothing itself |
| Integration environment, `scripts/run-integration.py`, `tests/`, `docker-compose.yml` | containers of one run | build, up, wait, test, down | containers go down; failures fail |
| Mock publishers, `mock-*/` | simulated readings | publish once a second | none that an order of events can break |
| Dashboard contracts, `contracts/` | JSON schemas | validate examples | static |

How they interact: a workflow run calls `prepare`, which reserves a plan in the
ledger; its build jobs use the plan; `publish` verifies the reservation again,
calls `begin_publication` on the ledger and then `_publish_prepared` in release
control. `promote` does the same with the plan of an accepted RC. The ledger is
shared by every run, and so are tags and releases. Before that, each build job
writes the plan's version into its checkout, builds, merges or detaches its OCI
archives and stages its files with a receipt; the publishing job collects the
artifacts of all of them and checks that the receipts cover every file. A
candidate is fuzzed, and the report is one of those artifacts. Once a candidate is
accepted, four jobs read it again from GitHub and compare it with its run: the
promotion, the final build, the preflight of a device run and the scheduled
reuse. As to concurrency, GitHub is the only lock, by
the blob SHA of a PUT and by refusing a reference that exists. Inside the device
runner the main thread, paho's callback thread and the probe thread share the
queue and the stop flag; the supervisor and the controller act on their own.

Hard behaviour: two runs between the same read and write; crashes between any
two requests, and re-runs under the same run ID; deleted releases; lost
responses; edits by other users during a publication; exceptions and signals
inside `except` and `finally`; a full queue; a client that hangs for good;
journal events from different threads; files edited while they are read,
replaced or built from; a candidate that changes between two reads of it.
`PROJECT.json` lists each hazard with its line and the property that covers it,
or why none does yet.

## Modules

### LedgerSpec, VersionLedger, MCVersionLedger, VersionLedgerProofs

`LedgerSpec` is what `docs/VERSIONING.md` promises of the ledger: an atomic
reservation, an atomic consumption, nothing else. `VersionLedger` is the code:
each API request whose order matters is an action, and `Unchanged` is the
compare-and-swap. A blob SHA is a hash of the content, so contents are compared.

| Code | Actions |
|---|---|
| concurrency group | `Start` |
| `prepare` | `Prepare`, then `read_state` as `ReadMissing`/`CheckRef`, `ReadLedger`, or `ReuseReservation` for a re-run |
| `reserve_plan` | `Allocate`, `EnsureAbsent`, `GetRef`, `CreateRef`, `PutReservation` |
| `promote` up to its write | `PickRc` |
| `publish_versioned` up to its write | `Verify`, `Recheck`, `Skip` |
| `begin_publication` | `BeginRead`, `BeginCheck`, `Consume` |
| `_publish_prepared` | `CreateTag`, `Release` (detailed in `Publication`) |
| a failed `require`, a refused request, a lost response, a dead runner | `Abort` |
| "Re-run jobs" | `Rerun` |
| an administrator | `DeleteRelease` |

`issued`, `tagged` and `shipped` are history variables. Abstracted: the policy
and source digests of a plan, and the parent record of a final build, which the
run's commit and inputs fix; all of the asset checks, which pass or end the run;
timestamps of nightlies. A PUT of identical content, which Git would accept over
a changed SHA of equal content, is the same content here. An operator who
deletes the ledger file itself is outside the model.

### MeterCustody, DeviceRunner, DeviceRunnerProofs

`run_device` as a program counter over its `try`, `except` and `finally`
blocks. `Raise` follows Python's rules from each label, so an exception, a
broken output pipe (`print` raises) or a signal (`terminate` raises) reaches the
handler that the code would. The callback (`OnMessage`), the probe thread
(`Reconnect`, `ProbeBreaks`), the supervisor (`Supervise`), the controller, the
pipe and signals interleave with it. `Evaluate` computes the verdict of
`evaluate` from the journal.

Abstracted: latency, memory, uptime and identity gates are one choice in
`Evaluate`; messages less than a second apart, which the collector discards, do
not occur; the meter is up when the run starts (preflight rejects it otherwise).
The supervisor changes the process in one step, so a process that is still stopping
when it is told to start counts as running, which is also what `svstat` says.

`MeterCustody` is the promise without the program: a run announces its one stop,
may start the meter as often as it likes while it holds it, returns it only while
it runs, does not touch it before or after, and ends with a meter that runs, or
broken, after a restart that failed. In `DeviceRunner`, custody is the ownership
flag, the label of the stop command and the exit (`Custody`), and
`ImplementsCustody` is the refinement. It is stronger than what the finding about
signals quotes (`MeterRestored`): the meter is not only told to run.

### ReleaseSpec, Publication, PublicationProofs

`_publish_prepared` request by request, in three modes: a dispatched candidate,
an automatic one (which confirms the default branch before publication), and a
promotion (whose draft is created without the lost-response readback). A lost
create may have taken effect, not, or may take effect later (`CommitLate`).
Between any two requests, other users open or delete drafts, change assets, move
the tag, push to the branch or write the ledger. `late` is a history variable:
what somebody changed after the check that was meant to see it. No check can
exclude that, and `PublishesExactly` says that nothing else is possible.

`ReleaseSpec` is what the transaction promises to whoever looks at the
repository: it creates the tag once, makes one release public in one step, with
exactly the staged bytes, and ends, or it fails and makes nothing public any more.
A run is done only if it published, and what is public is not changed again.
Drafts, uploads, readbacks and lost responses are not visible in it. The mapping
takes the label to the next visible step (`Run`) and the releases to those that
are no drafts (`Public`); `ImplementsRelease` is the refinement. Its `run` has the
two steps that `VersionLedger` takes for the transaction, the tag and the release.

### VersionPreparation, MCVersionPreparation, VersionPreparationProofs

`prepare_version.py` with `--pr`, one action per read or write of the remote:
`Fetch`, `ChooseVersion`, `ListPulls`, `ReadTopic`, `Build` (local), `Push`,
`CreatePull`, and `Fail` between any two. A topic is a sequence of commits, each
with the content and the base version of the default branch that it descends
from. That is what `verify_owned_topic`, the comparison of trees and Git's merge
of the version line depend on. The bumps are one choice among the eligible
versions, of which next-patch, minor and major each pick one. People commit to
topics, merge or close pull requests and push to the default branch.

Abstracted: the version files are one line of one file; a merge squashes and
deletes the topic; a person opens a topic only for a version above the base.
Tags are constant, because a release during a preparation adds only the base's
tag, which narrows the choice.

### AcceptedRc, AcceptedRcProofs

The four jobs that trust a candidate which was accepted earlier: `promote`, the
final build (`verified_rc` and the checks of `publish_versioned`), the preflight
of a device run (`verify_context`, `fetch_receipt`) and the scheduled reuse
(`verify_scheduled_reuse`). `Checks(kind)` is the order of each job's requests;
`Advance` goes through it, with one action per kind of check. Before it, all but
the preflight wait for GitHub's metadata of their own run
(`wait_for_executing_run`: `PollRun`, `PollGate`, `Sleep` against `clock`).
Meanwhile others move the tag, edit the release and its assets, run the source
run again, push, change the reviewers, and evidence expires. `void` is a history
variable: what did not hold any more when the last byte was read, and did not
hold again since. A revocation that is taken back leaves it.

### OciPair, OciGraph

`OciPair` has the life of an output: `Steps` is the order in which a job opens,
hashes, walks and copies its two archives and compares their status
(`Archive.unchanged` is `Settle`); then come the links of one output
(`merge_archives`) or two (`detach`), the removal of the first when the second
fails (`Undo`, `Unlink`: `samestat` and `unlink` are two system calls), and the
staging that copies what it finds (`Collect`, `VerifyStaged`). Two jobs have the
same outputs. `NoClobber` is about each step of a job, which `Acts` recognises by
what the step changes of the job's label, position and number of links: the first
link of a pair leaves the label. It allows one thing, the unlink of an image that took the
place of the job's own after the comparison, and requires that the comparison found
the job's own. Any read may see another revision of its input than the one before.
A file is identified by the path's history, so that a replaced path leaves an
open file unchanged, as in POSIX.

`OciGraph` has what one archive is accepted for. The archive is chosen at the
start among all graphs of `Size` nodes; `Walk` is the code's depth-first walk with
its stack and limits. `SingleImage` is the reference definition and does not walk:
a route is a way along the lists from `index.json`, given as the nodes on it, each
with its place in the list that names it. A manifest must have one route and be
fit (an image by its platform, labels and layers, an attestation by its form and
statements), and the routes are as many as the limit allows.

### VersionSync

One build target in one checkout, as loops over the declared files: the
verification of the checkout, `sync_versions` with its two comparisons and the
replacement (`ReadFile`, `Compare`, `Replace`), the evidence file, the build, the
comparison of `--check`, `verify_staged_inputs`, the staging directory and
`verify_current_inputs` before the receipt. Others edit the files; any step
may fail or be killed; the job is run again in the same checkout or a new one.
`late` names the edit between the last comparison of a file and its replacement,
which are two system calls.

Abstracted: an edit never restores an earlier content, which the digests could
not tell from no edit; a failing `rmtree` (the directory is then left as after a
kill). An edit made between `verify_checkout` and `sync_versions`' own read goes
into the evidence; the model allows that, as the code does.

### BuildReceipts

The publishing job's view of the artifacts, which are arbitrary: any files, any
receipts. `Collect`, `Cover`, `NextReceipt` and `Accept` are the loops of
`verify_receipts` in any order of the receipts; `CoverageExact` says what they
decide without a loop. The channel and the fuzzing policy are one choice (`rc`).
Each artifact has one receipt, the one `stage` writes into it, and the policy
declares the receipts it requires, as this repository's does. Without the
declaration, `verify_required_build_receipts` returns at once.

### GitHubReads, ReadProcess, FuzzCampaign

What `AcceptedRc` and `Publication` take as single steps. `GitHubReads` is
`_read_get`: at most three reads of a resource whose pages change, with lost
answers, gateway errors, denials in the status, in the diagnostics or in a
partial output. `ReadProcess` is the preflight's download: two readers and a
main thread with one deadline, against a process that writes, closes its pipes,
hangs or exits. It has no children that hold its pipes: with one, the joins after
the kill (`scripts/runner_preflight.py:139`) would wait for it. `FuzzCampaign` is
the campaign from its first command to the report's reader. `KillDenied` is the
kill that the operating system refuses; the exception ends the campaign while
the process runs on, and the property says that this is never a pass.

### MCBuild, MCAcceptedRc, BuildChecksProofs, BuildProofs, AcceptanceProofs

The build side, and the jobs that act on a candidate with what they take as
single steps. Each is the disjoint sum of its modules: a behaviour is one of a
single component, named by the variable `part`, and the variables of the others
do not change. Nothing is shared, because the components run in different
processes and meet in files and requests that each module has as its
environment. The constants of the parts are constants of the composition, with
the parts' own assumptions (`InstancesAssumption`), so that what is proved of it
holds for all their values. Each module also has a configuration of its own (`OciPair.cfg`, ...)
with the same bounds, to run it alone; with it, TLC's coverage shows that each
action is taken.

## Runs

| Run | Instance | Question |
|---|---|---|
| `ledger_retry` | 2 runs, 1 base, 3 numbers, 2 plans, 2 attempts, byte promotion, deletion | do crashes and re-runs keep one tag per number, and does the file implement `LedgerSpec`? |
| `ledger_serialized` | 3 runs, 1 base, 4 numbers, 3 plans, 2 attempts, the concurrency group | is there no downgrade, and no beta or RC after its stable? |
| `ledger_wedge` | 2 runs | finding: a branch without a ledger and without a history |
| `device_run` | 2 ticks of soak, 1 reconnect, queue of 1, clock up to 4, a broken pipe, signals outside the cleanup | is the stopped meter owned and journaled, does the run keep the promise of `MeterCustody`, and does it end? |
| `device_pass` | 3 samples, clock up to 6, nothing from outside | is a pass sound? Zero may come in time, late or never |
| `device_signal` | as `device_run`, with signals in the cleanup | finding: a signal in `finally` leaves the meter down |
| `device_lost` | as `device_pass`, with a gap of 3 | finding: evidence lost at the end of the run does not fail it |
| `preparation` | 2 operators (symmetric), 3 versions of which the first is released, 2 contents of the default branch, 1 commit of another person at a time | is no commit undone or overwritten, and does the base never decrease, in whatever order pull requests merge? |
| `preparation_refresh` | the same | finding: a refreshed pull request that stays in conflict |
| `publication` | 2 assets, one stray name, 2 release IDs | one own draft, exactly the staged bytes, tag and source; from outside, is it one tag and one release? |
| `accepted_rc` | Jobs: 4, 2 payloads (one the receipt), a manifest, a stray name, a wait of 2 polls, 2 changes by others. Reads: 2 pages, 3 attempts, 2 changes. Download: a limit of 2 bytes, pipes of 1, 4 bytes to write. Campaign: 1 setup, 2 replays, 2 targets | is what a job accepts genuine, and was it not revoked? Are reads whole or none, and passes earned? Does each wait, job, read, download and campaign end? |
| `build` | Pair: 2 jobs (symmetric), 2 inputs, 1 change. Graph: all of 4 nodes, lists of 2, 1 nested level, limits of 3 and 5. Sync: 2 files (symmetric), 2 edits, 2 failures. Receipts: 2 targets, 2 names, lists of 2 | no mixed, half or overwritten output; exactly the single-image graphs; no lost edit, no receipt for other bytes; exactly the covered artifacts |

Bounds. Three runs are what a lost update needs with a bystander; two attempts
are what a reuse of a number needs. The bound on plans stands for the
ledger's 4 MB. Two release IDs are this call's draft and another's (or a second
of this call's, the violation looked for); two assets are a verified and an
unverified one. The clock of the device lets the fault, the loss, the zero, the
restoration and, in `device_pass`, one more sample happen, in time or after the
collector gave up waiting for zero. The code's fixed margins of one and two
seconds (`CollectFor`, `RestoreAfter`) are constants of their own, because a tick
is no particular number of seconds. Three versions let two pull requests above
the base merge in either order, two contents make one checkout stale, and
operators are interchangeable because no definition tells them apart. In `accepted_rc` two
changes are what it takes to replace an asset and its manifest together, or to
revoke something and restore it. In `build`, one change between two reads is all
that a comparison of status can miss; the pair was also run alone with two
changes, and the sync with three files, with the same outcome (1.4 million and
443 thousand states). Four nodes hold a node that two indexes share, and a
nested index with an attestation; the limits are below and at what such a graph
reaches. Two artifacts are what a double or a missing coverage needs. Reads have
an attempt that fails twice and then succeeds; the download can exceed its limit
with a full pipe. No run
checks deadlock, since every program in the models ends.

Fairness. `DeviceRunner`: weak fairness of the main thread as a
whole. Each of its blocking calls has a timeout (the queue's `get`, `svc`, the
D-Bus reads, `join`, `bounded_close`, the poll loops), so a call always returns
or raises. No fairness is assumed of the callback, the probe, the supervisor or
the controller. `AcceptedRc`: of the job, whose requests all have a timeout
(`_read_get`, `download_asset`), and none of GitHub's reports. `GitHubReads`: of
the read, because `subprocess.run` has a timeout. `ReadProcess`: of the main
thread, the readers and the clock, not of the process. `FuzzCampaign`: of the
campaign, whose commands have timeouts; a cancelled job is left out of it. The
other specifications are safety only: nothing in them retries by itself.

Every property has a mutated definition in its module ("Plausible bug: ...")
that makes the run fail: a dropped SHA, a floor compared with `>=`, a replayed
create, a close without its timeout, and so on.

## Findings

1. `ledger_wedge`: the first reservation creates the branch and then the file.
   A run that dies between leaves a branch that `read_state` refuses with
   "restore it from history" (`scripts/release_state.py:106`). There is no history.
2. `device_signal`: `hardware/README.md:84` says that signals enter `finally`.
   A signal that arrives inside it, before `svc -u`, leaves the meter down; the
   process does exit nonzero.
3. `device_lost`: the callback's comment says that lost evidence fails the gate.
   It only sets the stop flag, which nobody reads after the last sample was
   taken from the queue: what is lost during the last wait is not noticed.
4. `preparation_refresh`: a refreshed topic is pushed only if its tree changes
   (`scripts/prepare_version.py:359`). If only the version has changed on the
   default branch since, the tree is the same, the merge base stays, and the pull
   request conflicts, which the comment below that line says the command avoids.
   No rerun helps until something else changes on the default branch.

## Proofs

Every module of proofs follows one pattern. A property is seldom inductive, so
the module states the invariant that is (`IInv`, `Inv`, `SerialInv`, `PartInv`,
`BuildInv`), as a conjunction of named parts. Lemmas show what each action does
to each part it can disturb; a step lemma collects them over the disjuncts of the
next-state relation, and the theorems follow. Each invariant was first checked
by TLC on the instances of the runs.

The assumptions are the `ASSUME`s of the modules, which TLC evaluates on every
run. They say that bounds are natural numbers (positive where the code loops at
least once), that distinct model values are distinct, and of the device that
`CollectFor` and `RestoreAfter` are at least the durations they add a margin to.
`BuildReceipts` assumes that the targets are finite. A theorem that needs more
says so.

### VersionLedgerProofs

From `ConstantsAssumption`; the last two also assume `Serialized`, that the
workflow's concurrency group is in force. Without the group they are false: the
compare-and-swap orders the writes of two runs, not their publications.

| Theorem | Statement |
|---|---|
| `TypeCorrect` | `Spec => []TypeOK` |
| `LedgerInvariant` | `Spec => []IInv`, the inductive invariant |
| `UniqueReservations` | `Spec => []ReservationsUnique` |
| `DurableIssue` | `Spec => []IssuedDurable` |
| `ConsumptionFirst` | `Spec => []ConsumedBeforeTag` |
| `OneTagPerNumber` | `Spec => []NumberBacksOneTag` |
| `CandidateTagsUnique` | `Spec => []CandidateTagNeverReused` |
| `LedgerRefinement` | `Spec => Abstract!Spec` |
| `SerialInvariant` | `Spec => []SerialInv`, the inductive invariant of the next two |
| `ReleasesOnlyRise` | `Serialized` implies `Spec => NoDowngrade` |
| `ClosedCycleStaysClosed` | `Serialized` implies `Spec => CycleClosed` |

None of the properties is inductive: the ledger alone does not say what the runs
that are about to write it carry. `IInv` adds, with `TypeOK`: the ledger is well
formed and complete (`LedgerInv`: the counter bounds the floor and every number,
no two reservations collide, none that was handed out is missing); a run's route
through the code fits its request (`RouteInv`: only a promotion skips the
reservation); a plan about to be written is new to the snapshot it was computed
from (`AllocInv`), so a successful compare-and-swap makes it new to the ledger;
a publishing run holds a plan of the ledger, its own or, in a promotion, that of
an RC whose tag exists (`HeldInv`); a consumption in flight exceeds the
snapshot's floor, or, in a promotion, which shares its number with its RC, does
not go below it (`ConsumeInv`); and every tag comes from a consumed plan
(`TagInv`, `TaggingInv`). So a successful swap raises the floor strictly unless
it is a promotion's, and two tags of one number are those of an RC and of its
promotion. One lemma per group of actions shows preservation; `LedgerRefinement`
then maps `PutReservation` to `Reserve`, `Consume` to `Consume` and every other
step to a stutter.

`SerialInv` adds to `IInv` that the plans of the ledger are for the base and the
channel their run was asked for, that what is public was tagged, and, under the
group, three facts. One run is active at a time (`AloneInv`). From its write of
the floor to its release, the floor is that run's number (`FloorInv`), so a
release has the number that bounds everything tagged before. And the cycle that
a candidate found open when it was prepared is still open (`CycleInv`), because
the only tag created since is its own. A crash ends the run that it hits, so a
re-run starts over and looks again.

### PublicationProofs

Proved from `PublicationAssumption`, which says that the stray name is not a
staged one and that "no release" is neither an ID nor a release; nothing is
assumed of how many assets and IDs there are.

| Theorem | Statement |
|---|---|
| `TypeCorrect` | `Spec => []TypeOK` |
| `UploadsOwn` | `Spec => []OnlyOwnDraft` |
| `OneDraft` | `Spec => []CreatedOnce` |
| `Publishes` | `Spec => PublishesExactly` |
| `ReleaseRefinement` | `Spec => ImplementsRelease` |

`OnlyOwnDraft` needs that an ID is not assigned twice: the draft in hand may be
deleted, and somebody else's next draft must not take its place (`HandInv`).
`CreatedOnce` needs that nothing of this call's exists before its create, and
that a late commit finds none (`CreateInv`). `PublishesExactly` follows from what
each check leaves behind. After the first inventory, every staged asset is either
still to be compared or in the draft with the staged bytes, and no other asset
is there, unless somebody changed the assets unnoticed (`AssetsInv`); when nothing
is left to compare, the draft covers the staged assets, and because a release has
one asset of a name (`NamesInv`), it has exactly those (`CoveredExact`). The tag
and the branch are where they were checked, or somebody moved them afterwards
(`ChecksInv`). The steps fall into four kinds, those that read, those that open a
draft, those that change a release and those that happen elsewhere; one lemma per
kind and part of the invariant shows preservation.

`ReleaseRefinement` needs one more invariant, `DraftsInv`: while the run goes on
there are drafts only, and before its own create the tag is absent. Only the PATCH
changes what is public (`StepPublic`): drafts that are opened, deleted, filled or
tampered with stay drafts, so every other step either is one of the environment's,
the tag or a failure of `ReleaseSpec`, or cannot be seen in it (`OtherOutside`). The PATCH
finds nothing public, makes one release public, and what `StepPublishes` knows of its assets,
its tag and the branch is what `ReleaseSpec` asks (`PublishOutside`). `CreateInv`
excludes that anybody edits the assets of this call's draft before it exists.

### DeviceRunnerProofs

| Theorem | Statement |
|---|---|
| `Invariant` | `Spec => []IInv` |
| `TypeCorrect` | `Spec => []TypeOK` |
| `StopJournaled` | `Spec => []JournaledStop` |
| `PassSound` | `Spec => []PassIsSound` |
| `KeptInvariant` | `"lateSignal" \notin Disturbances` implies `Spec => []Kept` |
| `CustodyRefinement` | `"lateSignal" \notin Disturbances` implies `Spec => ImplementsCustody` |
| `MeterIsRestored` | `"lateSignal" \notin Disturbances` implies `Spec => []MeterRestored` |

The state of the meter, the ownership flag and the journal change in different
steps, so `Owns` says at each label which of them may differ, and `Restored`
that the body restores once and that a second restoration, in the cleanup, only
follows an error. A pass needs more than the verdict's own conditions: a
reconnect is counted for each entry (`Counted`), and no message in the queue or
the journal reports a zero that the controller did not accept (`Heard`).
The last three have a second invariant (`Kept`): a meter that is not owned runs, and
if it was stopped a restoration is journaled; at the label that gives it up it is
owned, runs and is journaled as restored; past the cleanup it runs or its restart
failed. With it, each step about the meter is one of `MeterCustody`: the fault
announces, `svc -d` stops, `svc -u` starts, the label after the journal entry
returns, and an exit ends or is excused. Everything else stutters, except for
the supervisor and for a failure between the announcement and the stop. These
theorems assume that no signal
arrives inside the cleanup, which is what finding 2 is about; without the
assumption they are false. An exception, a broken pipe, a failed `svc` and a signal
anywhere else are covered.

### VersionPreparationProofs

| Theorem | Statement |
|---|---|
| `Invariant` | `Spec => []Inv` |
| `TypeCorrect` | `Spec => []TypeOK` |
| `EditsSurvive` | `Spec => []EditsNotUndone` |
| `MainSurvives` | `Spec => []MainNotUndone` |
| `TopicsExtended` | `Spec => TopicsOnlyGrow` |
| `BaseIncreases` | `Spec => BaseNeverDecreases` |

`Inv` says of each topic that its commits never go back, and that the base its
last commit descends from is not above its version (`TopicOK`); of each operator,
that what it read had these properties, that it prepares no version below the
base it read, and that it builds on a topic only if it owns it (`ViewOK`). The
push is accepted over the commit that was read and no other, which carries these
facts from the view to the topic. `BaseIncreases` then follows from how Git
merges one line: the base changes only where the topic's last commit descends
from it, which is not above the topic's version.

### AcceptedRcProofs

| Theorem | Statement |
|---|---|
| `Invariant` | `Spec => []IInv` |
| `TypeCorrect` | `Spec => []TypeOK` |
| `LeavesInTime` | `Spec => []ReadyInTime` |
| `AcceptsWhatHolds` | `Spec => []AcceptsUnrevoked` |
| `AcceptsTheRunsBytes` | `Spec => []AcceptsGenuine` |

First, facts about the four lists of checks, which a change in the order of the
code's requests would break (`Ordered`): the manifest is read once, before
anything is compared with it; the first snapshot precedes it; whatever a job
relies on is checked again after the last byte. Then the invariant says what is
in hand after each of them. A manifest that passed the evidence is the run's own
(`InHand`), an inventory that passed has exactly its names (`Inventoried`), each
byte is of an asset of the snapshot (`AllRead`), and what was revoked after the
last byte does not hold now and was not checked since (`StillVoid`). The proof is
one for the four jobs: it uses `Ordered`, never the list of a job.

### BuildChecksProofs, BuildProofs

These are about `MCBuild`, so the theorems name the properties the run checks.

| Theorem | Statement |
|---|---|
| `Invariant` | `Spec => []BuildInv` |
| `TypeCorrect` | `Spec => []TypeOK` |
| `ReadsOneRevision` | `Spec => []OneRevision` |
| `PairsAreWhole` | `Spec => []WholePairs` |
| `JobsClobberNothing` | `Spec => NoClobber` |
| `SyncKeepsEdits` | `Spec => []EditsKept` |
| `RunsFailClean` | `Spec => []FailsClean` |
| `StagesWhatWasBuilt` | `Spec => []BuiltAsReceipted` |
| `AcceptsWhatIsCovered` | `Spec => []CoverageExact` |
| `WalkIsExact` | `Spec => []WalkExact` |

`BuildInv` is the invariant of whichever part runs. `PairInv`: between the status
that was taken of an open file and the comparison that settles it, every read saw
a revision from that status on (`ReadInOrder`), and a job's file is at an output
only as far as that job got (`Linking`). `SyncInv`: the file about to be replaced
is as it was read, or was edited after the last comparison (`Comparing`); a file
that the build has read is the evidence's, or has a revision newer than it
(`Evident`), because no edit restores an old one (`Dated`). `ReceiptsInv`: the
names covered so far are those of the positions read so far, each at one position
of one receipt, with the bytes of the file (`CoveredOK`). At the end, everything
is read; when a step refuses, the position it refuses for contradicts the
reference definition, so acceptance is exact in both directions
(`AcceptsWhatIsCovered`). `JobsClobberNothing` rests on `JobActs`: every step of a
job is recognised as that job's and no other's, so no step escapes the property.

`GraphInv` relates the walk's stack, which has descriptors, to routes, which the
walk does not know (`Walked`): there is a route for each entry of the stack, of the
entry's node and depth, none of them goes on from another, and a route goes on
from one of them exactly if it is not visited yet (`Ahead`); `visited` counts the
others, each within the depth, and `leaves` are their manifests (`Behind`). One
step takes the first route off: an index puts in its place the routes that are
one node longer, and every route going on from it is itself or goes on from one
of those (`RouteBranches`). When the stack is empty, all routes are visited, so
`validate_complete_graph` decides on the same manifests as `SingleImage`; when a
step refuses, the route in hand is the witness: too long, one too many, to an
unfit manifest, or the second to one. Routes are finitely many because nodes
ascend along them (`RoutesFinite`). Where a proof goes along a route, it takes the
least node with a property (`Least`), which needs no induction principle.

### AcceptanceProofs

About `MCAcceptedRc`'s parts beside the jobs.

| Theorem | Statement |
|---|---|
| `PartInvariant` | `PartSpec => []PartInv` |
| `PartsTypeCorrect` | `PartSpec => []PartTypeOK` |
| `ReadsAreWhole` | `PartSpec => []ReadsWhole` |
| `CampaignsAreSound` | `PartSpec => []CampaignSound` |
| `JobsHere` | `PartSpec => [](TypeOK /\ ReadyInTime /\ AcceptsUnrevoked /\ AcceptsGenuine)` |
| `WorkMovesOn` | `PartSpec => [][MovesOn]_partVars` |

`ReadsInv`: a request is only made while an attempt is left and nothing was
denied, and the capture is a prefix of the pages. `DownloadInv`: a reader that is
done has all that was written or exceeds the limit, and the main thread passes
the wait only when both are done. `CampaignInv`: a process runs only during its
step unless a kill was denied (`Alone`); each command before this step has passed
(`Progress`); a report that says passed was judged on all of them (`Reported`).
`JobsHere` carries the theorems of `AcceptedRcProofs` into the composition.

`WorkMovesOn` is the half of `Ends` that needs no fairness. Each part has a
lexicographic variant within its type's bounds: a job the clock, the phase, the
check and the assets read; a read the attempt, the label and the pages; a
download's main thread its label; a campaign the command and the label. Every
step of the part itself moves it on (`Onward`), and a step of the others moves it
on or leaves it where it was (`Rests`), so a part that keeps stepping ends.

### What TLC alone shows

Every safety property and every action property of the passing runs is a theorem.
These are not:

- Liveness: `Termination` of the device run and `Ends` of the jobs, reads,
  downloads and campaigns, which need fairness. For `Ends` the prover has that
  each step comes nearer to the end (`WorkMovesOn`); that a part which has not
  ended has a step to take (`ENABLED`), and that it takes it, is TLC's.
- The four findings: a theorem would have to assume them away, as
  `MeterIsRestored` does.

## Not modelled

Listed per component in `PROJECT.json`. In short: parsers and editors of file
formats, static validators, archive formats, test doubles, schemas, mock
publishers without input, and everything that is GitHub's, Docker's or an
engine's own behaviour. Of the components that are modelled, these parts are
not, and the properties say nothing of them:

- the ledger's 4 MB, at which `read_state` refuses every run; it is reached by a
  number of releases, not by an order of events;
- what follows a publication that fails after its tag, or whose PATCH takes
  effect while its response is lost: the tag stays, and the next run stops at
  `ensure_absent`; the models end there, as the code does;
- the second walk of the archives by the verification jobs (`verify_all`,
  `verify_pair`), which repeats `OciGraph` on files nobody writes any more;
- a staging directory that cannot be removed, child processes of `gh` that keep
  its pipes, and edits that restore an earlier content between two looks;
- the life of the containers in `run-integration.py`, which is planned below, and
  the classification of diffs in `change_scope.py`, a pure decision on a list.

## Plan

1. `ReleasePipeline`: the composition in which `ReleaseSpec`, which `Publication`
   implements, takes the place of `VersionLedger`'s `CreateTag` and `Release`, with
   `AcceptedRc` as `promote`'s check.
2. The integration environment: teardown and saved logs when a step fails.
