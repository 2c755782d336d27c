# Verification of tw-market-live-data-intelligence

TLA+ models of the parts of this repository where order, concurrency and
failure decide whether it is correct: execution tickets from issuance to
consumption, the results that are derived from them, the watchlist store, the
Security Master releases, the running service, its installation, and backup,
restore and migration. TLC checks small instances; TLAPS proves most of the
safety properties for every value of the constants. All source paths below are
relative to the repository root.

## 1. Inventory

The program is a Local Service (FastAPI) and a set of CLI tools. A request for
market evidence is previewed and planned (Mode A, Mode B1: pure), approved into
an *execution ticket* (Mode B2: an authorization directory with its control
package), executed exactly once by a child process, and read back (Mode C).
Around it stand installation-local stores: watchlists (SQLite), Security Master
releases (a directory of immutable releases and an active pointer), the owner
record of the running service, the installation's identity, and backups.

| Component | State it keeps | Operations | Hard behaviour | What makes it correct | Module |
|---|---|---|---|---|---|
| Controlled execution: `scripts/m8r_06_03_execute_once.py`, `scripts/m8r_05b_03/*` | claim, journal, receipt, bundle of a ticket, their temporary files; the child's memory | load, revalidate, claim, dispatch, aggregate, finalize, recover | racing children, parent timeout, crash between two file operations, second finalizer, clock steps back | one invocation per operation; claim before dispatch; write-ahead order; one transaction; an attempt completes | `ControlledExecution` |
| Execution parent: `server/services/unified_mode_b2_execution.py` | none | start child, wait with a deadline, parse | timeout while the child works | a timeout never leads to a second dispatch; the event loop is given back | `ControlledExecution`, `TicketService` |
| Ticket issuance: `server/services/unified_mode_b2.py`, `unified_local_operator_action.py`, `scripts/m8r_05b_02/*` | control package files, last issuance time | authorize, issue local ticket, write package | exists-check before write, one-second clock, crash inside a package, several services | a manifest stands for a whole package; a ticket is used once | `TicketService` |
| Resource admission: `server/resource_boundaries.py`, `server/unified_bounded_io.py` | count of active requests | enter, leave, disk check | every path out of a request | the count is right; light reads are answered | `TicketService` |
| Evidence reading: `server/services/unified_mode_c.py`, `scripts/m8r_05c/containment.py` | outputs of a package | build, verify, show | concurrent builders, disk error between two renames, release change | what was answered stays on disk and is answered again | `ResultPackages` |
| Persistent watchlists: `scripts/m8r_09_persistent_watchlists.py` | SQLite: watchlists, entries, revisions, previews | preview, commit, list, revisions, verify | a preview reads in several statements, none in one transaction, commit much later, other commits between, expiry | no lost update, one default, unbroken revision chain, a preview applied once | `PersistentWatchlists` |
| Security Master releases: `scripts/m8r_08g_security_master_releases.py`, `scripts/manage_security_master.py` | candidates, releases, marks, bundles, `active.json` | build, qualify, reject, retain, activate, roll back, retire, open | crash between files, commands of one second, readers beside writers | the active release loads; a published one never changes | `SecurityMasterReleases` |
| Lifecycle: `scripts/tw_market_lifecycle.py` | owner record per port, service processes | start, serve, stop | two starters, stale record, start timeout, kills | a reported service stays stoppable; commands end | `ServiceLifecycle` |
| Installation: `scripts/tw_market_installation.py` | home: lock, layout, settings, identity | initialize, resolve | killed initializers, a lock removed too early, a check long before the replace | one identity, published last, never replaced while its lock is respected | `InstallationInit` |
| Backup, restore, migration: `server/services/unified_{backup,restore,migration}.py` | packages, staging directories, published roots | plan, create, inspect, restore, migrate, roll back | live writers, a package that changes while read, kills, one destination for two | a backup is a consistent cut; a root is the image of a backup | `StateRecovery` |
| Watchlist evidence composer, planning and preview (`unified_mode_a.py`, `unified_mode_b1.py`) | none | pure functions | none | determinism | not modelled |
| Routes, MCP servers, source adapters, frontend, packaging, research | no authoritative state | network, presentation, build | network failure | — | not modelled |

Interaction: the Local Service admits a request through the gate, issues a
ticket and starts the child; parent and child share only the ticket's directory
and the process exit. Mode C reads that directory and adds outputs to it. The
composer reads a watchlist revision and puts its provenance into the control
package. Watchlist previews and Mode C depend on the active Security Master
release. Backup reads all stores; restore and migration write fresh roots.
`PROJECT.json` lists the hazards, each at its line with the properties that
would catch it.

## 2. Plan

Done, in this order: `SingleUseTicket` and `ControlledExecution`;
`WatchlistHistory` and `PersistentWatchlists`; `ServiceLifecycle`;
`ReleaseRegister` and `SecurityMasterReleases`; `TicketService` (issuance,
admission and the parent, which meet in one event loop); `StateRecovery`;
`ResultPackages`; `InstallationInit`; the safety proofs of all of them, with
the three refinements, and for the lifecycle the order of commands that keeps
its records.

Left, by weight:

1. `ControlledExecution` under power loss: unsynchronised renames.
2. The content of watchlist entries, as far as identities depend on a release.

## 3. The modules and the code

A module named after a component models it; `MC...` gives it instances,
`...Proofs` its theorems. `SingleUseTicket`, `WatchlistHistory` and
`ReleaseRegister` are abstract specifications.

### ControlledExecution

One authorization directory and the processes that meet in it. A process is an
execute-once child (`Executors`), a caller that repeats the finalization
(`Repeaters`) or a recovery (`Recoverers`).

| State | Code |
|---|---|
| `disk[k]`, `staged[k]` | the published and the temporary file of kind claim, journal, receipt, bundle; temporary names contain the journal's owner, so whoever adopts the owner shares them |
| `invoked`, `results`, `extra` | calls of an operation's adapter, the outcomes `dispatch_prepared` collected, a second outcome for one operation |
| `stamp` | the `now` a child samples once and uses as evaluation timestamp and `claim_created_at` |
| `content`, `owner`, `journal`, `seen` | `receipt`/`bundle`, `current_owner_id`, `journal["state"]`, `current_disk_claim` in `_execute_finalization_transaction` |
| `file`, `fd` | the file being written or promoted, and where the inode that is open for writing currently lies (a rename carries it along) |

| Action | Code |
|---|---|
| `Load`, `Evaluate` | `load_control_package`; the expiry check of `claim_and_dispatch_approved` |
| `OpenClaim`, `WriteClaim`, `ConfirmClaim` | `atomic_create_text_exclusive`: create, write and flush (everybody can read the record from here on), fsync and check |
| `FailExclusive`, `Unlink` | an error in any of these, and the clean-up that removes what was created, though others may have read it |
| `DispatchBatch`, `Conclude` | one batch of `dispatch_prepared`; `aggregate_dispatch_outcomes` and the call of the finalization |
| `Repeat`, `Recover` | the entry points `finalize_consumption_and_write_receipt`, `recover_controlled_finalization` |
| `Acquire`, `WriteJournal`, `ConfirmJournal` | creating, in the same three moments, or adopting the journal |
| `Open`, `Fill`, `Promote` | truncate, write and rename one file, in the order receipt, bundle, journal, claim, journal |
| `CasGuard`, `Verify` | the guard before the terminal claim; `_verify_durable_cross_links` |
| `Crash` | the parent's deadline (`execute_mode_b2_once`), a kill, an I/O error, at any place |

A receipt and a bundle are represented by what their hashes are derived from:
the overall status and `finalized_at`. `SingleUseTicket` is the abstract
specification: one holder, each operation used at most once, one outcome. The
mapping reads the holder off the published claim; a torn claim holds nothing,
and neither does one that its child has not confirmed yet and may take back.

### TicketService

Market actions of services that share a control root. An invocation goes
through the gate (`Arrive`), reads its body (`BodyRead`, `BodyFails`), then
holds its service's event loop until it has its answer: issuance of a ticket
(`IssueAuthorization`, or `SampleTime` and `StampTime` for a local action), the
control package file by file (`CheckPackage`, `StageFile`, `ReplaceFile`: the
check, the temporary file and the rename of `atomic_write_bytes`), the child
(`LaunchChild`, `ClaimTicket`, `ChildEnds`, `Deadline`), and `Leave`. A light
read passes the gate by and waits for the loop. `Restart` forgets what a service
had in memory, `SetClock` moves the wall clock both ways. All invocations carry
the same request, so a ticket is identified by its kind and its issuance time,
which is the case those times exist for; requests that differ never share a
ticket. The child is `ControlledExecution` seen from outside: whole package and
exclusive claim.

### ResultPackages

The outputs of one finalized package. A builder is one run of
`build_mode_c_result_package`: `Look` (`_persisted_output_version`),
`RebuildF3` / `WriteF3` (`_f3`), `Project`, `ReadOutputs`
(`_read_verified_outputs`), and `materialize_outputs` as `CheckCollision`, then
`CheckAbsent` and `Rename` for each of three outputs. `IoError` and `Kill` may
come between any two of them. The content of an output is its version and
projector, since everything else is rebuilt from verified predecessors.
`matches` says whether the active Security Master release reproduces the
validation the plan is bound to; `Activate` changes it.

### PersistentWatchlists

| State | Code |
|---|---|
| `watchlists`, `revisions`, `previews` | the SQLite tables; `entries` belongs to the snapshot of its watchlist |
| `draft[c]` | a preview under construction: between the connection that read the watchlist, the SELECT that finds the previous default, and the one that reads its row |
| `release`, `clock` | the active Security Master release, `now()` |

`PreviewCreate` and `PreviewUpdate` are the first half of `preview` (one
disjunct for every effect a command can have on a snapshot), `ReadDefault` finds
the watchlist to demote, `StorePreview` reads its row and inserts the preview (the
connection commits each statement by itself, so other commits may come between
any two), `Commit` is the whole of `commit`: it is one `BEGIN IMMEDIATE`
transaction, so a kill inside it leaves nothing behind and needs no action.
Name and entries are one value, `body`; a rollback copies a whole old snapshot
with its default flag, as the code does. A content hash is represented by the
content it covers, so a chain of hashes is a chain of snapshots.
`WatchlistHistory` is the abstract specification: commands executed at once on
histories that only grow. It allows for one effect that no command asks for, a
revision that changes nothing of a watchlist that has just lost the default,
because two SELECTs do not see one state.

### SecurityMasterReleases

A caller is a process that runs `update` or `migrate-legacy` (`Build`,
`QualifySteps`, `RetainSteps`, `Activate`), `rollback` (`Activate`), a
retirement (`Retire`) or a service that opens the active release (`OpenRelease`,
`LoadRelease`, `BindActive`). Every file is one atomic replace and one step:
`WriteRelease` writes index, qualification, manifest and, last, `release.json`,
which is what makes a directory a release. `bound` is the content that the
manifest binds by hash, `retained` the source bundles, named by a time in whole
seconds, so that two sources may want one name. `Kill` ends a caller anywhere.
`ReleaseRegister` is the abstract specification: releases are published once,
with qualified content, and one published release is active.

### ServiceLifecycle

| State | Code |
|---|---|
| `owner` | `service-<port>.json`: created and still empty, a reservation, or the record of a service |
| `child[c]` | the process `start` invocation `c` launched: launched, bound to the port, gone |
| `pc[c]`, `seen[c]`, `target[c]`, `result[c]` | progress of a command, the record it read and has not judged yet, the service `stop` signals, the status it printed |

The actions follow `_start` and `_stop` call by call: `ReadForStart`,
`JudgeForStart` (is the creator or the service of the record alive?),
`UnlinkStale`, `CheckPort`, `CreateReservation` / `WriteReservation` /
`ConfirmReservation` (the three moments of `atomic_create_text_exclusive`),
`Spawn`, `RecordService`, the loop `PollChild` / `Healthy` / `NotYetHealthy`,
`GiveUp` with `TerminateChild` and the two unlinks of `_cleanup_start_timeout`;
`ReadForStop`, `JudgeForStop`, `Signal`; `DiscardAgain` is the last
`_safe_unlink` of either. `LaunchFails`, `IdentityUnavailable` and `RecordFails`
are the error exits. `Bind`, `Exit` and `Crash` are the world.

### InstallationInit

`initialize_installation` for homes that may name one state root: `TakeLock` and
`Unlock` (`_home_init_lock`), `Resolve`, `InspectState`, `MakeLayout`,
`CheckSettings`, then for the settings and, last, for the identity `_atomic_json`
call by call, and `Report`. A file is published by `LockFile` or `LockedOut`
(its own init lock), `CheckFile` (does it exist?), `StageFile`
(`atomic_write_bytes` looks again and writes a temporary file), `ReplaceFile`
(`os.replace`, which does not look) and `ReleaseFile`. `file` is the file an
initializer is about. `Kill` leaves locks behind, `Repair` is an operator who
removes one, at a good moment or not, and `Use` is an installation in use.
`undercut` remembers the homes in which the lock of a file was removed while a
writer was behind it.

### StateRecovery

Operations on the live members, on packages and on roots. A backup signs and
plans each member (`SignMember`, `PlanMember`), finds its destination free
(`CheckFree`), makes its staging directory (`MakeStaging`), takes each member
between two comparisons with its signature (`CompareSignature`, `TakeMember`)
and publishes by a rename (`PublishBackup`). A restore, a migration and a
rollback read their package many times, and every read is a step: the manifest,
whose hash is noted (`Inspect`), and each member (`CheckMember`); for a rollback
the migration it takes back (`CheckMigration`); the destination
(`ResolveTarget`); an inventory of the files (`TakeInventory`, `ListMember`);
the manifest again, which the copy goes by (`LoadManifest`); each member
(`CopyMember`). What they staged is verified by reading the package once more
(`InspectAgain`, `RecheckMember`, `VerifyRoot`, `RereadMember`), the inventory
is taken again (`CompareInventory`, `RelistMember`), and a rename publishes
(`PublishRoot`). The three differ in the order of these reads. `image` is the
manifest whose hash the receipt binds, `rows` the one the copy goes by, `before`
the first inventory. Left out are checks repeated between these steps that note
nothing: they can only refuse more. `WriteLive` is a writer beside them,
`Accident` a package that rots, vanishes or is replaced, between any two of
these reads. A file's signature is a stamp that every write changes; a database
is read through SQLite and signed only once.

## 4. The runs

| Run | Instance | Shows |
|---|---|---|
| `solo` | two children, a recovery that starts when no other finalizer lives, three operations in two batches, three clock readings, two crashes | `TypeOK`, `AtMostOneInvocation`, `DispatchUnderClaim`, `CommitOrder`, `HonestOutcome`, `TerminalClaimIsFinal`, `JournalOnlyAdvances`, `ReportedSuccessIsDurable`, `OnlyCrashesInterrupt`, and the refinement of `SingleUseTicket` (`ImplementsTicket`) |
| `contended` | a child, a repeated caller and a recovery, all at once, one crash | what survives overlapping finalizers while no readable journal is taken back under them (`OrderlySpec`): `OneTransaction`, `UsedClaimIsKept` |
| `second_caller` | a child and a repeated caller, no crash | finding 1 |
| `recovery` | a child, a recovery, started or not and as often as one likes, two crashes | `AttemptCompletes` |
| `tickets_actions` | any two of four kinds of invocation on two services, or two local actions after a third was served; each service killed once; a clock that is set back | `GateCountsActions`, `LocalActionsDistinct`, `ManifestMeansWhole`, `TicketsAreSingleUse`, `ReadsAreAnswered` |
| `results_builders` | three builders, two output versions, two projectors, two activations, any kills and disk errors | `AnswerIsOnDisk`, `AnswersLast`, `BegunIsPursued`, `RacesComplete` |
| `watchlist_store` | two clients, three watchlists, four previews, four versions, two releases, expiry | `IntegrityHolds`, `AuditTrail`, `AnnouncedSwitchCommits`, `NoLostUpdate`, and the refinement of `WatchlistHistory` (`Serializable`) |
| `releases_register` | two callers, two release ids, four contents: two sources of one second, a legacy import, one that fails qualification | `ActiveReleaseLoads`, `ServiceIsNeverRefused`, and the refinement of `ReleaseRegister` (`ImplementsRegister`) |
| `lifecycle_ordered` | two starts and two stops, one kill, one failure | `TypeOK`, `StartedStaysStoppable`, `LiveRecordKept`, `CommandsEnd` |
| `lifecycle_starts` | two starts and a stop, nothing fails | finding 2 |
| `installation_home` | three initializers of one home with two state roots, two locks removed | `IdentityComesLast`, `IdentityIsAgreed`, `NothingIsReplaced` |
| `recovery_operations` | two operations of any kind, two members (one a database), two places; two writes per member, or two operations and one accident, or one operation and three accidents | `BackupIsConsistentCut`, `RootMatchesBackup`, `PublishedStays` |

Several properties are theorems and not in a run of their own, because the
theorem is stronger and a run has to be short: `OneInitializer`,
`StagingIsExclusive`, `OnlyQualifiedIsPublished`, `PublishedIsImmutable` and the
type invariants of the modules whose runs do not name them.

**Initial states and order.** Two runs do not start at the beginning of
everything, because what matters comes late, and two restrict the order of steps:

- `tickets_actions` (`FewInit`): which two invocations come is chosen at the
  start, the others are `done`; or a local action was already served at second
  1, with the package and the claim that leaves, and two more come while the
  clock stands at 0. That is a legal state after `SetClock`, and the shortest
  way to three stamps on one service.
- `recovery_operations` (`MCInit`): either nothing was backed up, writers are at
  work and no accident happens; or two backups exist (and a migration of one, or
  none), no more is written, and packages suffer accidents: one beside two
  operations, three beside one. Writers never touch packages and accidents
  never touch live members, so the two halves meet only through backups that are
  made while an old package is damaged, which the theorem `RecoverySafety`
  covers.
- `lifecycle_ordered` (`FairOrderedSpec`) starts at the beginning but restricts
  the order (`Ordered`). `Given` is about the operator: stops come at any moment
  of the first start; from the second start on commands are given one at a time.
  Without it the properties fail, as `lifecycle_starts` shows. `Prompt` is about
  timing: no start records its service between a stop's read of the reservation
  and its judgement of the creator, two calls apart in the code. Without it they
  fail too (section 6).
- `contended` (`OrderlySpec`) starts at the beginning; `Orderly` is empty where
  recovery waits for other finalizers (`SoloRecovery`) and otherwise says that a
  journal that others can read is not removed again by a failing fsync. Without
  it `OneTransaction` fails (section 6). `UsedClaimIsKept` does not need it.

**Bounds.** Two children suffice for a race on an exclusive creation: a third
meets the same file. Three operations in two batches give a partial success
inside a batch, a batch that aborts and a batch never reached. Three clock
readings around `ExpiresAt` give before, at the boundary and a step back. Two
crashes allow one of the child and one of its recovery, after which the third
attempt runs undisturbed. `contended` has a single operation because the
finalization sees only the overall status. Three watchlists are a watchlist, the
one it demotes, and a third that takes the default in between; four previews are
two that race, one that interferes and one that follows. Two release ids are the
active one and the next; the four contents are the cases that the code tells
apart. Three builders are two that race and one that comes when they have left
something behind. Three initializers are the owner of a lock, one that enters
after its removal, and one that enters when the first removes the lock of the
second. Two starts are one that dies or is stopped and one that inherits its
leftovers. Two members are one already copied and one not yet; two operations
are two that want one destination, or a rollback beside a migration; three
accidents are what it takes to pass a package off as another, as section 5 says,
so the run reaches the limit of `RootMatchesBackup`. Two removed locks are that
of a home and that of a file in it. Every bound is a CONSTANT named as such;
`Room` and `MaxVersion` only cut histories short and are not part of the code.

**Deadlock** is checked in `releases_register`, where a caller can always begin
something. Everywhere else the modelled program ends: a spent ticket, an
answered request and a command that printed its status really stop.

**Symmetry** is declared for the watchlists, the releases, the initializers and
the recovery operations, over values that nothing in the module tells apart;
none of these runs checks liveness. In `releases_register` only the two contents
of one second are interchangeable.

**Fairness.** `recovery`: a live finalizer keeps running (weak fairness of its
own steps; it waits for nobody). Nothing obliges anybody to start a child, to
repeat a call or to recover, and nothing in the code does: what is claimed is
that an attempt, once begun, completes. `tickets_actions`: a service that runs
goes on with a request it has admitted, a client completes its body or gives up,
and the deadline passes; the child may hang for ever. `results_builders`: a
request that is being handled goes on; nothing obliges a request to come.
`lifecycle_ordered`: a command that was given keeps running, and its deadline of
15 seconds passes (strong fairness of `GiveUp`: the loop leaves and reenters the
place where the deadline is tested). No fairness is assumed of services,
crashes, clocks or operators.

## 5. What is proved

Every theorem is for all values of the constants, from the named ASSUMEs of its
module, which TLC evaluates in the runs. They say that the constants are of
their kinds, that sets of processes or routes are disjoint, and that None is no
value of a variable. `IsFiniteSet` is assumed of the sets whose members are
counted (the invocations of `TicketService`, the clients of the watchlists). Of
the batches of a ticket it is assumed that they hold every approved operation
once, and that there is an operation: an empty dispatch is refused
(`scripts/m8r_05b_03/evidence_aggregation.py:17`).

| Module | Theorems |
|---|---|
| `ControlledExecutionProofs` | `TypeCorrect`, `SingleInvocation` (`AtMostOneInvocation`), `ClaimedBeforeDispatch` (`DispatchUnderClaim`), of `OrderlySpec` `FinalizersAgree` (`OneTransaction`) and `OutcomeIsHonest` (`HonestOutcome`); of `Spec` `ClaimIsKept` (`UsedClaimIsKept`), `FinalizationIsFinite`; with one finalizer at a time `WriteAheadOrder` (`CommitOrder`), `SuccessIsDurable` (`ReportedSuccessIsDurable`), `TerminalClaimStays` (`TerminalClaimIsFinal`), `JournalMovesForward` (`JournalOnlyAdvances`), `NothingRefusesRecovery` (`OnlyCrashesInterrupt`), `DirectoryImplementsTicket` (`ImplementsTicket`) |
| `TicketServiceProofs` | `TicketSafety` (`TypeOK`, `GateCountsActions`, `LocalActionsDistinct`, `ManifestMeansWhole`, `TicketsAreSingleUse`), `LoopIsNeverLost`, `HandlingIsFinite` |
| `ResultPackagesProofs` | `AnswersAreKept` (`TypeOK`, `AnswerIsOnDisk`, `AnswersLast`), if one output version is asked for; `SetsArePursued` (`BegunIsPursued`) for any |
| `PersistentWatchlistsProofs` | `StoreSafety` (`TypeOK`, `IntegrityHolds`, `AuditTrail`, `AnnouncedSwitchCommits`), `NothingIsLost` (`NoLostUpdate`), `StoreImplementsHistory` (`Serializable`) |
| `SecurityMasterReleasesProofs` | `ReleaseSafety` (`TypeOK`, `ActiveReleaseLoads`, `OnlyQualifiedIsPublished`, `ServiceIsNeverRefused`), `PublishedNeverChanges` (`PublishedIsImmutable`), `ReleasesImplementRegister` (`ImplementsRegister`) |
| `ServiceLifecycleProofs` | `TypeCorrect`; for commands in order `OrderedStaysStoppable` (`StartedStaysStoppable`), `OrderedKeepsLiveRecords` (`LiveRecordKept`) |
| `InstallationInitProofs` | `InstallationInvariant` (`TypeOK`, `IdentityComesLast`, `IdentityIsAgreed`, `OneInitializer`), `InstallationIsKept` (`NothingIsReplaced`) |
| `StateRecoveryProofs` | `RecoverySafety` (`TypeOK`, `BackupIsConsistentCut`, `RootMatchesBackup`, `StagingIsExclusive`), `PublicationIsFinal` (`PublishedStays`) |

Each proof module states the inductive invariant at its top, proves it of the
initial states (`InvInit`, `TypeInit`) and of every action, and ends with the
theorems. The arguments:

*ControlledExecution*, with overlapping finalizers too. A finalizer writes
`content[p]` into files and looks up the claim state of its status, so `TypeInv`
adds that it is a receipt from the moment the finalization is entered. Single
use needs to know why a second child cannot dispatch. `SingleUse` is the
conjunction of: `OneClaimant` (of the children that created a claim or dispatch
there is one, and the claim file exists), `ClaimHeld` (the file is still the one
it wrote), `Unexpired`, `FinalizedLater` (as long as the claim is being taken or
operations are dispatched nobody finalizes, since a finalizer needs a journal),
`Unused` (an operation in a batch still to come was not invoked) and
`AtMostOneInvocation` itself. `FinalizedLater` makes the proof independent of
how finalizers overlap: until dispatch has ended there are none, afterwards
nothing invokes and `OpenClaim` finds the file.

Why do overlapping finalizers never mix two receipts, though they share
temporary files and follow each other's renamed inodes? `Agreement` says that
there are one receipt x and one holder h such that every file of the
transaction, published or temporary, is torn or names x (`FilesFit`), whoever is
past the journal writes x (`WritersAgree`), and only h has claimed, with its
dispatch complete before anyone finalizes (`Holds`). x is settled by the journal
(`JournalFirst`): it is created exclusively, and until it is written its creator
is alone past `acquire` and no file names a receipt, so x may still become what
the creator writes; afterwards only the holders of the same receipt get past.
A journal that is taken back would unsettle x while others write it: in the
setting of one finalizer at a time nobody else is there, in the other one
`Orderly` rules it out, and it has to. `OneTransaction` fails otherwise, in 22
states: an unsynchronised recovery adopts a journal after its flush, the creator's
fsync fails and the journal is removed, and the next caller, at another time,
begins a second transaction beside it.
`Truthful` ties x to the answers of h: whoever may still create the journal
carries the aggregate of the finished dispatch. `Accounted` counts the batches
behind a child.

`Solo`, the setting of the run `solo`, is a recovery that waits until no other
finalizer lives, and no further caller. There nobody holds another's inode
(`OneFinalizer`), each label of the single finalizer fixes which files it has
behind it (`InOrder`), and what is published keeps the write-ahead order
(`WriteAhead`). A promotion is then the only step that replaces a published
claim or journal (`PromoteInTurn`, `OthersLeaveFiles`). The refinement follows:
`ConfirmClaim` takes the ticket, an invocation uses the operations of its batch
(`Unused`), the promotion of the claim consumes it with the aggregate of the
holder's answers (`ReceiptIsHonest`), and every other step stutters. `Fresh`
(a child has no answers before it has a claim) makes the taken ticket an unused
one. A provisional record may disappear again: a claim before it holds the
ticket, and a journal before anything is staged or published under it, which is
what `JournalOnlyAdvances` says of it.

Why does a recovery get through, whatever the attempts before it left behind?
`Ready`: while anybody finalizes, the claim can be read, and whoever is still at
`acquire` finds no journal, or one that is not complete and has its own owner,
because a recovery copies the owner out of the journal. With the write-ahead
order no later check refuses either, so only a crash ends an attempt (or a
journal of another receipt, which no recovery brings). `Remaining` counts the
steps an attempt has left, at most twenty-one, and each of its steps reduces it,
whoever overlaps. Together they are what `AttemptCompletes` needs besides
fairness.

*TicketService*. The gate counts right because each invocation that holds a slot
is `Placed` in a life of its service that has not ended (`life = stops`), so a
restart removes exactly the invocations it resets. Local actions differ because
all tickets of a life are at or before `last` (`Stamped`) and the next is after
it. A manifest means a whole package because a writer has the files before
`next` behind it (`Written`) and nobody removes one. The event loop is held by
exactly the action that is handled (`LoopIsNeverLost`), whichever way it ends,
and that action has finitely many steps left, to which nobody adds
(`HandlingIsFinite`, two per artifact); what waits for the loop can therefore
only wait for a handler that does not take its next step.

*ResultPackages*. All files on disk are of one version and one projector
(`Settled`): that of an earlier code, if it had made outputs, else the version
asked for and this code's projector. Then whatever a builder renames over is the
same content, and a request that begins after an answer finds a whole set and
the validation, and needs no release. One version asked for is what the routes
do: none of them passes a version (`server/unified_workbench_router.py:212`).
That a race is not lost by everybody (`SetsArePursued`) holds for any versions:
outputs are promoted in one order and none is ever removed, so a set has a first
missing output (`InOrder`); a builder that finds its next output present has
lost it to one that is further on, and the one furthest on has its next output
still free.

*PersistentWatchlists*. A preview quotes a snapshot its watchlist has had
(`Sound`); if the versions still hold at the commit, the chain (`Chain`) makes
it the present one, and that is why nothing is lost. A preview that demotes
names the version it read of the other watchlist; if that was the default then
and the version holds, it still is, and there is no other (`OneDefault`).
`AnnouncedSwitchCommits` is stated for such previews only. The watchlist is
found by one SELECT and read by another: when the default moves in between, the
preview demotes a watchlist that no longer is the default. Its commit is then
refused by the index, or, when no default is left, adds a revision to that
watchlist that changes nothing; TLC finds either in 11 states when the property
leaves the condition out or the history the effect. For the refinement a second
invariant, `Commanded`, says of every preview, kept or under construction, that
what it wants to write is one command of `WatchlistHistory` executed on the
snapshot it read. A commit whose version holds finds that snapshot as the last
of the history (`CommitIsCommand`), demotes the present default and at most adds
that empty revision (`CommitIsWrite`), and is therefore one step of the abstract
history; a step that only builds, stores or expires a preview, or a refused
commit, leaves the history alone (`RevisionsStay`).

*SecurityMasterReleases*. `candidates/<id>` is made exclusively, so one caller
builds a release (`OneBuilder`) and what it reads again is what it qualified
(`Built`); `release.json` comes last, so a sealed release is `Whole`; what a
caller has loaded stands because sealed releases and bundles never change
(`Stands`). The same invariant gives the refinement: the step that writes
`release.json` is a publication, the pointer's replace an activation, all other
steps stutter.

*ServiceLifecycle*. Types need an argument of their own: at most one service has
the port because a start binds it only when nobody has. The rest is about
`OrderedSpec`, whose `Ordered` is the assumption on the order of commands: a
stop may come at any moment of the first start, later commands come one at a
time, and no service is recorded while a stop has read a record and not judged
it. `lifecycle_starts` shows that the first is needed, since overlapping starts
destroy each other's records; section 6 says why the second is. Why may a
command then unlink or overwrite the file? Whoever is about to do so has no live
record of somebody else before it (`Yields`). What it judges is what the file
still holds, if there is a file (`Reading`), and afterwards no live record can
appear: while a stop judges no start reserves or records, and once it has judged
no start is on its way to (`Settled`), and from the second start on one command
works at a time (`Distinct`). A start that waits for its service has it
recorded, or the service is dead (`Recorded`); a stop aims at the service that
the file names (`Aimed`), so it never signals one and unlinks another; a record
is that of a start that was given (`Authored`), and only a command that has
ended has reported anything (`Unreported`).

*InstallationInit*. Who is past the layout has both directories, and who goes
for the identity has the settings (`Prepared`); `IdentityComesLast` follows,
whatever locks are removed. That nothing is replaced does not follow from the
existence checks, which come before the temporary file is written, while
`os.replace` overwrites whatever is there. It follows from the lock of the file:
a writer it was not taken from has it, so nobody else writes there (`OneWriter`)
and what it found absent is still absent (`FileLockHeld`). The lock of the home
may be removed as early as one likes for that. When the lock of the file is
removed under its holder as well, the properties claim nothing of that home
(`undercut`), and rightly: one initializer is past the checks, a second one
publishes its identity and reports it ready, the first replaces it. TLC needs 30
states to violate `IdentityIsAgreed` without that condition, and 28 for
`NothingIsReplaced`. `OneInitializer` needs that no lock at all is removed
(`LockHeld`).

*StateRecovery*. `BackupIsConsistentCut` is the hard one: members are planned
and copied at different times. The invariant `Cut` says that there was an
instant at which all members copied so far, and all that still have their
planned signature, had their planned values. At the end of the planning that
instant is the present one or one before the first write to a planned member;
each write afterwards takes a member out of the second group, and a member
enters the first only while it is in the second. `RootMatchesBackup` has to do
with a package that changes between the reads of it. What is staged is one
manifest, which a later read found in the package again; staging directories are
exclusive, so nobody else's members come in; and every manifest in a package was
made by a backup. That is the first half: a root is the image of one backup,
however many accidents there are. The receipt binds the manifest of the first
verification. The second verification must find that one again; the manifest the
copy goes by and the last one that is read are compared with each other only. To
make the two pairs differ, a package must be exchanged after the first
verification, put back before the second and exchanged again before the manifest
is read for the last time. With at most two accidents, the second half, they are
the same; `Touched` counts, for every stage of an operation, the accidents it
takes to be where it is, and `Noted` carries what was read to the rename. With
three TLC finds the difference in 24 states.

**Only model-checked** are the four liveness properties under fairness
(`AttemptCompletes`, `CommandsEnd`, `ReadsAreAnswered`, `RacesComplete`): the
proof system handles neither fairness nor ENABLED. Of three of them the safety
half is proved: `NothingRefusesRecovery` and `FinalizationIsFinite` for
`AttemptCompletes`, `SetsArePursued` for `RacesComplete`, `LoopIsNeverLost` and
`HandlingIsFinite` for `ReadsAreAnswered`. What TLC adds is that fair processes
do take the steps that are left.

## 6. Findings

With a run:

1. *Two finalizers at once* (`second_caller`, `SingleMutationOwner`). A second
   caller with the same receipt adopts the owner of a journal that left
   `preparing` (`receipt.py:371-372`) and promotes files beside the first,
   whereas `tests/unit/test_m8r_05b_03_receipt.py:475-479` promises exactly one
   transaction owner. `contended` shows what the overlap cannot break: files
   that parse belong to one transaction and a used claim is never given back; that
   the outcome stays truthful is theorem `OutcomeIsHonest`. It can tear a published
   file while it lasts.
2. *A live reservation can be removed* (`lifecycle_starts`, `LiveRecordKept`).
   `_start` judges the ownership file and unlinks it in two steps, and a
   reservation that is created but not yet written reads as stale. A second
   start may therefore unlink the reservation of a live creator, and both launch
   a service; the one that cannot bind then unlinks the other's record. The
   status document says that a live creator returns `START_IN_PROGRESS` and that
   only a proven stale record is removed.

Read off the models and the code, without a run of their own; no checked
property claims the contrary:

3. The watchlist limit is enforced when a creation is previewed
   (`m8r_09_persistent_watchlists.py:528-529`) and not when it is committed, so
   previews taken below the limit of 32
   (`docs/reviews/M8R_09_PERSISTENT_WATCHLIST_STORAGE_AND_VERSIONING_PREFLIGHT.md:329`)
   exceed it together.
4. `activate_qualified_release` checks the retired mark and replaces the pointer
   in separate steps (`m8r_08g_security_master_releases.py:444-459`), and so does
   a retirement with the pointer (489-507): a retired release may become or stay
   active. It still loads (`ActiveReleaseLoads`).
5. `_next_local_action_issuance_time` promises "a distinct existing B2 ticket
   for every invocation" (`unified_mode_b2.py:66-68`) and keeps its memory in one
   process. Two services of one state root, or a service that was restarted
   within a second, issue one ticket twice. The second writer usually meets the
   first one's package and reports a conflict; what holds always is
   `TicketsAreSingleUse`.
6. `materialize_outputs` says "On any failure, remove staged files without
   promoting" (`m8r_05c/containment.py:10, 112`). A failure after the first
   rename (192) leaves the outputs promoted so far, and every later request
   fails with `mode_c_existing_output_inconsistent`. None of them is ever
   answered (`AnswerIsOnDisk`).
7. "Fresh layout creation is not authority to adopt an existing business store"
   (`tw_market_installation.py:340-341`) is checked before the layout is made,
   under the lock of the home. Two homes that name one state root may both be
   initialized, and the second then shares the store of the first.

Not a disagreement with any document, but visible in the models, and the reason
why some properties carry a condition:

- *A readable record can be removed.* `atomic_create_text_exclusive` removes the
  file it created when the fsync or the check after it fails
  (`m8r_filesystem_safety.py:478-501`), and everybody could read it since the
  flush. A claim is unused at that moment (`UsedClaimIsKept`). A journal may have
  been adopted by an unsynchronised recovery, which then goes on without it while
  the next caller begins a second transaction (`Orderly`).
- *A stop judges later than it reads* (`tw_market_lifecycle.py:579, 583, 585`). A
  start that records its service, reports `STARTED` and exits in between leaves
  the stop with a dead creator, and the stop unlinks the record of the running
  service (`Prompt`).
- *A preview reads the previous default twice*
  (`m8r_09_persistent_watchlists.py:590-593, 595-600`), without a transaction. A
  commit in between makes the switch fail with `WATCHLIST_DEFAULT_CONFLICT`
  although its versions hold, or adds a revision that changes nothing.
- *A package is read many times* (`unified_restore.py:496-497, 569-571, 591`), and
  the manifest that is copied is never compared with the hash the receipt binds.
  Three exchanges of the package at the right moments give a root whose receipt
  names another backup.
- *`os.replace` does not look* (`m8r_filesystem_safety.py:360, 389`;
  `tw_market_installation.py:200`). With the lock of the home and that of the
  metadata file both removed under their holders, an identity that was reported
  ready can be replaced.

Moreover, a `start` that
is killed between launching its service and recording it (or that cannot write
the record, `tw_market_lifecycle.py:487-489`) leaves a service that no command
can stop, because only its reservation existed; `StartedStaysStoppable` is
stated for services that were reported as started. A killed backup, restore or
migration leaves its staging directory, which refuses the same id for ever. A
torn journal is never repaired, so its ticket stays without an outcome.

## 7. Not modelled

- Power loss: a rename is not followed by fsync, so after a power failure a
  promoted file may be empty. The crashes here are crashes of processes.
- Tampering with files on disk, and every hash comparison whose only purpose is
  to detect it, except where a package is read several times (`StateRecovery`).
- `ControlledExecution`: dry-run mode (writes nothing), adapters and transports
  (an invocation and its outcome are inputs), the derived artifacts of H4.
- `TicketService`: the content of plans, previews and bindings; requests that
  differ; the other routes behind the gate, which hold a slot in the same way.
- `ResultPackages`: the projection itself, the replay inspector and the
  retention inventory, which only read; audit and handoff run a builder.
- `PersistentWatchlists`: what is inside the entries, disk admission,
  several processes creating the database at the same time, and the refusal of
  a tampered preview row.
- `SecurityMasterReleases`: downloads, the content of records, schemas, and the
  commands that only read.
- `ServiceLifecycle`: reuse of a process id between the check of the
  identity and the signal, a foreign program on the port, a process that
  survives SIGKILL, `init`, `status` and `doctor` (they write no ownership).
- `InstallationInit`: the choice of home and roots from arguments and
  environment, and the read-only commands.
- `StateRecovery`: the selection of members, versions and contracts, path
  checks, and verification as a command of its own. Migrations are modelled as
  the registry with a transformer runs them (`unified_migration.py:43-70`); the
  shipped registry has none and refuses every migration.
- The components without state of their own: watchlist composer, planning and
  previews, routes, MCP servers. Source adapters are network I/O and parsing of
  external data; the frontend, packaging, research and governance tools are
  presentation and one-off programs. Together these are nearly all of the
  repository's lines, and they are sequential: unit tests reach them, and a
  state machine of them would only repeat their code. The modules above map a
  small part of the lines for that reason.
