# A verification project for education-admin-rag

TLA+ modules, TLC configurations and TLAPS proofs for this repository: the parts in which the order
of steps matters (several processes on shared files and databases, requests on one event loop,
crashes between two writes) and the algorithms whose case analysis is delicate. Paths below are
relative to the repository (`src/corpus/build.py`, `apps/travel-map/...`).

To check: `tlc -config <X>.cfg <MC module>.tla` for a run, `tlapm <X>_proofs.tla` for the proofs, of which
there are eight modules. `PROJECT.json` lists the runs, the source lines of
every definition (`map`), the mutants that show each property can fail, the hazards of the code and
the theorems.

## 1. The system

The repository holds two products that share nothing at run time.

**A. The corpus pipeline** (`src/`) turns yearly PDF collections of administrative questions and
answers into a searchable, reviewed corpus:

    PDF --extract/OCR--> pages --parse--> candidates --stage--> review package
        --manual review (SQLite, several reviewers)--> exported decisions
        --finalize/build--> canonical bundle + issuance registry (SQLite)
        --index--> lexical index, dense index (Qdrant) --promote--> alias + current.json --> search

**B. The travel map** (`apps/travel-map`) is a FastAPI service over a snapshot of institutions.
`sync-institutions` builds a candidate snapshot, a steward reviews it,
`approve-institution-snapshot` promotes it, the service loads what `current.json` selects and
answers trip previews by asking route providers.

### Inventory

| Component | State | Operations | What is hard | What makes it correct |
|---|---|---|---|---|
| Issuance registry (`corpus/storage.py`) | `issuance_meta`, `issued_case_ids`, `issued_releases` | initialise, lease, project, bind, commit, read head | one lease for many builders; replay of the whole chain on each lease | the head is readable for ever; a case id is never reborn |
| Canonical build (`corpus/build.py`, `corpus/finalize.py`) | bundle directories | read snapshot, lease, write, rename, fsync, bind, commit, clean up | rename before commit; cleanup after the lease is closed; crash between the two | an issued release has its bundle, whole and durable |
| Manual review (`ingestion/review.py`) | rows, events, batch manifests in SQLite | enqueue, verify, approve (single, run, batch), reject, export | four ways to approve; resumption of a run; decisions after an export | independent reviewers; restricted data stays out; history replays |
| Review export (`corpus/staging.py`) | snapshot and attestation file | check, snapshot, write, attest | two exporters, stops, further decisions | the attestation pins one past of the store |
| Release promotion (`release.py`) | Qdrant alias, `current.json`, pending manifests | check, compare-and-swap, replace, roll back | no lock; two stores; a call that raises | alias and manifest agree whenever nobody promotes |
| Release jobs (`scripts/*.sh`, `cli.py`, `release.py`, `retrieval/`) | the directory of a release, a Qdrant collection | index, evaluate, verify, back up, restore, attest | operators that overlap or stop; files measured long before they are attested | what is attested is what was measured; evidence is written once |
| Snapshot sync and promotion (`institutions/sync.py`) | directories, journal, key, `current.json`, `.promotion.lock` | build, journal, review, promote in six phases | an unlocked builder beside a locked promoter; stops and power losses in every phase | what is selected is whole, reviewed, approved; a promotion can be resumed |
| Quarantine resolution (`review_broker.py`, `quarantine_review.py`) | hash-chained sidecar, lock file | append a decision | compare-and-replace by several reviewers; failure after the replace | one decision per occurrence, no event lost |
| Bounded file reads (thirty functions of ten modules) | none | open, look, read in pieces, look again | the file is written into, cut or replaced while it is read | what is accepted was there at one moment |
| Extraction (`ingestion/extract_native.py`, `extract_ocr.py`) | output directory | extract, filter margins, order lines, write, replace | margins counted over a whole document; two columns; records that derive everything again | one record per page, no text lost, nothing unapproved skips review |
| Review package (`corpus/staging.py`, `review_sampling.py`) | package directory | prepare, resolve, check, write, read; plan samples | four versions of one format; samples of sealed segments | what is written is read again; no case escapes review |
| Relations (`corpus/relations.py`), chunking (`corpus/chunking.py`) | none | extract citations, propose, approve, revalidate; cut | sealed values checked against cases that changed; windows at their limits | evidence binds one state of a case; chunks are its text |
| Search (`retrieval/lexical.py`, `dense.py`, `fusion.py`, `service.py`) | none | build records, search, fuse, load evidence | indexes older than the store; ranking over chunks, answers over cases | only what may be shown is shown, and a fresh index answers |
| Trip preview (`services/trip_preview.py`, `routing/`, `providers/`, `cache.py`, `rate_limit.py`) | TTL/LRU cache, price cache, semaphore, counters | preview, collect, cache, retry, time out | interleaving of requests at awaits; cancellation | providers are not flooded; every admitted request is answered |
| Route selection, policy (`routing/`, `policy/`) | none | rank, deduplicate, pair geometry, calculate | ties and near-duplicates; tiers and deductions | a choice does not depend on who collected first; no allowance above its ceiling |
| Parsers (`ingestion/parse_common.py`) | none | read pages line by line, open, close, accept or quarantine a case | one long loop with an open case, a hierarchy and pending lines; six editions | every case is whole, alone and in its part; what is unsure is quarantined |
| Quality, privacy, institution sources | none | score, mask, read public data sets | formats of data | - |
| CLI, containers, browser client | none of their own | wrap the above | sequencing | - |

The components meet in files and databases only: the export writes what finalization reads, the
build commits to the registry that the next finalization reads, promotion reads the evidence of a
built release, the map service loads what the snapshot promotion selected.

## 2. Modules

| Module | Models | Extends / uses |
|---|---|---|
| `IssuanceRecords` | records, heads, projections and the checks on them (operators only) | - |
| `IssuanceLedger` | the abstract promise of the registry: releases issued one at a time | `IssuanceRecords` |
| `CanonicalBuild` | builders, lease, bundle files, crashes; implements `IssuanceLedger` | `IssuanceRecords`, instance of `IssuanceLedger` |
| `CanonicalBuild_proofs` | the proofs | `CanonicalBuild`, `TLAPS` |
| `SnapshotLineage` | the abstract promise of the snapshots: what is placed, what is selected, what a power loss may take | - |
| `SnapshotPromotion` | sync processes, stewards, promoters, journal, power loss; implements `SnapshotLineage` | instance of `SnapshotLineage` |
| `ReleasePromotion` | promoters over alias and manifest | - |
| `ManualReview` | review store, export, loader, finalization's reader; implements `ReviewDecisions` | instance of `ReviewDecisions` |
| `QuarantineRecords` | decisions, chains of decisions and when they are valid (operators only) | - |
| `DecisionLog` | the abstract promise of the sidecar: a valid log that only grows | `QuarantineRecords` |
| `QuarantineResolution` | reviewers, brokers, flock, sidecar, crashes; implements `DecisionLog` | `QuarantineRecords`, instance of `DecisionLog` |
| `QuarantineResolution_proofs` | the proofs | `QuarantineResolution`, `TLAPS` |
| `ReviewDecisions` | the abstract promise of the review: signed decisions, and what finalization takes of them | - |
| `ReleaseJobs` | operators running the scripts of one release over its files and collection | - |
| `FileReads` | one reader of any of thirty kinds over a file that others change | - |
| `TripPreview` | requests, jobs, cache, semaphore, bounded client, fuel price | - |
| `RouteSelection`, `TravelPolicy`, `ProviderAnswers` | what is made of the routes, the allowance, one provider call (operators) | - |
| `HybridSearch`, `Chunking`, `Relations` | search, chunks, citations and relations (operators) | - |
| `ReviewSampling`, `ReviewPackage`, `Extraction`, `Parsing` | samples, package files, page records, cases of a document (operators) | `ReviewPackage` has an instance of `ReviewSampling` |
| `SnapshotPromotion_proofs`, `ReleasePromotion_proofs`, `ManualReview_proofs`, `ReleaseJobs_proofs`, `FileReads_proofs`, `TripPreview_proofs` | the proofs | the module of the same name, `TLAPS`, theorems of the library |
| `AlgorithmInput` | the input of one algorithm | - |
| `TripAllowance`, `SearchEvidence`, `ApprovedRelations`, `SampledReview` | what is promised of the allowance, a search, a relation, a sample | `AlgorithmInput`, instances of `TravelPolicy`, `HybridSearch`, `Relations`, `ReviewSampling` |
| `MCAlgorithms` | the operator modules, each over its own set of inputs | these four, an instance of each other |
| `MC...` | instances for TLC | the module of the same name |

### IssuanceRecords, IssuanceLedger, CanonicalBuild

A builder is one `build-canonical-corpus` process. `ReadSnapshot` is finalize's read of head and
records and its computation of the run deltas; `CheckTarget` the existence check;
`AcquireLease` is `BEGIN IMMEDIATE` (`lock` is its holder) with the comparison of the head with what
the builder expected; `WriteStorage` the projection and its validation; `Publish` the rename to
`releases/<id>/canonical`; `SyncParent` the fsync of the parent; `Bind` the receipt check; `Commit`
the per-record writes, the ledger row and the COMMIT. `BuildFails` is any exception that the build
catches: the `with` block closes the lease first, `EmptyTarget` and `RemoveTarget` are the two halves
of `rmtree` that follow. `RemovalFails` and `LeaveTarget` are its `ignore_errors`: the file system may refuse to
remove the entries, all of them or some, or the directory, and what resists stays without a report. `CommitError` is an `sqlite3.Error`, which `build.py:328` does not catch.
`Crash` kills a builder anywhere (SQLite rolls back), `PowerLoss` kills all of them and resets
`target` to what was durable, where an unsynced rename may or may not have reached the disk.
`disk` differs from `target` only between a change of the directory and its fsync.

Abstractions: a digest is the value it digests; a release's corpus is a function from case ids to a
content or none; temporary directories (unique `mkdtemp` names) are not state; a COMMIT is durable
(`synchronous=FULL`).

### SnapshotPromotion

`StartSync`..`SyncTransaction` are the steps of `build_candidate_snapshot`, which takes no lock:
existence check, `mkdir`, contents, creation of the journal's key (empty, then filled), the signed
journal entry and its fsync. `Review` records what a steward has seen (the digest they quote).
`Approve`, `Lock`, `Load` begin a promotion; `Rename`, `PrepareApproval`, `WriteApproval`, `Verify`,
`WritePointer` are its effects, `Advance...` the journal phases
BUILT, MOVED, APPROVAL_PREPARED, VERIFIED, POINTER_PREPARED, PUBLISHED; every effect is followed by its own
`Sync`, with the directory that the code syncs at this place. `Stop` ends one process, `PowerLoss` the
machine. `Load` includes the checks of a resumed promotion and `ResumeAt` the step it resumes with.
The read of the predecessor and the identity checks around it are one step, for they are under the lock.

`FaultSpec` chooses between stopping processes and power losses at the start (`fault`) and never combines
them: a promotion that died between a rename and its fsync resumes without the fsync, and a power loss
after that leaves a state no retry accepts.

### ReleasePromotion

The steps of `promote_release` in its order; each call of the alias backend may raise, because it failed, was
refused, or moved the alias and lost its answer; the write of the pending manifest, its unlink and the replacement may
fail. `doubtful` remembers the releases whose promotion returned `alias_update_failed` or `alias_rollback_failed`, the
two codes that do not say where the alias is. A swap that takes effect only after its call has returned is not modelled.
Nothing is locked. A promotion forward is admitted at any time; only one that goes back to an older release is
alone. That is weaker than the exclusive broker `docs/runbooks/index-release.md` asks for, and needed: an
alias that returns to the expected collection lets a stale promotion through (ABA).

### ManualReview

A transaction of `ReviewStore` is one action. `Can...` are the checks, `Verified`, `SearchApproved`...
the writes with the event each appends; `RunCriticalFields` composes two of them in one transaction, as
`run_mode` does. `ReplayAccepts` is the loader's own replay of the events. The export is five steps
(`TakeSnapshot`, `UseSnapshotFile`, `WriteSnapshotFile`, `CreateAttestation`, `WriteAttestation` with
O_EXCL between), any of which may be the last (`StopExport`).

Of the dates of events the model keeps whether they are in order within a case (`ordered`): the clock may step
back before any event but the first (`Late`, `Dated`), the store compares no dates, the loader does.
Left out: reasons, event ids, content hashes (a hash names its case), and the
flags that a CHECK of the schema ties to the status. The export always checks the same immutable
registry, documents and evidence, so these are not state.

### QuarantineResolution

A broker is one `review_broker.py` process on a socket of its own; it serves one connection at a time
(`Accept` .. `Answer`), and several brokers may be configured with the same sidecar, which is what the
lock file is for. `Lock` and `Release` are the two ends of `_exclusive_sidecar_lock`; `Decide` reads the
sidecar once and makes every check of `_dispatch_quarantine_resolution` on what it read, down to
`append_resolution_event`; `WriteTemporary` is `_atomic_replace_sidecar` up to its second comparison of the
head, `Replace` the `os.replace`, `SyncDirectory` the fsync, `ReadBack` the last comparison. Each of these may
fail; what happens after `Replace` fails with the decision in the file. `Answer` sends the reply, which may be lost.
`Crash` ends a broker (the kernel drops its flock and its connections), `PowerLoss` the machine: the
file is then any of the replacements since the last fsync.

Abstractions: a digest of the sidecar is the chain of decisions it holds, because everything else in the
file is fixed by the draft and the decisions; what a decision assigns to the spans of its occurrence
is part of its manifest; temporary files have random names and are not state. A reviewer has one request
at a time. That a failed fsync may make the next one report success wrongly is not modelled.

### ReleaseJobs

An operator runs one of five scripts (`build-indexes`, `evaluate-release`, `verify-release`, `backup-release`,
`restore-release`); a script is a sequence of commands, a command a sequence of reads and writes, and `Stop` may
end it after any of them (`set -e`, a signal, a crash). `disk` maps the paths of one release to their
contents, `made` holds the directories, `signed` the files with a signature, `points` the
Qdrant collection, in which a chunk has the vector of one encoder. Two operators share everything and have no lock, and
each may have a model lock of its own. `CleanUp` is the operator removing a candidate by hand, as the runbook asks;
`Promote` is the gate of `promote_release` over the two attestations. A digest is the content it was taken of;
a report is of a snapshot and green or red. `release_gate` shows what the composition of five scripts
hides: the two attestations never carry the same bundle digest.

### FileReads

Thirty functions read a file in pieces and look at it before and after. `Readers` has one record per function
with the choices in which they differ (what is compared, whether they try to read on, whether they walk the
directories again), and one state machine runs any of them over a file into which others write, which
they cut, replace or move with its directory. Assumed is that every write gets a time of its own. Readers that compare sizes
only (resources of the package, which nobody changes) are in the model and exempt from the property. Symbolic
links, devices and read errors are left out, because they only refuse.

### TripPreview

All requests ask for the same trip and meet in the cache. `req` is where a handler stands (`Arrive` with the rate
limiter, `Proceed` between its phases), `job` where each collection of routes stands: `Lookup` in the TTL and LRU
cache, `Acquire` of the semaphore, the upstream request with its attempts (`Another`, `Answered`, `Failed`), the
fuel price behind its lock, `Store`. `Timeout` cancels the wait of a display job but not the worker below it, which goes on and keeps
its permit until `WorkerEnds`. Every step ends at an `await`, for nothing else lets another coroutine run. The
routes themselves are in `RouteSelection`: what is cached here is only that something was collected.

### RouteSelection, TravelPolicy, ProviderAnswers

Operators over records: the matching of public routes with Kakao geometries, ranking, duplicates and the
combination of collections; the choice of a rule, the classification and the allowance; the bounded HTTP worker
with its attempts and the parsers of all clients. Coordinates are positions on a line, polygons are
the given coverage, and a body is the pieces that arrive.

### HybridSearch, Chunking, Relations

`HybridSearch` builds both indexes from a store, searches them in a given order of ranks, fuses (a rank
score is a number with a common denominator, so nothing is rounded) and reads the evidence back from another, later store, within its limits per case
(`MaxRelations`, `MaxSpans`, `MaxFlags`: 100, 256 and 256 in the code, 1, 2 and 1 in the run, so that inputs stand on both sides of each). `Chunking` groups
sources and cuts them into windows of tokens. `Relations` reads citations from printed parts and takes a relation through
proposal, approval and revalidation. In all three a digest is what it digests and the order of hash values is an order of values.

### ReviewSampling, ReviewPackage, Extraction

`ReviewSampling` has the segments, the plan of each, the reader of sealed bytes, and the ledger, which lives in memory only. Its
constants `Minimum` and `OneIn` (5 and 10 in the code) are 2 and 2 in the run. `ReviewPackage` prepares, resolves,
writes and reads a package in each of its four versions; two checks of the reader are left out, the sum of the page counts (`staging.py:1975`) and the limit of
16 MiB on what it reads (`staging.py:1836`), which the writer does not know. `Extraction` has the margin filter of native
pages, the card detector, the reading order, the record of each engine with its validator, and the replacement of
an output directory, of which any step may fail. Whether a scaled line still fits its page after rounding is an input.

### Parsing

`ParsePages` folds `PageStep` over the pages and `LineStep` over the lines of a page, as `_parse_pages` does: a state
holds the hierarchy, the mode, the open case, the lines of 2022 no case has claimed, and what came out. `LineRole`
is the table that gives a line its part, `Finalize` what accepts a case. Geometry is kept with its numbers, for all six
editions; which regular expression a text matches (`mark`), the scan for printed headings and the cards of a page are inputs.

### MCAlgorithms

One variable, one initial state per input and no steps: each invariant evaluates one algorithm on its inputs and
compares the result with a definition that is not the algorithm. Five of the invariants are theorems as well and therefore stand in
modules that a proof can extend, each over the variable `input` of `AlgorithmInput` and with its constants: `TripAllowance`,
`SearchEvidence`, `ApprovedRelations` (citations too) and `SampledReview`. The constants have the values of the cfg (`MCRules` are the rule sets of the
repository's rules, `MCScore` the digest a sample is drawn by), and `TripsAreInputs` and `SamplesAreInputs` let TLC check that the inputs are of
the kind the theorems are about.


## 3. Runs

Every cfg or MC module states its instance in a comment. Numbers are distinct states.

| Run | Instance and why it is enough | Shows |
|---|---|---|
| `build_race` | 2 builders, 2 releases, 2 cases, 1 content (340 982): every pair of builders on the same or different releases, all faults | `IssuedBundleDurable`, `CleanupTouchesOwnBundle`, `HeadReadable`, `ImplementsLedger` |
| `build_life` | 1 builder, 3 releases, 2 cases, 2 contents (89 835): three releases are the shortest life in which an id is dropped and tried again; no crashes, builds fail at any step and the removal of a bundle may be refused | `DeltasDescribeIssuance`, `IdentityIsPermanent`, `BundleIsResolved` |
| `build_atomic` | 1 builder, no crash | violated: `NoUnissuedBundleLeft` |
| `snapshot_faults` | 2 snapshots, 1 sync process, 2 promoters, 2 approval times, stops or power losses (378 792) | `CurrentIsServable`, `PromotionIsRecoverable`, `ImplementsLineage` |
| `release_race` | 2 promoters, 4 releases, also back, lost answers, failing writes (658 497): four are needed for an alias that returns | `QuietAgreement`, `ManifestFollowsExpected` |
| `release_jobs` | 2 operators with different model locks, 2 chunks of which 1 is sampled (2 319 064): the unsampled one is what a sample cannot see | `IndexIsWhole`, `AttestedIsMeasured`, `WrittenOnce` |
| `release_gate` | the same | violated: `AttestedReleasePasses` |
| `review_race` | 3 names of 2 accounts, an open and a restricted case, 2 manifests, 2 exporters (147 012) | `ExportIsLoadable`, `AttestationHolds`, `RunIsResumable`, `TerminalIsPublished`, `ImplementsReview` |
| `quarantine_race` | 2 brokers, 2 reviewers, 4 decisions, 2 of which reuse an event id and one of which is an upstream failure, all faults (375 520): two brokers are enough for every overlap of two locked sections | `SidecarIsValid`, `AcknowledgedIsKept`, `LockHolderWorks`, `ImplementsDecisionLog` |
| `file_reads` | every reader, a file of up to 3 blocks, 1 more than it accepts, up to 2 changes (453 359): one change to mix two versions, a second one to hide the first | `AcceptedWasThere` |
| `trip_preview` | 2 requests, public transit with 2 providers and cars with 1, 2 permits, 2 attempts, cache of 4, 1 request per window, 2 windows (402 592): 4 display jobs for 2 permits, so that every one may have to wait | `UpstreamIsBounded`, `AdmittedIsAnswered` |
| `algorithms` | 390 484 inputs of ten modules: small sets chosen around each limit (`MCAlgorithms` says which) | thirteen invariants, at least one per algorithm |

There are no state constraints: the sets of releases, snapshot ids, cases, decisions and changes bound the
behaviours, because each may be used once; only `build_life` adds a bound to its steps, `InOrder`. `CHECK_DEADLOCK FALSE`
is set where ids are used up, every case is decided or every request answered, so that the system really ends. Symmetry is used for
interchangeable model values in runs without liveness. `snapshot_faults` chooses between stops and
power losses because the code does not survive both (section 2, `SnapshotPromotion`). `TypeOK` is a theorem of each module of section 4 that has one, so that no run spends a check on it. Nor does one on
`LeaseIsCurrent`, `OneSuccessPerHead` and `RestrictedStaysOut`, which are theorems too and whose violation `ImplementsLedger`, `AcknowledgedIsKept` and `ImplementsReview` would
show: their mutants are those of these properties.

What the invariants of `algorithms` say:

- `ModesCombine`: a pairing of official routes with geometries is used only if it is the only one; modes collected one by
  one and combined are what one collection would have shown.
- `AllowanceIsOwed`: no allowance above the day's ceiling, none for an unknown distance or a trip that is not local, none higher because of an office car.
- `AttemptsAreClean`: what a failed attempt has read is not in the answer of the next.
- `SearchIsGrounded`, `FreshSearchAnswers`: whatever the indexes were built from, a search names only what the
  store lets it; indexes built from the store itself make a search fail just when it lists a case beyond the limits of relations,
  spans or flags, the context of an answer holds approved answers only, and fusion respects both rankings.
- `ChunksShowTheCase`: chunks are the case's text, no less, on the right pages, within their limits.
- `EvidenceBinds`, `RelationsBind`: a citation is accepted with the very state of the case it was taken from; an approved relation
  with the two cases it is about, in either order, and with no other state of them.
- `NobodyEscapes`: every case that is to be reviewed is placed, none that must not be shown is in a plan, and plans are read back as they were drawn.
- `SamplesSpeak`: a segment is approved only after enough of its members passed and none failed.
- `PackageIsRead`: the reader takes what the writer wrote, in each version, and nothing that was left unfinished.
- `ExtractionIsWhole`: one record per page that its writer accepts; what the margin filter leaves out stands on enough pages.
- `CasesAreWhole`: no line is in two cases; a case does not reach over an unreadable page, into another part, or
  beside the number of its successor; it names the part it stands in; an answer is read to its end (2021, 2022).

**What was found.** Two runs end in a counterexample, and each contradicts a sentence of the repository
(quoted in `PROJECT.json`): a COMMIT that SQLite refuses leaves an unissued bundle (`build_atomic`), and
`promote_release` refuses every release whose attestations the program made itself (`release_gate`).

Two exceptions that properties of passing runs state contradict the docs as well:

- `QuietAgreement` excepts a swap that took effect and whose answer is lost. It is reported as `alias_update_failed` and nothing looks at the alias
  again (`release.py:1706`), which then is at the new collection beside the old manifest; the foundation design, section 19, says of the swap that a failed one keeps the existing alias.
- `ExportIsLoadable` excepts cases whose dates go back. Where the clock has stepped back between two events of a case, the store takes the decision
  (`review.py:1485`) and the loader refuses the package (`storage.py:718`), for good, because events are only appended; the runbook `index-release.md` (line 98)
  has the checkpoint exported once every case is terminal.

While modelling, the following was noticed and is stated here because no document of the repository says otherwise:

- *Release.* `promote-release.sh` looks for
  `attestations/restore.json` where `restore-release.sh` does not put it. A red evaluation report, a stop between
  an attestation and its signature, or one between the lexical index and its evidence blocks the job until
  somebody removes the file. `export_dense_snapshot` unlinks an output that was there before (`dense.py:670`). `prepare_backup` does not look at the gates of a report.
- *Snapshots.* Two sync processes with one id can leave a stray candidate that makes a stopped promotion unrecoverable.
- *Build.* `rmtree(..., ignore_errors=True)` (`build.py:330`) tells nobody what it could not remove, and any remainder refuses every retry of the
  release (`build.py:252`). `BundleIsResolved` therefore excepts a removal that the file system refused.
- *Search.* One relation that is not approved fails every search that hits its case (`service.py:500`), and so does a case with more than
  100 relations, shown or not (`service.py:487`), or one whose found chunks hold more than 256 spans or flags. Nothing refuses
  such a case when the store is built.
- *Review.* A decision may still change after it was attested, as long as it is `search_approved`. Eligible cases of a year outside
  2020-2025 are in no class of review. Two documents that share a segment id make the sampling authority unloadable. A package
  interrupted while it is written leaves a directory that blocks the next one, and a document with nothing but confirmed
  non-cases cannot be staged (`staging.py:1058`).
- *Chunks.* A window that begins inside a word may exceed its tokens (`chunking.py:1519`); later windows of a long row of a table have no header.
- *Extraction.* Two extractions by OCR share an output directory, and the `.tmp` a dead one leaves blocks the next. A stop between the two renames of a
  replacement leaves the old output only under `.name.promotion-*`. A line at the right edge may round outside its
  page and take the page into quarantine.
- *Parsing.* `subtopic` is kept when the part changes. Lines without a role after an explicit answer of 2020 and 2023-2025,
  and lines before the first number except those of 2022 that no number follows, are dropped without a quarantine. A page that is not body closes and accepts an open
  case, which the plan (`foundation.md:779`) does not list.
- *Travel map.* A timeout of the walking provider is cached for seven days.

**Fairness.** Safety runs assume none. `build_life` assumes that a running builder keeps running (weak fairness of
its next step and of its cleanup; it does not crash, and a refused removal is a fault, never required): the code has no wait but the lease, which `busy_timeout` ends. `trip_preview` assumes that
of all that requests can do something is done: the event loop runs what is ready, and each upstream attempt ends because httpx limits every read and the
client limits the bytes. It does not assume that a particular waiter gets the semaphore or the lock: that each request is answered follows from there being
finitely many.


## 4. Proofs

Each module `X_proofs` extends `X`, which TLC checks as it stands, and has one inductive invariant `IInv`, proved by
an initial lemma, one lemma per action or group of actions, and `Inductive`; the listed theorems follow from
its theorem `Invariance` (`Invariant` for the sidecar). Every safety property and every action property of the runs is a
theorem for all values of the constants, except eight invariants of `algorithms` (at the end of this section). The assumptions are the `ASSUME`s of the modules, nothing else; TLC evaluates each of them in the
run of its module. Those named `NoneIsFresh`, `BuildersAreFresh`, `NoneIsNoBroker` and `FilesAssumption` say only that a
marker (`None`, `Partial`) is no value of the kind it stands in for; the others are named below.

### The canonical build

`CanonicalBuild_proofs` holds for any sets of builders, releases, cases and contents. Assumed are
`BuildersAreFresh` and `SomeRelease` in `CanonicalBuild` and the freshness of `None` in `IssuanceRecords`; all of them
are facts about model values that TLC evaluates in each run.

- `TypeCorrect`: `Spec => []TypeOK`.
- `Invariance`: `Spec => []IInv`. None of the safety properties is inductive alone.
  `IssuedBundleDurable` needs to know that cleanup removes only the builder's own bundle
  (`CleanupTouchesOwnBundle`), this needs that a builder that renames found no
  bundle and works alone (`LeaseIsCurrent`), and a commit keeps the head readable only if the projection it
  writes was computed from the records of the head it replaces (`LeaseIsCurrent` again,
  `RowsAreConsistent`). `WorksOnCases` says that a running builder has a non-empty corpus.
- From it `IssuedBundlesSurvive`, `CleanupIsLocal`, `LeaseExcludes`, `RegistryStaysReadable`.
- `Refinement`: `Spec => ImplementsLedger`. Only `Commit` changes the abstract state; it issues
  exactly the row `IssuanceLedger` prescribes because of `LeaseIsCurrent` and the lemma
  `CommitWritesProjection` (row-by-row writes give the projection of the receipt).
- `IdentityPreserved`: a retired id is never touched again, an active one keeps its first issuance.
- `DeltasDescribe`: `Spec => []DeltasDescribeIssuance`, by induction beside `IInv`: the lemma `RunDeltasDescribe` says that the deltas
  of a corpus are the difference between the records and their projection, `LeaseIsCurrent` that the
  deltas were computed from the records the commit replaces, and `HeadReadable` that these are the projection of the last row.

The steps that give up or clean up share the lemmas `GiveUp`, `TurnToCleanup` and `RemovalSteps`;
steps under the lease share `LeaseSteps`; `PublishStep`, `CommitStep` and `PowerLossStep` are the
interesting ones.

### The quarantine sidecar

`QuarantineResolution_proofs` holds for any sets of brokers, reviewers, occurrences and manifests. Assumed
are `ManifestsDecide`, `NoneIsNoBroker` and `NoneIsFresh`: a manifest decides an occurrence under an event id,
and `None` is nobody.

- `Invariant`: `Spec => []IInv`. `AcknowledgedIsKept` is not inductive: a reply is sent after the
  flock was released, so the invariant has to remember, for a broker that is about to report success, that what is
  durable extends the head it was asked for with its event (`WriteInv`). This holds because during the
  locked steps nobody else moves the file (`OthersStay`, from `LockInv`: the flock is held exactly in the locked
  steps), because the request does not change under a broker that works on it (`RequestStays`), and
  because what is durable only grows (`DurableGrows`, from `FileInv`).
- From it `TypeCorrect`, `LockIsWorking`, `SidecarStaysValid`, `AcknowledgedStays`, and `OneSucceeds` by
  `SamePlace`: two decisions on one head would be two events in one place of the durable chain.
- `Refinement`: `Spec => ImplementsDecisionLog`. Only the fsync and a power loss change the
  abstract log; a power loss leaves a chain between the durable and the visible one (`PowerLossKeeps`).

### The snapshot promotion

`SnapshotPromotion_proofs` is about `FaultSpec`, in which processes stop or the machine loses power, for any sets of
ids, contents, times, syncs and promoters. Assumed is `ProcessesDiffer`: a sync is no promoter.

`IInv` says what the files of one id may be together (`SoundInv`: an approval only beside a final directory whose journal entry names
it, a candidate that is what the journal says while nothing was moved), that the pointer selects an id that was journaled before
(`PointerInv`), where each sync and promoter stands in its files (`SyncInv`, `PromoterInv` with `PhaseAt`), and
that nobody else moves them (`BuildersDiffer`, `LockInv`). When the machine may die, `DiskInv` adds which file is durable at each
step, and `LossInv` that every mixture of visible and durable files a loss can leave is sound again. Without `LossInv` the other
parts are not inductive.

- `CurrentServes` and `Refinement` hold for any number of syncs.
- `Refinement` is `FaultSpec => ImplementsLineage`: what a reader sees of the files implements `SnapshotLineage`, in which a directory is placed
  as a steward has seen it and never replaced, a snapshot is selected after the one it was made for, and a power loss takes back one selection at
  most. The map is the identity on three variables, but the proof needs what the loss can take: by `BehindInv`, proved beside
  `IInv`, the disk lacks of the pointer at most its last move. It holds because a pointer is durable before the next one is
  written (`PointerDurable` in `DiskInv`). Only `Rename`, `WritePointer`, a review and a power loss are no stutter (`StepKinds`).
- `PromotionRecovers` is `OneSync /\ FaultSpec => []PromotionIsRecoverable`, and `OneSync` (no two syncs) is needed: with two syncs of one
  id TLC finds a counterexample. Both pass the existence check of `sync.py:996`; the first one's candidate is
  promoted; the second one's `mkdir` of the candidate then succeeds, and `Load` refuses an id that has both directories. The run has one sync.
  `AloneInv`, proved beside `IInv`, says that then no id has both.

### The release alias

`ReleasePromotion_proofs` holds for any promoters and any set of releases in `Nat` (`ReleasesAreOrdered`: ids are compared by their
order). `promote_release` has no lock, and that one promoter at a time gets past its swap follows from the
order: `OrderInv` says that a waiting promoter was checked against a release that is not newer than the current one, or is alone; so when it finds the alias
it expects, nobody else has swapped (`SwapIsExclusive`). `AgreeInv` covers an alias that was left
behind by a swap whose answer was lost or by a failed roll back: the promotion of that release has returned one of the two codes that do not say where the alias is
(`doubtful`), and nobody waits for it. `QuietPromotersAgree`, with this one exception, and `NoPromotionIsLost` follow. Without the
exception TLC finds a counterexample in `release_race`.

### The manual review

`ManualReview_proofs` holds for any cases, actors, manifests and exporters; `RestrictedAreCases` and `ManifestsNameCases` say that restricted
cases are cases and a manifest names at least one. `IInv` says which path a case has
walked: `enqueue`, `verify_fields`, `approve_search`, `approve_answer`, and off it by `reject`; its events are these steps, its
reviewers their actors (`StoreInv`), so that a replay of the events gives the row. The dates are no part of the path
(`LateKeeps`): `ReadyIsLoadable` says of an exportable store that the loader refuses exactly the cases whose dates go back. Of exports it says that what was taken is a past of the store, one that
the loader accepts (`ExportInv`, `AttestInv`), and that a partial file has one writer (`WriterInv`, from `O_EXCL`).
From it `ReadyIsLoadable`, `RestrictedIsNeverApproved`, `AttestationIsPast`, `RunsResume` and, as an action property,
`FinalIsFinal`.

`Refinement` is `Spec => ImplementsReview`: the store, its exporters and their two files implement `ReviewDecisions`, in which a case has a
state and the signers of it, a step is one person signing for any number of cases, and what is published are the decisions of all cases
as they stood at one moment, once. A row is mapped to its decision, every snapshot that an exporter holds is a draft, and what is published is what finalization
would take. Each store operation, run and batch signs by `StepDecides`, a run that verifies and approves in one transaction with
one signature. Of an export (`ExportDecides`), taking the snapshot drafts and writing the attestation publishes; that what is attested is
a draft is `AttestInv`, and that it is never replaced `FinalizeWhenWhole`. All other steps stutter.

### What is computed for one input

These theorems are of the form "for this input", and `input` is any value at all.

- `AllowanceAlways` (`TripPreview_proofs`): for any repository of rules that `validate_rule_set` accepts (`RulesAssumption`), any amounts and
  any distances. `RuleOfDay` says that a day for which there are rules has one rule set, `BaseIsBounded` that no tier exceeds the
  ceiling, `OfficeCarNeverRaises` that deductions only lower, down to zero.
- `SearchGrounded` (`ReleaseJobs_proofs`) has no hypothesis: whatever the store, the index and the query are, `SearchedIsAccepted` says that
  a search that succeeds has passed every hit through `_revalidate_parent`, and `HitIsGrounded` that the cases a hit names were
  filtered when its parent was loaded.
- `CitationsAlwaysBind` (`ManualReview_proofs`) has no hypothesis either, because what the regular expressions read of a text (`PrintedCitations`) is never looked
  into: `ReadIsAccepted` checks each condition of `revalidate_verified_law_ref` against what extraction put in, and `MixedIsNone` follows from the citation being
  read again from the quote.
- `RelationsAlwaysBind` (`ManualReview_proofs`), for cases whose ids are ordered (`IdsAreOrdered`, numbers in the model): `SameProposal` says that two
  proposals are one exactly if they are the same or the type is symmetric, `AcceptedWithItsCases` that an approval is accepted with its two cases only.
- `NobodyEverEscapes` (`ManualReview_proofs`), for candidates of the six years and the two sources (`Candidates`) and any size of sample and digest:
  `NoneForgotten` follows a case to its segment, the list of all fields or a blocker; `InventoryIsRead` says that an inventory that was built
  passes every check of the reader, because ids are unique and a case has one layout; `PlansRead` that a plan is accepted only
  as it was drawn. It needs that no two layouts have one id, which the reader demands and the builder does not check (section 3).

### The release jobs

`ReleaseJobs_proofs` holds for any number of operators, model locks and chunks (`SampleAssumption`: the sampled chunks
are chunks, and there are some). No script takes a lock; what excludes a second job is a file or a directory that only one
can create: the linked lexical index (`IndexInv`), the bundle (`BundleInv`), the restored directory (`RestoreInv`). `IInv` says for each that whoever is past it is
alone until it is removed, and what a job holds is still what the files say when it writes. That is why the sample suffices in
`BoundIndexIsWhole`: points of another encoder can only be of an earlier job, and the one that is past the link has sent
every chunk itself before it counts. `AttestationsAreMeasured` needs in addition that evidence binds an index that cannot change any more (`EvidenceInv`).
`AttestationsAreImmutable` needs only that every step that writes such a file is a `Put` or a removal.

### Bounded reads

`FileReads_proofs` holds for files of any length, any limit and any number of changes (`BoundsAssumption`: both bounds are numbers). `IInv`
is about the time of the last write, which each write makes later than it was: while it is the one the reader saw, the buffer is a beginning of
the file (`ReadInv`) and the end of reading is its end (`EndInv`), so that equal times at the end mean one version (`AcceptInv`). `NoTornRead`
follows for all readers that compare the time.

### The trip preview

`TripPreview_proofs` holds for any finite sets of requests and modes (`FinitenessAssumption`, which the cardinality needs), at least one permit,
attempt and cache entry (`ConcurrencyAssumption`), any chain of providers of each mode (`ModesAssumption`) and any times (`TimesAssumption`).
`JobInv` says that a display job has a permit exactly while its worker is at work, cancelled or not; `CountInv` bounds the permits that are out. A permit is
handed to the first in the queue, so `WaitInv` and `LineInv` say that a queue holds, once each, jobs
that wait in it, and `PhaseInv` that a request does not start a job twice. `BoundedUpstream` follows.

### What is not proved

Only model-checked:

- Liveness (`BundleIsResolved`, `AdmittedIsAnswered`): the prover has no rule for fairness.
- Eight of the thirteen invariants of `algorithms`: `ModesCombine`, `AttemptsAreClean`, `FreshSearchAnswers`, `ChunksShowTheCase`,
  `SamplesSpeak`, `PackageIsRead`, `ExtractionIsWhole`, `CasesAreWhole`. What they say is about folds, sorted or selected sequences and `RECURSIVE`
  operators, and what these compute for every input needs an induction over data that the prover does not offer.
- The two violated properties, which no theorem states.
- A fault of each kind in one behaviour of `SnapshotPromotion`, which the code does not survive (section 2).


## 5. Plan

What is left to prove, most important first:

1. `ProviderAnswers`: the bounds of an attempt.
2. `RouteSelection`: that `WithinTwoPercent` and the ranking of two routes are consistent orders for all numbers.
3. `ReleasePromotion` and `ReleaseJobs` composed: the release that is promoted is one whose attestations are measured.

Worth modelling next: the scan for printed headings (`_actual_ocr_hierarchy_scan`), a liveness run of
`QuarantineResolution`.

## 6. Not modelled

- *OCR authority, container tooling*: downloads and lock files pinned by digest, checked once when they are read.
- *Quality, privacy, source manifest, institution sources*: scoring, masking and reading of data; what matters of
  their results to other parts is an input there.
- *Identifiers and models*: schemas; ids are model values, and the validators that decide something are in the modules that use them.
- *Institution store*: loads the promoted snapshot once and never changes it (`Servable` in `SnapshotPromotion`).
- *Browser client*: presentation.
- *Regular expressions, PDF and image libraries, SQLite's and Qdrant's scores, encryption, signatures*: external, modelled by
  what the code asks of them.

`PROJECT.json` lists each component with its reason, and every partly modelled one with what is left out.
