# Verification of moodboard

TLA+ models of the parts of moodboard whose correctness is hard to see in a
test, TLC configurations that check them on small instances, and TLAPS proofs of
the properties that matter most. Every definition is translated from the source
it names in `PROJECT.json` ("map"); source comments and `INTERFACES.md` are used
only to know what is promised.

## The system

moodboard ranks candidate images against a reference board, and has a second
half that buys generated images from a paid provider and keeps evidence about
each purchase.

| Component | Source | State it keeps | Operations | What must hold |
|---|---|---|---|---|
| Attempt state reduction | `attempt_state.py` | none; folds an event history | `reduce_attempt_events` | one total verdict per history, the ADR-0014 graph, at most five events |
| Attempt journal | `attempt_journal.py` | SQLite file: runs, attempts, events, dispatch claims, responses, successes | register, append, claim, publish response, publish success, reads, `verify_integrity` | append-only, compare-and-append, one send authorization per attempt, never self-corrupt |
| OpenRouter dispatch | `openrouter.py` | locals of one call | `dispatch_openrouter_attempt`: credential, claim, POST, record or publish, recover | one POST, under one's own claim; a boundary is recorded; reports are true |
| Provider artifacts and media admission | `provider_artifacts.py`, `provider_media.py` | none | bundle validation, success candidates | independent trace tables agree; only ordered, bound evidence succeeds |
| Confirmation ledger | `studio_confirmation_ledger.py` | SQLite file: authorities, revocations, grants, consumptions | record authority, revoke, confirm, inspect, consume | one permit per challenge, inside its window, under the current authority |
| End-to-end runner and finalizer | `eval/openrouter_real_e2e*.py` | private files beside the two databases | prepare, execute, finalize | a confirmation pays for one POST; a paid answer can be finalized; published evidence is never overwritten |
| Locality and compositor | `locality*.py`, `compositor.py`, part of `judgment.py` | none | preflight, compile, mask, structural and locality verdicts, insert, compose, replay | an image is accepted as declared; outside the region the source survives; one key, one output |
| Scoring, abstention, report | `conformal.py`, `abstain.py`, `report.py`, part of `cli.py` | a report document | p-values, categories, duplicate groups, refusals, ranks, ties | valid p-values, the requested level is honoured, order does not matter, the report agrees with itself |
| Board artifact | `board.py` | a frozen file | build, write, read | its identity binds everything scores depend on |
| Khive client, encoders, commands | `khive.py`, `encoders.py`, part of `cli.py`, `preference.py` | one subprocess per batch; output files | model, ingest, create; build and rank | rows belong to what was submitted; nothing is written of other bytes than were hashed |
| Preference replay | `preference_demo.py` | events, models and probes of one call | present, judge, train, probe, publish | labels follow the displayed side; a document explains its models |
| Intent packets, contracts | `intent_packet.py`, `contracts.py` | none | canonical bytes, content addresses | identity |
| Retrieval and viewer projections | `pixel_rag.py`, `*_viewer.py`, `viewer.py` | none | gate, project | the order is preserved |
| Browser viewer | `viewer/src` | reducer state | load, decode, filter | a late load never replaces a newer one |

How they interact. The runner consumes a confirmation in the **ledger**, then
creates its marker file, freezes the plan, registers a run and an attempt in the
**journal**, appends `prepared`, and calls **dispatch**. Dispatch claims the
attempt in the journal, sends once and records what happened. The runner or a
later finalizer publishes the **success** in the journal, through media
admission, and materializes the output and `result.json`. Processes share
nothing but the two database files and the runner's private files; SQLite's
`BEGIN IMMEDIATE` makes every write operation one atomic step, and everything a
caller read before that step may be stale when it runs. The ranking half shares
image files, a board file, a report and the **Khive** store, over which it has
no lock at all. Locality verifies what a response contains; the compositor
replays those verdicts before it composes.

The hard behaviours, with lines, are the "hazards" of `PROJECT.json`: stale
compare-and-append tokens, lost COMMIT acknowledgements, replays of an identical
claim, crashes between two durable steps, clocks that step back, rotation or
revocation between inspection and consumption, files edited between two reads,
rows that come back crossed, ties, and artifacts of two edits mixed together.

## Modules

| Module | What it models |
|---|---|
| `AttemptState` | Event records, the transition table, `Reduce` (the pass of the code) and `LegalHistory`/`HeadOf` (the same contract over positions), `BundleTrace` (the table kept independently in `provider_artifacts.py`) |
| `AttemptLifecycle` | Abstract: a phase per attempt and a count of send permissions |
| `AttemptJournal` | One variable per table, one action per write operation, one predicate per verification; refines `AttemptLifecycle` |
| `OpenRouterDispatch` | Any number of `dispatch_openrouter_attempt` calls over the journal; a step ends wherever another process can interleave |
| `ConfirmationLedger` | One variable per table of the ledger, one action per write operation |
| `LedgerBootstrap` | Creation, adoption and clean-up of the ledger's database file by several processes |
| `PaidChallenge` | Abstract: a confirmed challenge is spent once and pays for at most one POST |
| `RealE2E` | prepare, execute and finalize over `ConfirmationLedger`, the challenge directory and the attempt's state; a step per durable write; refines `PaidChallenge` |
| `ArtifactPublication` | From a response in the journal to `provider-output-0.*` and `result.json`, by the executor and by finalizers |
| `Locality` | Container preflight of PNG and JPEG, orientation, colour, compilation, masks, the structural and locality verdicts |
| `Compositor` | The confirmed insert, the canonical PNG, composition from separately supplied artifacts, replay keys; over `Locality` |
| `PValues` | Nearest neighbours, nonconformity and the p-value, without recursion so that it can be proved about |
| `Conformal` | Linkage categories, duplicate groups, effective size, intervals; over `PValues` |
| `Abstention` | The refusals and their precedence, over `Conformal` |
| `Ranking` | What `rank` computes and the cross-field rules of the report writer, over `Abstention` |
| `BrandBoard` | Building, writing and reading a board with its three versions and identities |
| `Khive` | A batch: ops file, one kernel process, rows that are untrusted when they come back; the store is external |
| `KhiveCommands` | `build` and `rank` with its preference export, over `Khive` |
| `PreferenceReplay` | `replay_preference_demo`, over `Khive`, with somebody else in its scope |
| `AttemptJournalProofs`, `OpenRouterDispatchProofs` | Theorems about the journal, and about dispatch over it |
| `LedgerBootstrapProofs`, `RealE2EProofs` | Theorems about the ledger's file; about the ledger's rows and the paid run over them |
| `ArtifactPublicationProofs` | Theorems about publication |
| `KhiveProofs` | Theorems about the two users of Khive |
| `AlgorithmProofs` | Theorems about the pure parts: p-values, the reducer, the encoder's byte count, media scans, orientation, resampling, composition |
| `RankingProofs` | Theorems about grouping, the abstention level, the report and the board's identity |
| `MC...` | Instances and bounded inputs for TLC; `MCAlgorithms`, `MCAttemptState`, `MCConformal` and `MCCompositor` also hold the reference definitions the pure parts are compared with |

Conventions. An artifact is content addressed in the code, so a record is its
own identifier. An operation whose verdict is "replayed" or an exception changes
no row and is a stutter, except where a caller's next step depends on the verdict
(dispatch), where it is modelled. Timestamps are small naturals from `Times`,
supplied by callers and ordered only where the code compares them. `NoRow` is an
absent row. Definitions headed "Faulty variant" are the mutants of
`PROJECT.json`; no specification uses them. Three instances hold two systems that
share nothing (`MCLedgers`, `MCKhive`) or several pure algorithms
(`MCAlgorithms`): the variable `mode`, or the tag of `input`, says which one a
behaviour is about, and the other's variables stand still.

`AttemptJournal`: `Verifies(a)` is what every operation runs first
(`_load_bound_attempt`, `_reduce_stored`, the claim, response and success
verifications); where it fails the code raises `JournalCorruptionError`.
`AppendEvent`, `ClaimDispatch`, `PublishResponse` and `PublishSuccess` have the
guard in the order-free form `...Creates` and the exact-replay verdict as
`...Replays`. A caller may present any token the attempt ever had (`Tokens`), and
`publish_provider_success` any snapshot it ever had (`Prefixes`).

`OpenRouterDispatch`: `pc` is the program point of a call; its final values are
what the caller observes. `AppendAs`, `Claim` and `PublishAs` have the four
outcomes of a journal call: done and acknowledged; done and the acknowledgement
lost; refused or replayed; failed without effect. `Others` is everybody else who
writes the journal.

`LedgerBootstrap`: `pc` is the program point of one `_begin` and the transaction
after it. A file keeps the main part (`main`) apart from what a reader sees with
the write-ahead log (`current`), because the clean-up of a failed bootstrap
removes the log first and adoption must not look at the main part alone. SQLite
itself is external: a commit is atomic, a checkpoint may happen at any time. A
probe that cannot read the file because it is busy is not modelled: it denies
the call and changes nothing.

`RealE2E`: `pc` is the program point of one `execute_openrouter_real_e2e` call,
between two durable writes or two readings of the clock. `Stop` is an exception
or a kill, anywhere; it undoes nothing and nothing resumes the call. A file is
created exclusively and then written, so a kill can leave it `Torn`. What a
dispatch does inside is `OpenRouterDispatch`; here it is its claim, its POST and
what it records; a call whose claim was not acknowledged sends nothing and writes
a partial result all the same, which `CountsAreTrue` covers. The finalizer is one
step, because what several of them do to the files is `ArtifactPublication`.

`ArtifactPublication`: the journal is reduced to the state of the attempt (its
own module has the rest). A file is the pair of who staged it and for which
name; `staged` holds the files whose staging link still exists, so the link
count is derived. Every system call another process can observe is a step:
sampling the link count, enumerating, removing, reading, staging, linking,
unlinking. Foreign files may be there from the start. A finalizer that finds no
file samples its clock, and may end with `clock_invalid` whatever the journal
says (`InspectResult`). `OthersClose` and
`ReadsFail` switch two parts of the environment off, so that each finding has
one cause.

`Locality`: an encoded image is the list of its chunks or markers, with the
facts a decoder would find (`image`): what the preflight reads, it reads from
the list; what Pillow reports, from the facts. The bounds on the bytes of a profile or
an EXIF block are the value `large` of the part that exceeds them: for the numbered
segments of a JPEG profile, of the one that brings what is kept past the bound
(`Overflows`). Pixels are small integers over
pictures of a few pixels. `Compositor` keeps every identity as the record it
hashes. `Conformal` works on integer distances: every comparison of the code is
between sums of distances, so scaling and shifting change nothing; p-values are
counts and levels are fractions compared by cross-multiplication.

`Khive`: `Submit` and `Collected` are the two halves of `KhiveClient._execute`.
Between them the kernel performs the rows one by one and goes on when the client
has died. `Rows` is what may come back: rows of this batch, in any order and some
twice, because the client checks their number, tool and success and leaves the
rest to each verb's parser, which is modelled where the answer is used.
`Arranged` is Python's `sorted` with a key, stated by the place each element ends
at instead of by a sorting pass; deduplication (`Unique`) and the selection of
pairs (`Take`) are instances of it. The kernel is outside the repository: boards,
serves and judgments are the store as the client's verbs show it. An occurrence
of the replay is one side of a serve, so `batch_serve`'s check that occurrences
are distinct is its check that serves are (`ShownAsSubmitted`).

## Runs

| Run | Instance | Shows |
|---|---|---|
| `algorithms` | every history of 2 attempts and 2 handles that legally extends by one arbitrary event; bags and references of 4 items with distances 1..3; 3 references and 2 candidates; boards of 3 references; PNG lists of up to 3 chunks between header and end, JPEG lists of up to 2 markers and 1 after the scan start, on pictures of 2 by 1; edits of a 3 by 2 source with up to one artifact exchanged; PNG sizes up to 4 by 4 with blocks of 1..14 bytes | the pure parts meet their reference definitions |
| `journal` | 2 attempts for 1 run, 2 times, 2 payloads (1 admissible), 2 intents, 2 capabilities (1 without safe retransmission), 2 claim ids | soundness of the journal, authorization, one send per run, append-only, refinement |
| `dispatch` | 2 concurrent calls on 1 attempt, 2 faults, crashes, a clock that may step back | safety of dispatch |
| `dispatch_settles` | 2 calls, 1 fault, no crash, monotone clock, weak fairness of each call | what was sent leaves `submitted` |
| `dispatch_clock` | 1 call, no fault, a clock that steps back | finding: see below |
| `ledgers` | to create: 3 bootstrapping calls, 2 others, 4 files, 2 failures, kills, checkpoints; to use: 2 sessions, 2 epochs, 2 owners, 3 times, one challenge confirmed in two contexts | no acknowledged row is lost, nothing needs deleting by hand; the ledger's promises |
| `bootstrap_umask` | 2 bootstrapping calls, 1 other | finding |
| `publication` | the executor, 2 finalizers, 1 failure, kills, another journal writer, any foreign files | nothing is overwritten, the index is complete, success is published, errors have their cause |
| `published_head` | the executor, 1 finalizer | finding |
| `e2e` | 2 calls, 1 session with 2 epochs, 3 times, one challenge in two contexts, kills at every step, a finalizer | one confirmation pays for one POST, a paid answer can be finalized, counts are true, refinement of `PaidChallenge` |
| `structural_failure` | the media of `algorithms` | finding |
| `khive` | one command over 1 to 4 files with 3 contents, at most 3 in a request, 2 models, groups of 2; the replay over a pool of 9 pairs and one of 4, and 2 foreign judgments | what is written is of the bytes read; labels and documents are true |

Why the bounds are enough. Attempts share nothing in the journal but the run's
ordinal and the namespace of claim identifiers: two attempts compete for one
run, and two claimants with two identifiers for the one that gets it. Two times
give "before" and "after"; the reducer ignores times altogether. Two calls make
every race of dispatch: a third can only meet a claim that is already there. Two
faults allow the failure of an operation and of its recovery, and of a bootstrap
and its successor. A ledger file goes only after a failure, so two failures
leave room in `MaxFiles`: no run creates the last file it may. `ReconcileAttempts`
is 16 in the code and 2 in the runs: what holds with fewer samples holds with
more, and a file never has more than one staging link. In `e2e` a challenge is
spent once, so two calls make every race for it. Four items with three distances
give every pattern of ties among the six pairs, and merges of merges; the preflight
remembers one bit per kind of part, so a pair of parts after the header, and every
list of three consistent declarations, meets each of its memories. The pool of
nine pairs fills each of the six parts of the selection with `Minimum` = 1 and
leaves reserved pairs over; the pool of four is one short. Three files under
groups of two make a process boundary, and a fourth is refused. `MaxSide`,
`MaxPixels`, `MaxParts`, `RequestMaxImages` and `RequestMaxBytes` are the code's
limits made small enough to be reached. No state constraint is
used. Deadlock checking is off because each of these systems may stop: an
attempt in a terminal state, a call that has returned and an input that has been
computed have nothing left to do.

Fairness. `dispatch_settles` assumes weak fairness of each call and nothing of
anybody else: a call is straight-line code whose waits are bounded (the busy
timeout of SQLite and the timeout of the transport). Crashes are excluded there,
because after a crash between claim and record the attempt stays `submitted` by
design; they are included in `dispatch` and in `e2e`.

### Findings

`dispatch_clock`: `INTERFACES.md:683` says an exception after authorization
without a complete HTTP response becomes `outcome_unknown`. The code samples
`recorded_at` first (`openrouter.py:1882`), and a callable that answers a time
behind the submitted head raises `dispatch_timestamp_invalid` with nothing
recorded. The attempt stays `submitted`. No second POST can follow
(`AtMostOnePost` holds with that clock), so this is a divergence in what is
recorded, not in what is sent.

`bootstrap_umask`: `INTERFACES.md:757` says an interrupted bootstrap never needs
out-of-band deletion. An operation that opens without the init lock examines the
file by name, a failing bootstrap discards it, and `sqlite3.connect`
(`studio_confirmation_ledger.py:767`) creates it anew with the permissions the
umask leaves; every later open refuses a mode other than 0600. With a umask of
077 the property holds (`ledgers`).

`published_head`: `INTERFACES.md:793` says the finalizer fails for any head but
`response_received` and `succeeded`. For rejected media it reads the states of
its document (`openrouter_real_e2e.py:2548`) after the verdict, so when the
attempt is closed in between, the last check compares `failed` with `failed` and
the result is published.

`structural_failure`: ADR-0016 and `INTERFACES.md:791` say a structural failure
is recorded. A JPEG with an ICC segment after its scan started is refused before
it is decoded (`locality.py:584`), and the judgment vocabulary admits that
reason only for a decoded container (`judgment.py:426`), so the verdict cannot
be sealed: `verify_output_structure` raises `contract_mismatch`, and a finalizer
of such a response fails every time. It is the only kind of medium of the run
for which it happens.

Smaller divergences that the models show and no run is spent on: a remnant of
the ledger is probed twice, so a bootstrap in between makes the first verdict,
corruption, stand for a sound ledger (`Verify`, `Probe`); a
`finalization_not_ready` found while replaying a result, and an I/O error on
reading back an exact file, are reported as conflicts
(`openrouter_real_e2e.py:3332`, `:1366`), against `INTERFACES.md:801`, which is
why `ErrorsAreReal` excuses a conflict on a closed attempt; and the report is
written in place (`report.py:1873`), where `INTERFACES.md:1372` says atomically
(`OpenReport`, `WriteReport`).

## Proofs

TLAPS proves, for every value of the constants that the named assumptions allow,
every invariant and action property of the passing runs and both refinements of
an abstract specification. For the pure parts, whose run enumerates inputs, a
theorem names what it assumes of the input (`RankInput`, `PartitionInput`,
`ArtifactInput`, `MediumInput`, `CompositeInput`, each far wider than the run's
inputs, all of which satisfy it). The listed theorems are in `PROJECT.json`; this
is how they are argued.

**Journal** (`AttemptJournalProofs`). `TypeCorrect` is inductive as it stands:
the tokens and derived events an operation writes are typed because the stored
head they must equal is. `OneAuthorization` (`AuthorizedOnce`) is not: a second
authorization is excluded by the claim row, so `AuthorizationInv` adds that an
unclaimed attempt has authorized nobody and that a claim row comes with a
`submitted` event no operation removes; `ClaimIsFinal` uses the same.
`JournalSound` (`NeverCorrupt`) is strengthened to `SoundInv`: an attempt that is
not registered has no rows at all, so registering one cannot adopt an orphan.
The work is that each verification survives an append at the end of the history
(`ClaimStillVerifies`, `ResponseStillVerifies`, `SuccessStillVerifies`), and that
an append moves no row of another attempt. `SucceedsInOrder` follows from it: a
success row binds a snapshot whose times the media admission compared neighbour
by neighbour, and nothing follows a terminal event (`TerminalIsLast`,
`NeighboursOrder`). `OneSendPerRun`: the run's one ordinal. `NothingRewritten`:
histories grow at their end. `JournalImplementsLifecycle`: every operation moves
at most one attempt one phase along the abstract graph, or stutters
(`OnePhaseMoves`).

**Dispatch** (`OpenRouterDispatchProofs`). Every call is in order with itself
(`LocalInv`), so `DispatchImplementsJournal`: each step of a call is a step of
the journal or a stutter, and what is proved of the journal holds under
dispatch. `SentOnce` and `SentUnderClaim` rest on `HolderInv`: the calls that
hold an authorization or have sent are at most one per attempt, and the claim
row carries that call's identifier. `ToldTheTruth` adds `ReportInv`, what a call
at each program point may rely on (after an error it is what it read again, not
what it tried to write), and `LostInv`: of a response declared lost there is no
row, because both leave `submitted` and nothing follows a loss (`LostIsLast`).

**Ledger and its file.** `PermittedOnce`: a permit is given only in the step that
adds the consumption row of its confirmation, a consumption row needs a grant,
and two grants of one challenge are one (`PermitInv`). `IntegrityHolds`: each of
the four operations keeps `LedgerVerifies`, and with it that a grant is no older
than its authority's window (`RowsInv`), so that a consumption within the grant is
within the window too.
`WithdrawalIsFinal`: `Active` is examined inside the transaction that consumes.
`RowsAreKept` rests on what the bootstrap lock protects (`BootInv`): a holder
past the creation looks at the file the path names (`LockInv`), one that may
discard that file adopted it when no schema was there (`HolderInv`), and
therefore nobody acknowledged a row in it (`WrittenInv`). `NoDeletionNeeded`
assumes `OwnerOnlyUmask`, without which `bootstrap_umask` shows it false.

**The paid run** (`RealE2EProofs`). `RunUsesLedger` brings in the ledger's
theorems. The hinge is `FirstOfChallenge`: whoever is given a permit is the first
to pay for the challenge, so at most one call is past the ledger (`OwnerInv`),
and marker, plan, snapshot and attempt are its own (`FilesInv`). The answer in
the journal then has a sender (`HeadInv`) and a result counts it (`ResultInv`).
`OwnConsumptionPays`, `ResponseIsRecoverable`, `CountsOfPosts` and
`RunImplementsPaidChallenge` are read off that invariant `RunInv`; the counts
need the cardinality of the set of POSTs (`Posts`).

**Publication** (`ArtifactPublicationProofs`). What a call has seen or written
may be undone by its peers only if it is not one of `Lasting`: a linked name
keeps its file, a call keeps its derived document, an unlinked staging name
never comes back. `PublicationInv` says for each program point what a call has
found (`SeenInv`), what it has finished (`HaveInv`), and what it works for
(`WorkInv`). `NeverOverwritten`, `ResultIndexesOutput` and `SuccessIsPublished`
follow from it. `ErrorsHaveReasons` assumes `~ReadsFail`, because a failing
read-back is reported as a conflict (see above), and `ReconcileAttempts > 1`,
because with one sample of the link count a peer between its link and its unlink
looks like a foreign hard link; the code samples 16 times.

**Khive.** A batch holds, for each row done, a result that is true of the store
(`BatchInv`, `RowsInv`), and what is true stays true because boards, serves,
judgments and models are only added. `EmbedsLoadedBytes`: the groups of the
distinct contents cover every loaded image (`UniqueCovers`, `ArrangedCovers`:
`Arranged` is onto), and each accepted row names the content and space it
belongs to. `ScopesArePublished`: the entity was created for the scope that was
asked for. `LabelsAreThePolicys`: two presentations of one batch name different
pairs, so a row that shows a pair belongs to it whatever its position.
`DocumentsAccount` is a counting argument: a snapshot contains the judgments of
the replay's events, those are as many as the events (`VotesCounted`), and the
code accepted a model whose count is that number, so somebody else's judgment
cannot be among them (`SnapshotExact`).

**Algorithms** (`AlgorithmProofs`). `PValuesAreValid`: among the items whose
count is at most t take the least unusual one; every other is at least as
unusual, hence counted by it, so there are at most t. Any finite bag, integer
distances, any number of neighbours, with ties. `ReducerAgrees`: the code's pass
computes the declarative contract on every sequence of events of any length, and
agrees with the bundle validator's table wherever that one speaks. Both need an
induction, and the library's induction theorems cannot be instantiated; instead
the set of naturals where a statement fails has a least element (`LeastNatural`),
which the step from its predecessor contradicts. The same argument gives the
existence of the recursive functions (`PassExists`, and `SumExists` for the sums
of the community modules). `NearestIsUnderCentre`: the floor division of
`_nearest_source_offset` picks the pixel that contains the centre, for every pair
of spans. `OrientsAsDeclared`: the eight orientations for every size.
`ComposesConfirmedCrop`, `OneKeyOneOccurrence`: for every input `Compose`
accepts, whoever supplied it, where `EditTyped` says that sizes and bounds are
integers.

*Media.* `ByteCountsAreEncoded` counts blocks: the last one ends the stream and
the ones before it are full. For `MediaCompileAsDeclared` each scan of the list
of chunks or markers is characterised by an invariant of its fold
(`PreflightPngIs`, `PreflightJpegIs`): after every prefix, what the scan
remembers is what the prefix declares, and it has failed exactly if some part of
the prefix is out of place. The code's pass and the reference definition, which
reads the list as a whole, then accept the same lists of any length and content.

*Edits.* `CompositeIsTheConfirmedCrop` says that what the code made for one edit
composes, that what composes shows what the confirmation handed over with it
confirms, and nothing of a mixture. `EncodedCompiles` shows that the compositor's
own PNG passes the preflight, so each artifact of `Honest` is made without an
error, and `HonestComposes` that no check refuses them. `ConfirmedCropShown`: the
confirmation binds packet, source, mask, raster and verdicts, so whoever supplies
the rest, what composes with it is that edit. They assume `ManifestsAgree`: what
the compiler admits the encoder can write. The default manifests do (a side of
8192 against 32768, 16777216 pixels in both, 4096 chunks; `locality.py:223-226`,
`compositor.py:211-212`); with other bounds an edit could be admitted and not be
composable. `OneKeyHasOneOutput` adds that two
edits that differ in time only and share the first one's confirmation compose
the same occurrence (`RepeatIsTheSame`).

**Ranking** (`RankingProofs`). The loops of the code are recursive functions or a
fold in ascending order (`InOrder`), characterised by their least
counterexample, as above. `GroupsAreComponents`: the union-find keeps a forest
whose trees are linked by near duplicates, and when all pairs have been visited
no pair is split (`GroupForest`). For `GroupingNeverFollowsOrder` every step of
the agglomeration, and of the merging of small categories, is shown to commute
with a renaming of the rows (`CategoriesRenamed`, any finite bag): the pair to
merge is chosen by distance and then by the hashes of the members, never by
position, and hashes differ. `AlphasAreHonoured` (`AlphaHolds`, any finite board
and candidates): the supported level is the coarsest floor of any candidate's
category, and a floor is never below the smallest p-value of its category, because
an effective size is at most the number of members. `ReportsCohere`: ranks are
competition ranks of the scores, the categories are those the scores were counted
in, and each rule of the writer holds of them; `Fitted` says that the board's `k`
is what `fit` computes. `BoardIdentityBinds` rests on `SameIdSameBoard`: equal
identities mean the same bag of pairs of hash and row, and the effective size,
recomputed on reading, depends on that bag and the policy alone;
`BoardRoundTrip` shows the read-back of an unaltered board.

Assumptions. `StateAssumption`, `BoundsAssumption`, `JournalAssumption`,
`RowAssumption`, `DispatchAssumption`, `PublicationAssumption`, `BootstrapAssumption`,
`E2EAssumption` and `CommandAssumption` only say that bounds are numbers and
switches Booleans, that sets of actors are disjoint, that the capabilities or
payloads singled out are among all of them, that there is an image file,
and that the values for "none", "no file" or "foreign" are not ordinary values.
`LedgerAssumption` has in addition what `seal` and the contract guarantee of a
confirmation: it expires no earlier than it was confirmed, and its context
identifies it. `ReplayAssumption` says that margins are integers and that a pool
lists a pair once (`_all_pairs` enumerates combinations). TLC evaluates each on
the runs.

Only model-checked:

- Liveness: `DecodedResponseSettles`, `EveryPostSettles`; no proof speaks of
  ENABLED.
- The four violations.

The properties of the pure parts fix a small shape that the theorems named
beside them do not have: sources of three pixels by two (`HonestComposes`,
`ConfirmedCropShown`, `OneKeyOneOccurrence` have any size), four rows for
grouping (`GroupsAreComponents`, `CategoriesRenamed`), two candidates
(`ReportsCohere`), three references in a board's file (`SameIdSameBoard`,
`BoardRoundTrip`). Two references with the same bytes share a hash, and a tie
between them falls to their position: `Distinct`, which the theorems on order
assume, leaves them out.

## Plan

1. Done: journal, dispatch, ledger, bootstrap, publication, the end-to-end run,
   Khive with its commands and the preference replay, scoring and report, the
   board, locality and compositor.
2. Done: every invariant and action property of the passing runs for every value
   of the constants, both refinements, and the general forms of the pure parts.
3. Models: opening the journal's database; two commands that write one report.

## Not modelled

Bytes, schemas and digests (content addresses are identities); the secret
scanner; TLS and HTTP framing; floating-point features (`axes.py`, OpenCLIP);
catalog discovery; rendering. The journal's own bootstrap: it has no adoption, a
remnant is refused, and no document promises otherwise. Which error is raised
when a challenge is confirmed again under a later epoch. The error codes of the
Khive client and its process limits: any of them ends the batch. Pixel
retrieval, the viewer projections and intent packets are stateless functions
whose specification would repeat their code. In the browser viewer, the reducer
ignores an answer it is not waiting for and the page offers no file input while
it loads, so loads do not overlap. `PROJECT.json` "components" gives the reason
for each part.
