# Formal model of objectstore-mcp

objectstore-mcp is an MCP server that gives agents tools over named object
stores (S3, GCS, Azure, WebDAV, file system). The storage backends come from
`scion_sdk`; this repository holds what stands between a tool call and a
backend: which store a call reaches, what a safety governor refuses, the tools
that make several store calls, and the ingestion of metadata into a knowledge
graph. These TLA+ modules model that part, check it with TLC on small instances
and prove theorems about it with TLAPS.

## The system

| Component | State | Operations | What is hard about it |
|---|---|---|---|
| Settings (`config.py`: `_as_int`, `_as_bool`, `Limits`, `load_limits`) | the environment of the process | read again by every guarded call and every composite tool | blank, zero and unreadable values; two processes with different settings over one store |
| Safety governor (`guard.py`: `GuardedBackend`) | none but the settings | `list_objects`, `get_object`, `put_object`, `delete_object`, `delete_bucket`; every other method passes through | it sees single calls, while the promise is about whole tools |
| Composite object tools (`mcp_objectstore.py`: `objectstore_move_object`, `objectstore_delete_objects_by_prefix`) | progress of the call | copy then delete; capped listing then one delete per key | no call is atomic: other processes act between two store calls, any of them may fail or lose its answer, the process may stop |
| Store registry and resolution (`config.py`: `load_stores`, `default_store_name`; `auth.py`) | the environment, `_BACKEND_CACHE` | `resolve_store`, `get_backend`, `get_client`, `reset_backend_cache`, `objectstore_list_stores` | one cache serves callers with different grants, and grants change while backends stay cached |
| Transfer tools (`objectstore_upload_file`, `..._download_file`, `..._upload_directory`, `..._download_prefix`) | local files, progress | checks on size and count, then one store call per file | caps of the tool against caps of the governor, a batch that stops in the middle, sizes that change after they were checked |
| S3 management (`..._bucket_lifecycle`, `..._bucket_versioning`, `..._object_tags`) | rules, status, tags of a bucket | translated to and from S3 documents | what a read gives back of what was put; which errors mean "none set" |
| Knowledge-graph ingestion (`kg_ingest.py`, `objectstore_ingest_*`) | the graph | list, then one awaited transaction | the only `await`: two ingestions interleave, the listing is stale when it commits |
| Surface contracts (`connector_contracts.py`) | static data | none | a task such as delete-objects, "after a dry run and approval", is several calls that share nothing |

Calls go tool -> `get_backend` (resolution, cache) -> `GuardedBackend` (governor)
-> SDK backend -> the store, which other processes and clients share. Composite
tools check their arguments and the delete flag first, so that part of the
governor is evaluated twice, with store calls in between. All tool bodies are
`async def` without an `await` (the two ingestion tools excepted): within one
process a body runs to its end before another starts, and the interleaving that
matters is between processes, at each store call.

What makes each component correct, and the hazards of each, are listed in
`PROJECT.json` under `hazards`; the sections below name the property that
answers each of them.

## Modules

| Module | Models |
|---|---|
| `Limits` | the settings before parsing, `load_limits`, and the clamps `min(asked or cap, cap)` |
| `GovernedStore` | abstract specification: what the governor promises about the store, whatever tools run |
| `ObjectTools` | core: single-call tools, move and prefix delete of several processes over one store, behind the governor |
| `MCObjectTools` | the instances of `ObjectTools` |
| `ObjectToolsProofs` | theorems about `ObjectTools` |
| `UncachedStores` | abstract specification: a registry that builds every backend from the settings of the moment |
| `StoreRegistry` | registry, default store, resolution by caller, backend cache |
| `MCStoreRegistry` | the instance of `StoreRegistry` |
| `StoreRegistryProofs` | theorems about `StoreRegistry` |
| `Transfers` | the four transfer tools between one bucket and the local files, behind the governor's caps |
| `MCTransfers` | the instances of `Transfers` |
| `TransfersProofs` | theorems about `Transfers` |
| `TransferTotalsProofs` | theorems about the bytes a transfer moves in all, on top of `TransfersProofs` |
| `S3Management` | lifecycle, versioning and tags as documents that agents read and replace whole, among other clients |
| `MCS3Management` | the instances of `S3Management` |
| `S3ManagementProofs` | theorems about `S3Management` |
| `KgIngest` | the ingestion tools, their change sets, and a graph engine that commits or rejects them |
| `MCKgIngest` | the instances of `KgIngest` |
| `KgIngestProofs` | theorems about `KgIngest` |
| `Approvals` | composition: a prefix delete that follows its dry run, over `StoreRegistry` |
| `MCApprovals` | the instance of `Approvals` |
| `ApprovalsProofs` | theorems about `Approvals`, on top of `StoreRegistryProofs` |

`ObjectTools` extends `Limits` and instantiates `GovernedStore` (`Governed`) with
the refinement mapping: the contents of the store are the same, and the abstract
switches are what the settings of the running processes amount to. `Transfers` has a
mapping of its own onto the same specification, with one bucket and one process:
steps of other clients are outside it, and every other step of the store
has to be one of the governor's (`TransfersAreGoverned`). `StoreRegistry`
instantiates `UncachedStores` (`Uncached`), which has no cache and whose variables
are otherwise the registry's own.

Definitions whose comment starts with "Faulty" are plausible mistakes in the
definition that follows them. No specification uses them; they record which
mistake each property is sensitive to (`mutants` in `PROJECT.json`).

### Limits

A cap in the environment is `Blank`, a natural number or `Malformed` (text that
`int()` rejects: `load_limits` raises, and with it every operation that reads
the limits). A flag is `Blank`, `"on"` or `"off"`. `KeyCap(asked, cap)` is Python's
`min(asked or cap, cap)`: zero counts as "not asked". `ByteCap(asked, cap)`
is the clamp of `get_object`, where zero stays zero. `Pages(S, n)` is what a
store may return of a listing. Negative caps are not modelled.

### ObjectTools

State: `objects` (location -> payload or `Absent`), `buckets`, `env` (process ->
settings), `call` (process -> the composite call it is running), `reply` (its last
composite answer). `removed` and `touched` only observe: what the latest call of a
process emptied, and what others changed during it. No action reads them.

| Action | Code |
|---|---|
| `PutObject`, `DeleteObject`, `DeleteBucket` | the tools the SDK generates, as `guard.py` 59-98 lets them act |
| `CopyObject`, `CreateBucket` | passed through by `__getattr__` (`guard.py` 28-29) |
| `MoveRefuse`, `MoveCopy`, `MoveDelete` | `objectstore_move_object`: the three checks; copy; guarded delete and answer |
| `PrefixDeleteRefuse`, `PrefixDeleteListFails`, `PrefixDeleteList`, `PrefixDeleteNext` | `objectstore_delete_objects_by_prefix`: the checks; the capped guarded listing (fails, or answers a dry run or an empty page, or starts the loop); one turn of the loop and, after the last, the answer |
| `Restart` | the process stops at any point and starts with other settings |

Every store call takes effect and answers, takes effect and loses the answer, or
fails (`StoreResults`). A call on something absent answers `not_found`, as the SDK
documents (`docs/usage.md`: delete "Raises NotFoundError when absent"). A copy
or put into a bucket that does not exist is `not_found` too. Object contents are a
payload with a size; the bytes are never looked at. Keys are numbers, because
listings order them; the empty key is 0. Which keys are under a prefix and which
hold `*` or `?` are constants. Metadata, tags, presigned URLs and the answers of
reads are left out: they change nothing the properties speak of. Which store a
call reaches is the subject of `StoreRegistry`; here there is one.

### StoreRegistry

State: `env` (order of the configured names, what each is configured to, the root
of the implicit `local` store, the explicit default, and whether the registry
parses), `grants` (per bound caller), `cache` (name -> the configuration its
backend was built from) and `last` (the latest `get_backend`, for the properties).
`ResolvesTo` is `resolve_store`, `GetBackend` and `BuildFails` are `get_backend`
with `create_backend` succeeding or raising, `Refuse` is a resolution that raises,
`Regrant` the identity service changing its mind, `Reset` is `reset_backend_cache`
with a reload or restart. `Listed` is what `objectstore_list_stores` shows. `IsDefault`, which
only the properties use, says which store the default is without computing it as
`DefaultStore` and `FirstStore` do.
Where the default is out of the caller's reach the code takes `entitled[0]`; the
order of that list is the identity service's, so the model allows any entitled
store. The environment changes only together with a reset of the cache, which is
what a restart does and what `reset_backend_cache` is documented for ("tests and
config reloads", `auth.py` 79); nothing in the source changes the environment
otherwise. Credentials are part of a configuration; that a cached backend keeps a
secret after the vault rotated it is documented ("cached for the process lifetime")
and not modelled.

### Transfers

State: `objects` (key -> payload), `files` (path -> payload), `env`, `call` (the
transfer in progress: its batch, what is left of it, where each goes, and for a
download what has been got and not yet written) and `reply`. `bytes` (moved by the
latest transfer) and `touched` (keys and paths others changed during it) only observe.
One process suffices: what the other processes do to the bucket is in `OthersStore`.

| Action | Code |
|---|---|
| `UploadFile`, `UploadDirectory` | the checks of the two tools, on the sizes `stat` gives, up to the first read |
| `UploadNext` | `read_bytes` and `put_object` for the first file left, and the answer after the last |
| `DownloadFile`, `DownloadPrefix` | look at the target and get the object; the capped listing and the sum of its sizes |
| `DownloadGet`, `DownloadWrite` | one turn of the loop: look at the target and get; write |
| `OthersStore`, `OthersWrite`, `Restart` | other clients, other programs on the host, the end of the process |

A read and the put that follows it are one step: a change of the file between them
is indistinguishable from a change after both, and one of the object from one before.
The look at the target and the write are two, because a file may appear
in between. `stat` on the files of a directory, and the listing, are
one step each. A write that fails leaves the file as it was or emptied (`write_bytes`
truncates first); a longer remainder is not told apart from the empty one. `TargetFor`
need not be injective: `relative.lstrip("/")` maps `a/x` and `a//x` under the prefix `a` to
one path; `KeyFor` is. Nor need a target lie below the local directory: only a leading slash is
stripped, and a key may hold `..`. Content type, metadata, directories that
are created on the way, and the `truncated` flag of the answer are left out.

### S3Management

State: `there` (the documents whose bucket or object exists), `held` (document ->
its rules, its status, its tags) and `agent` (what the latest call of an agent was
about and what it learnt; `stale` when somebody else has changed the document since).

| Definition | Code |
|---|---|
| `GetBucketLifecycle`, `GetBucketVersioning`, `GetObjectTags` | the get tools, all a `Read` with the error codes that mean "none set" |
| `PutBucketLifecycle`, `DeleteBucketLifecycle`, `PutBucketVersioning`, `PutObjectTags`, `DeleteObjectTags` | the other tools past their checks, all a `Replace` that may lose its answer or fail |
| `Accepted`, `RuleToS3`, `RuleFromS3` | `_rule_to_s3` and `_rule_from_s3` |
| `S3Call`, `HasClient` | `_s3_call` and `_s3_client` |
| `OthersPut`, `OthersRecreate` | other clients, which also write rules the tools cannot express, and delete and recreate buckets |

A put that is refused before S3 is called, or by S3, has no effect and is left out. Agents put rules of
their own or rules they have read (`Thinkable`), as the bucket administration skill
tells them to. Rules of a bucket form a set: S3 does not order them.

### KgIngest

State: `clock` and `stamp` (which write made an object what it is), `nodes` and `edges` of the
graph, and `call` (the change set an agent awaits; `stale` observes which of its
nodes others have committed since). A name is a sequence of segments, because
the identifiers join store, bucket and key with slashes.

| Action | Code |
|---|---|
| `ToolIngestBuckets`, `ToolIngestObjects` | the tools: listing, change set, up to the `await` of `submit` |
| `Commit`, `Abandon` | the engine: the transaction takes effect, or `IngestError` |
| `OthersWrite`, `OthersRemove` | other clients of the stores |

A commit is taken to be atomic and to replace what is under an identifier, which is
how `ingest_entities` speaks of it ("in one epistemic-graph commit"). Of metadata only
the write it stems from is kept, for objects; what the nodes of buckets and stores say
is not told apart. Buckets are as given; objects come and go. A listing has the objects of a bucket
in the order of `Rank`, and a call takes the first of those that match its prefix, up to its cap
(`Before`). Nothing in the code removes a
node, so a deleted object stays in the graph.

### Approvals

The task delete-objects over the registry. State beside that of `StoreRegistry`:
`objects` of each store, `seen` (the dry run a caller has shown, and which keys others have
written to its store since),
`run` (its delete, with the backend it got and the keys it has listed) and `late`
(what it removed from a store outside its grants since they changed).

| Action | Code |
|---|---|
| `Preview` | `objectstore_delete_objects_by_prefix` with `dry_run` |
| `Rerun` | the same call without, as far as its listing: it resolves the store and lists anew |
| `RemoveNext`, `RemoveFails` | one turn of its loop, and `delete_object` raising |
| `GrantsChange`, `SettingsChange` | `Regrant` and `Reset` of the registry; a reload waits for the body of a tool to end and a restart ends it, while grants change at any time |
| `OthersWrite`, `OthersRemove` | other clients and processes |

`Preview`, `Rerun`, `GrantsChange` and `SettingsChange` take the registry's own actions;
every other step leaves the registry as it is. A page is the first keys in listing order (`IsPage`). What `ObjectTools` models of the same
tool (lost answers, flags, caps that do not parse) is not repeated here.

## Runs

| Run | Instance | Checks |
|---|---|---|
| `governor` | 2 processes, each in any of three environments (open, careful, unreadable), 2 buckets, 2 keys (one a wildcard key), 2 payloads, one of which only the open environment admits | `TypeOK`; `RemovalIsGoverned`: nothing is removed on a process that does not allow deletes or under a wildcard key, by any tool; `MoveKeepsObject`: however a move ends after its copy, by an answer, an error, a lost answer or the death of its process, its destination then holds what the source held, unless another client changed one of the two since the copy or source and destination are the same; `GovernedSpec`: every step is one of `GovernedStore` |
| `prefix_delete` | 4 keys, 3 under the prefix and one of them a wildcard key, processes with a batch cap of 2 or 1 and a listing cap of 3, or without a batch cap (0) and with a listing cap of 1, callers that ask for nothing, 0 and 1 | `PrefixDeleteExact`: the removed keys are those gone through and the reported count is theirs; `BatchBound`: the removed keys are within the list cap, and within the batch cap unless that is zero; `PrefixDeleteLeavesOnlyNewer`: after an untruncated success all that is left under the prefix was changed by others since the listing |
| `cleanup` | prefix deletes and restarts only, no wildcard keys, fairness below | `PrefixEventuallyEmpty` |
| `registry` | 3 store names, 5 environments, 4 callers (two members, a stranger, an unbound one) | `TypeOK`, `HandsOutOwn`: a backend handed out is of a store the caller is shown, the one asked for or the default (`IsDefault`) where that is in reach, configured as the environment has it now; `RefusesOnlyUnlisted`: what `list_stores` shows is never refused, nor a call without a store while anything is shown and there is a default; `UncachedSpec`: the answers are those of a registry without a cache |
| `transfers` | 3 keys (two with one target), 2 files, payloads of 0 and 2 bytes, three environments: transfer cap 2 with wide and with narrow governor caps, and an unreadable one; callers that ask for nothing and for 1 | `TypeOK`; `RacedWithinPieces`: a batch moves at most the governor's cap per object it went through, whatever grows meanwhile; `UndisturbedWithinCap`: undisturbed, it stays within `OBJECTSTORE_MAX_TRANSFER_BYTES`; `NoClobber`: without overwrite only a file that others wrote meanwhile can be lost; `ReportedIsMoved`: on success each of the batch is where it should be, except that with `overwrite` the last of several keys with one target wins while the answer counts them all; `TransfersAreGoverned`: every step of the store is another client's or one of `GovernedStore` |
| `s3` | 2 agents, 1 bucket, 1 object, 5 rules (expiring; moving and switched off; a class without days; days without a class; no action), 3 rules of others (narrow; moving twice; with a date), 2 tags, 1 allowed | `TypeOK`; `OnlyKnowinglyDropped`: a read followed by a replacement loses a rule, a status or a tag only if the agent saw it and left it out, or (a rule) if one takes its place that says of it all that the tools can say, unless others changed the document in between; `ReadsBack`: what is put reads back the same, but for a class without days |
| `kg_ingest` | 2 agents, 2 buckets of one store and 1 of a store with a slash in its name, 4 objects, two of which share an identifier, pages of one object, 2 writes | `TypeOK`; `EdgesConnect`: no relationship without its ends; `NodesAreOwn`: no two objects share a node unless a store's name holds a slash; `BackOnlyWhenOvertaken`: a node goes back in time only through an ingestion that another overtook |
| `kg_catch_up` | the three objects of the store without a slash, two of them in one bucket, pages of one object, fairness below | `GraphCatchesUp`: in the end each object that a first page of its bucket comes to is in the graph as it is in the store |
| `approvals` | 1 caller with changing grants, 2 stores, 2 environments with different defaults, 3 keys, a cap of 2 | `ApprovalTypeOK`; `LateIsBounded`: after a store is out of its reach a caller removes at most the rest of one batch from it; `ApprovedOnly`: a delete that begins is of a store in reach, of the one shown as long as what was asked for still leads there, and beyond keys shown or written since it goes through no more than shown ones have gone |

Five minutes are enough for each; the largest takes a little over two. The bounds are
enough for the cases the code distinguishes: two processes are needed for every
race and a third adds none, because a property is about one call and "the others";
three keys under a prefix are the least with which a page of two is truncated, and
the fourth lies outside the prefix; four locations let a move have another
beside its source and destination; two payloads tell a copied object from an
overwritten one. In `transfers` two payloads of 0 and 2 bytes with a transfer cap of
2 are enough for a batch that fits and no longer does when one file grows, and two of
three keys share a target so that batches with and without a clash occur. The three
environments of `governor` are one that allows everything, one that
forbids deletes and has a lower put cap, and one that `load_limits` rejects.
Processes and buckets (and members, in `registry`) are interchangeable, so symmetry is
used in the safety runs of these modules and not in `cleanup`. In `kg_ingest` two
writes are the least with which a node can go back, and a page of one object the least with which
one is left out. In `approvals` three keys and a cap of two let a page move on;
one caller suffices, because what other callers do to it is in `OthersWrite`,
`OthersRemove` and the registry.

### Disagreements met

Each of these runs checks what the repository says and finds that the code does
something else; `findings` in `PROJECT.json` has the quotes.

| Run | What it shows |
|---|---|
| `self_move` | a move onto its own source copies the object onto itself and then deletes it |
| `upload_cap` | a file within the transfer cap and over the put cap passes `objectstore_upload_file`'s check and is refused by the governor, which advises to use `objectstore_upload_file`; with the default settings that is every file between 10 and 100 MiB |
| `rule_prefix` | a rule whose filter is an `And` of a prefix and other conditions is read with the prefix `""`; put back as it was read, it holds for the whole bucket |

Others met on the way, stated here without a run of their own:

- the governor sends callers with a wildcard key to the prefix delete (`guard.py` 88),
  which deletes through the same governor and is refused in the middle of its batch;
- with `OBJECTSTORE_MAX_BATCH_KEYS=0` a prefix delete is bounded by the listing cap
  (`max_keys or cap`, `guard.py` 49), where `docs/usage.md` 76 says it clamps to the batch cap; `BatchBound` states what holds instead, and `prefix_delete` has such a process;
- a file that grows between `stat` and the read takes a directory upload over the "batch
  total" of README.md 173; `RacedWithinPieces` states what holds instead;
- a configured store named `local` is never the default of the "first configured store"
  rule (README.md 169), even when it is the first configured (`config.py` 147);
- a storage class without transition days is dropped (`_rule_to_s3`), where
  specs/objectstore-mcp/spec.md 61 says "the same rule returns"; `ReadsBack` excepts it;
- `objectstore_ingest_buckets` is documented to return `{"ingested": None}` when no
  engine is reachable (`mcp_objectstore.py` 518); the error of `submit` propagates instead;
- delete-objects lists with `objectstore_list_objects`, declared without `store`, and
  deletes by prefix with it (`connector_contracts.py` 690-739).

### Fairness

`CleanupSpec` and `FairSpec` of `KgIngest` have any. In the first, strong fairness of `PrefixDeleteList` per bucket and
prefix, by some process, says that callers keep asking for the prefix, which is
how a caller follows up on `"truncated": true`. Strong fairness of the effective
`PrefixDeleteNext` of each process says that neither the store nor the life of the
process fails before every single delete. Both are strong, because a restart or
another process that is first at the key disables them again and again. The code
schedules nothing itself: without such callers no cleanup happens, and with
writers that keep adding none ends, so `CleanupNext` has no writers.

In `FairSpec`, strong fairness of `ToolIngestObjects` of each whole bucket says that
somebody goes on ingesting it: the tools do not schedule themselves. Strong fairness of the
commit of a change set that holds an object as it now is says that the engine does not
reject those for ever, and weak fairness of `Commit` or `Abandon` that it answers each call.
An older change set may still overtake; the next one sets the node right. Writers
are not fair and their number is bounded, so in the end the store is left alone.

## Proofs

`ObjectToolsProofs` proves, for all finite sets of keys and all sets of processes,
buckets, payloads and environments that satisfy the named assumptions
(`MarkersAssumption`, `KeysAssumption`, `PayloadsAssumption`,
`EnvironmentsAssumption`):

- `TypeCorrect`: `Spec => []TypeOK`;
- `Invariance`: `Spec => []IInv`, the inductive invariant;
- `RemovalGoverned`, `PrefixDeleteReportsExactly`, `BatchBounded`: the three state
  invariants of the runs;
- `MovesKeepObjects`, `PrefixDeletesAreComplete`: the two action properties;
- `ImplementsGovernedStore`: `Spec => GovernedSpec`.

The safety invariants are not inductive: that the count of a prefix delete is right
when it ends follows from what held after each key, and that a move leaves the object
at its destination follows from what nobody touched. `IInv` therefore adds to `TypeOK`,
for each process: during a move nothing is removed yet and both locations hold
the copied data unless touched (`MoveInv`); during a prefix delete, deletes are
allowed, the page is under the prefix and within the caps, the removed keys are the
page without what is left to do, and what else is left under the prefix is beyond a
truncated page or touched (`PrefixDeleteInv`); an answer is consistent with what was
removed (`ReplyInv`). One lemma per action shows that the acting process keeps its part,
and one that a step of another process keeps it because every change it makes to
the store is recorded in `touched`. The action properties follow from `IInv` on the actions that
can perform the step they speak of: for the end of a move, its delete and `Restart`. The refinement maps put, copy, delete, bucket
calls and `Restart` to one abstract step each, and everything else to a stutter.

That a step refines `GovernedStore` also says what it may do to one location
(`StoreSteps`: it writes it, empties it, deletes its bucket or leaves it alone), and
from this follow results that no run has to repeat:

- `WildcardKeysAreNeverRemoved`, `DeletesOffLosesNothing`, `BucketDeletesOffKeepsBuckets`:
  what the governor's refusals amount to for the store as a whole, over
  all processes and tools;
- `StoreWithinPutCap`: a put cap that no process exceeds bounds whatever the store comes
  to hold, copies, moves and restarts included;
- `ReportedMovesHappened`: a move that answers success has emptied its source, and its
  destination holds what it copied unless another client changed it;
- `CleanupOnlyEmpties`: the safety half of `PrefixEventuallyEmpty`. While callers only clean
  up, what is under a prefix only shrinks, and each delete that has an effect takes a
  key from the prefix of its own call. What is left to TLC is that such deletes occur.

`StoreRegistryProofs` proves `RegistryTypeCorrect`, `BackendsAreOwn` and
`RefusalsAreUnlisted` from `StoresAssumption`. The strengthening is `CacheCurrent`: a
cached backend belongs to a configured store and was built from its present
configuration. `ListedResolves` and `ResolvesToListed` relate what is listed and
what resolves. `DefaultIsDefault` shows that what the code computes is the default that
`IsDefault` tells of: the first entry that is not `local`, by a least index
(`FirstStoreIsFirst`). `ImplementsUncachedStores` proves `Spec => UncachedSpec` from the same
invariant: a hit in the cache and a backend built anew are the same abstract step,
because of `CacheCurrent`.

`TransfersProofs` proves, from `TransfersAssumption` and `MarkersAssumption`,
`TransfersTypeCorrect`, `RacedTransfersBounded`, `DownloadsDoNotClobber` and
`SuccessMeansMoved`. `RacedWithinPieces` and the action properties follow from the invariant
`IInv`, which adds to them: the settings of a transfer in progress load and its batch
is finite (`BatchInv`); what an upload has gone through is in place unless touched
(`UploadInv`, with distinct destinations, so that no later put undoes an earlier one);
the same of a download that does not overwrite or whose targets differ
(`DownloadedInv`); and what is got and not yet written is what the key held, with no file
in its way, unless touched (`HeldInv`). Two keys with one target and no overwrite are
the interesting case: the second finds the first's file and stops.
`TransfersKeepTheGovernor` proves `TransfersAreGoverned`; it needs that the settings of a
transfer in progress load, and not that the sizes its checks saw are still right.

`TransferTotalsProofs` proves `UndisturbedTransfersWithinCap`. `UndisturbedWithinCap` is about a sum
over a batch, which the code takes once, before the loop, while the loop takes its
items one by one. `FitInv` strengthens it: while nobody else touches the files and keys, what
has been moved and what is left to move fit the cap together (`UndisturbedFits`). The
sum of the model is the library's fold, so its equation at one element comes
from an argument over finite sets; where the library's induction theorem cannot be
used, a minimal counterexample is ruled out instead.

`S3ManagementProofs` proves `S3TypeCorrect`, `DroppedKnowingly` and `PutsReadBack` from
`S3Assumption`. `IInv` adds `Informed`: what an agent has read, and nobody changed since, is
what the store shows, and what it has put is what the store holds. The two action
properties then come down to lemmas about the translation of a rule there and back.
`Unambiguous` (the rules of a bucket have distinct identifiers) is invariant too, and
`PrefixesRightUnlessNarrow` needs it.

`KgIngestProofs` proves `KgTypeCorrect`, `NodesAreTheirOwn`, `EdgesAreConnected` and
`NodesGoBackOnlyWhenOvertaken` from `KgAssumption`. `IInv` adds `Filed` (nodes are under
their identifiers, and a relationship never comes without its ends, in the graph or in
an awaited change set) and `Timely` (nothing listed is newer than the store, and an awaited
node is no older than the graph's unless others committed it meanwhile). The
interesting lemma is that `Id` is injective where names of stores are one segment, and
why keys with slashes do not matter: the bucket is always one segment.
`CommitsMakeCurrent` and `GraphStaysCurrent` are the safety half of `GraphCatchesUp`: a change set
that lists an object as it still is leaves it so in the graph, and only a change of the
object, or a change set that was overtaken, takes that back. The first needs that a change set
has one node for each identifier (`OneEach`).

`ApprovalsProofs` proves `ApprovalTypeCorrect`, `LateBounded` and `DeletesAreApproved` from
`StoresAssumption` and `ApprovalsAssumption`, reusing the invariant of `StoreRegistry`.
`AInv` adds `Rest` (late removals and what is left to do fit one batch, once the store is
out of reach), `Approved` (whatever the store of a dry run holds, not shown and not
written since, comes after all that a full page showed) and `OneAtATime` (an approval is spent
by the call that uses it). `DeletesAreApproved` then rests on a counting argument
(`ListedAgain`): a page listed again holds at most as many keys as the first one did,
and those of the first that are still there come before anything new.
`ApprovalsUseTheRegistry` proves `ApprovalSpec => Spec`: the protocol is one more user of
the registry, so every theorem of `StoreRegistryProofs` holds during it.

### When the three findings' statements hold

The runs of "Disagreements met" show that three statements of the repository are false in
general. For each there is a theorem with a condition under which it is true:
outside the case of the finding, code and statement agree.

| Statement | Holds when | Theorem |
|---|---|---|
| a move keeps the object it moves (`MoveNeverDestroys`) | no move names one location twice | `OnlySelfMovesDestroy` |
| an upload within the transfer cap is not refused (`UploadsToTransferCap`) | no settings have a put cap below the transfer cap | `WidePutCapAdmitsUploads` |
| a rule is shown with its prefix | it has no conditions beside the prefix | `PrefixesRightUnlessNarrow` |

### Only model-checked

`PrefixEventuallyEmpty` and `GraphCatchesUp`: liveness under fairness is out of the prover's
reach, and only their safety halves are proved. Every invariant and action property
of a passing run is proved.

## Not modelled, and the plan

What is left of the plan:

1. `Contracts`: the declared contracts, links and roles against the tools that exist: a
   comparison of static data, with no behaviour that the modules above lack.
2. Two tools in one bucket from different modules: a transfer that races a move. Each
   module already has "other clients" do whatever the other tools may do.

Left out for good: `connector_sources.py`, the response models and re-exports
(declarations), the entry points (they call the SDK), ontology, prompts, skills,
packaging and CI (content), and the inside of the SDK's backends, of which only what one
call may do is modelled.
