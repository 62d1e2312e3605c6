# A TLA+ model of schema-server

schema-server keeps YANG schemas for network devices. Clients create a schema
from files on the server or upload its files, and then ask for single schema
elements by path. This directory holds TLA+ modules that model the server's
core, configurations that check them with TLC, and proofs checked by TLAPS.

## The system

| Part | State | Operations | Source |
|------|-------|------------|--------|
| persistent store | Badger database (a record per schema under prefix 0, an entry per schema element under prefix 1), TTL cache of responses | create, reload, delete, add, get, list, details, elements, to-path, expand-path | `pkg/store/persiststore` |
| in-memory store | map from schema key to parsed schema, under an RWMutex | the same | `pkg/store/memstore` |
| schema | parsed YANG tree, its configuration (files, directories, excludes) | NewSchema, Reload, GetEntry, BuildPath, ExpandPath, references | `pkg/schema` |
| gRPC service | none of its own; files of uploads under the schemas directory | one handler per RPC; UploadSchema and GetSchemaElements are streams | `pkg/server/rpcs.go` |
| server | the store, the gRPC server | start (loads configured schemas concurrently), serve, stop | `pkg/server/server.go`, `main.go` |
| client | command line flags | one command per RPC; upload has goroutines of its own | `client/cmd` |
| utilities | none | path parsing and printing, module preference | `pkg/utils` |

**Interaction.** gRPC runs every request in a goroutine. The RPC methods call the
store directly. Create, reload, upload and start-up call `schema.NewSchema`,
which reads YANG files, and then `AddSchema`. The stores, the database and the file
system under the schemas directory are shared by all requests. The persistent
store and the upload handler take no lock at all.

**What is hard.**
Changes of a schema take many steps (check, parse, drop, several commits) and
interleave with each other, with readers and with edits of the files. A batch is
committed in several transactions, so crashes and failures leave part of it.
Cached responses outlive what they were read from. Uploads share directories,
can name files in each other's, and check hashes long before they parse. The upload command is three goroutines and two channels that
must not wait for each other for ever, and a variable that two of them assign. `PROJECT.json` lists these hazards line by
line, with the properties that watch over them.

**What makes each part correct.**

- *Persistent store*: a schema with a record has all the entries of one parse;
  deletes and reloads leave nothing behind; a change that reported success has
  happened; a create replaces nothing; a delete removes one schema; a lookup
  answers as one read of the stored schema; every request is answered.
- *Upload*: a stored schema consists of what the client hashed; its files stay
  on disk, where a reload finds them; the command ends, and success means stored.
- *In-memory store*: a reload replaces a schema in one step or leaves it alone;
  what was deleted stays deleted; a failed reload changes nothing.
- *Schema tree*: path lookup, `BuildPath` and `ExpandPath` agree with each other
  about choices, cases, list keys and module prefixes.
- *Element streams*: a stream ends, and leaves no goroutine behind when its
  client goes away.
- *Start-up*: configured schemas are there before requests are served, and
  starting again changes nothing.

## Modules

| Module | Models | Instance |
|--------|--------|----------|
| `PersistStore` | the persistent store: database, cache, handlers | `MCPersistStore` |
| `PersistStoreProofs` | theorems about `PersistStore`: what is stored, and what clients are told | |
| `Server` | extends `PersistStore` with the life of the process: open, load, serve, fail, restart | `MCServer` |
| `ServerProofs` | theorems about `Server`, on top of those about `PersistStore` | |
| `SchemaStore` | what a store promises: one step per request | |
| `MemStore` | the in-memory store, shown to implement `SchemaStore` | `MCMemStore` |
| `MemStoreProofs` | theorems about `MemStore`, the refinement among them | |
| `ElementStream` | GetSchemaElements of both stores, with goroutines and channels | `MCElementStream` |
| `ElementStreamProofs` | theorems about `ElementStream` | |
| `SchemaTree` | lookup, `ExpandPath`, `ToPath` and leafrefs of both stores, as operators on YANG trees | `MCSchemaTree` |
| `SchemaTreeProofs` | theorems about `SchemaTree` | |
| `UploadServer` | the handler of UploadSchema, and the files it shares with other uploads | `MCUploadServer` |
| `UploadServerProofs` | theorems about `UploadServer` | |
| `Upload` | extends `UploadServer` with the upload command and the stream between them | `MCUpload` |
| `UploadProofs`, `UploadHashProofs` | theorems about `Upload`, on top of those about `UploadServer` | |

### PersistStore

State. `schemas[k]` is the record of schema `k`: the list of files it was made of.
`objects[k][e]` is the element stored under entry `e`, represented by the
revision (files with their contents) it was parsed from. `cache` holds responses by schema and
path, the module prefix included. `disk` holds the YANG files. Per handler, `pc`
says where in the code it is, `src` what it parses, `sc` the parsed schema, `todo`
the entries its batch has yet to commit, `mods` the modules a lookup will try.
A module contains a root-level entry and the paths given by `PathsIn` of its content.

Actions. Each action is one database transaction or one cache access of a
handler, together with the code up to the next.

| Code | Actions |
|------|---------|
| `CreateSchema` | `CreateSchema` (check, validation), `NewSchema`, then `AddSchema` |
| `ReloadSchema` | `ReloadSchema` (reads the record), `NewSchema`, `ReloadDeletes` (validation and second check), `Drop`, then `AddSchema` |
| `DeleteSchema` | `DeleteSchema` (validation, check), `Drop` or `DropFails` |
| `AddSchema` | `CommitChunk` any number of times, then `CommitLast`, or `CommitFails` |
| `GetSchema` | `GetSchema` (check), `CacheGet`, `ReadRoot` or `GetModules`, `Lookup`, `CacheSet` |
| outside | `Evict`, `EditFiles`, `Crash` |

A batch grows in the order of `addSchemaElem`, the root first, parents before
children and siblings in any order (a Go map), the record last; `BatchPrefixes`
are the sets of entries a transaction may end after. Badger submits the
transactions of a write batch in order. A crash is the end of the process, not a loss of power. `DropPrefix` is one step: Badger stops writes while it
runs; a commit that meets it fails, which is `CommitFails`. A drop that fails
may have removed any part.

Choices and cases do not appear in entry paths (`addSchemaElem` skips them), so they
need no entry of their own. Parsing reads all files in one step. Name, vendor and
version are one key; `Extends[k]` gives the keys whose text starts with that of `k`, the ones
whose records a drop of `k` takes along.

Three history variables state what a property depends on. `taint[k]` remembers
that changes of `k` overlapped (`contended`), that a drop failed (`halfDropped`), or that
entries may have been left without record (`orphans`); a completed drop of `k` clears
it. `quiet[p]` says that nobody else wrote the schema of `p`'s request since it
began, and `dropped` which schemas were dropped since the process started. No guard reads them.

### Server

`phase` is where `main` is: `Boot` reads the configuration, `OpenDB` opens Badger, which takes the
lock of its directory (`locked`), `Load(p)` starts a loader of `NewServer`, which from then on is a
handler of `PersistStore` (`NewSchema`, `CommitChunk`, ...), and `Serve` waits for all of them. Clients are
served in phase `serving` only. When serving fails, `main` stops the gRPC
server and creates another one in the same process (`ServeFails`); nobody closes the database, so the new server
cannot open it (`OpenDBFails`) and the process exits. `Killed` ends it at any point.
Whoever starts the process again (`Boot`) is outside the repository, and nothing relies on it.
The history `lost` holds the schemas without record that a request or a loader of this process accounts for: it deleted
them, took their record along, or answered (a loader: logged) that it failed to write them.

### SchemaStore and MemStore

State of `MemStore`: `schemas` is the map, whose values point to a configuration object; `files[c]`
is the file list of configuration `c`, shared by a schema and the reloads of it. Per
handler `pc`, the configuration `cfg` it parses with and what it parsed, `sc`. One action per critical section: the check
(`CreateSchema`, `ReloadSchema`, `DeleteSchema`), the two accesses of `NewSchema` to the
file list (`ResolveFiles` writes it, `ReadYANGFiles` reads it again), the write of the
map (`WriteSchema`, `Remove`), and the lookups. "add" is the sequence of `HasSchema`,
`NewSchema` and `AddSchema` by which loaders and uploads bring a schema in.

`ImplementsSchemaStore` maps the handlers inside a change to a pending abstract
operation, and their answers to its result; `store` is the revision each schema was parsed to. The history `lone`, kept by
both, says that no other change of the schema overlapped. For those, the abstract store
promises what the checks are for: a create replaces nothing, a reload revives nothing. A reader
always sees one whole revision, and a reload never hides the schema, overlapping or not.

### ElementStream

One stream. `walker` is the goroutine that looks up prefixes (persistent) or walks the tree
(memory), `converter` the second goroutine of the in-memory store; its third
only closes the channel (`CloseElements`). `sch` is the buffered channel of the
persistent store; hand-overs on unbuffered channels take both sides in
one step. A revision is reduced to how far down the requested path each module goes. The in-memory walk starts
(`Starts`, `First`) in the module of the prefix; in the module the unprefixed first element is the name of (`named`), that
element skipped; or in any module that has a node named like the prefix (`Foreign`) or the first element. `Defects` are
entries `SchemaElemFromYEntry` fails on, for which an empty element is sent. A module is there in every revision, and paths name no choice at
the top of a module.
Rejected at once, or served element by element until the channel is closed, sending fails or the
context is cancelled. `Cancel` and `ChangeSchema` are the client and other requests.

### SchemaTree

A tree is a function from node paths (the module first, choices and cases included) to
their kind, keys, config or state, and leafref. `GetEntry`, `MemExpand`, `PopulatePathKeys` and `MemToPath` are
translated from `pkg/schema` (`Opaque` nodes are those `getChildren` returns nothing for, which goyang makes of notifications), `GetSchema`, `DbExpand` and `DbToPath` from `persiststore.go`,
`NormalizePath`, `RefEntry` and `BuildPathUp` from `references.go`. Choosing any entry of a
Go map makes `MemToPath` a set of results. A behaviour parses one tree (`Load`)
and asks one question of both stores; the answers are compared with each other and with
definitions that speak of the data tree (`LeavesBelow`, `FullPath`, `RefTarget`).

### UploadServer and Upload

State. `link` links paths to inodes and `data` holds their contents, since an upload
keeps writing to a file another has unlinked, and `os.Create` truncates a file another has
open. `handled` is `handledFiles` (with the write position), `scFiles` and `scDirs` the
lists of the configuration, `stored` the store, in which `AddSchema` is one step
(`PersistStore` looks inside). `status` is the answer to the stream.
`Join[d][n]` is where `path.Join` leads from directory `d` with the name `n`, which is not looked at: the path may lie in
another directory (`In`). Histories: `verified` (contents whose digest the client sent), `user` and `shared` (who took a directory over,
and whether somebody else was at work in it, strayed into it, or it strayed out).

Actions. The handler's steps are the existence check (`CreateSchema`), the
clean-up (`CleanDirectory`), per file message the creation of the file
(`CreateFileWithDir`) and then the write or the check of the hash (`WriteChunk`, `VerifyHash`, ...),
`Finalize`, `NewSchema`, `AddSchema`, and one action for each early return. A hash method the switch does not know is a nil
dereference, which ends the process with all its handlers (`UnknownHash`).
NewSchema fails or succeeds on any files, except that a missing module fails; modules not named `*.yang` are left out
(`FindYangFiles`), and without any other it succeeds and reads nothing.
A digest is the pair of method and content: no collisions.

`Upload` adds the command: `at` is the sender's position in its walk, `sender`
says whether it is about to check `err` or to put it on `senderErrCh`, `errCh` how many are in it,
`main` where the command is, `net` the stream. `err` is one variable of both goroutines: each assigns it in one step and
reads it in later ones (`CheckSent`, `CheckErr`), with steps of the other in between. `logged` says that the command took
an error of the sender, after which the sender goes on while the command waits for the answer. A Send on a stream that is over fails or goes unnoticed.

## Runs

| Run | Instance | Shows |
|-----|----------|-------|
| `writers` | one schema and one invalid key, one file in three states (two contents, broken), two handlers, all faults | `RecordedIsComplete`, `StoredExactly`, `WriteTookEffect`, `LoneCreateNeverOverwrites` |
| `readers` | one schema from a directory of two files, one of them deprioritized and one coming and going, cache, two handlers of which one changes the schema, crash | `TypeOK`, `QuietReadIsExact`, `DescriptionOnRequest` |
| `server` | two configured schemas, a client that creates, reloads and deletes, a file that breaks and is repaired, a failure of the process, all faults | `ServingMeansLoaded`, `ConfiguredAreServed`, `StartupKeepsStored`, `StartDecides`, `RequestsReturn` |
| `memstore` | one schema and one invalid key, two files of which one breaks and one disappears, two handlers | `TypeOK`, `ConfigMatchesSchema`, `ImplementsSchemaStore` |
| `streams` | both stores, two modules, paths of up to three elements that begin with a prefix, a foreign prefix, the name of a module or neither, an entry that cannot be converted, changes of the schema, a cancellation | `InOrder`, `CompleteWhenOk`, `OneTreePerWalk`, `StreamReturns`, `NoGoroutineLeft` |
| `tree` | 400 schemas: two modules, twenty bodies each | `NodesFound`, `LookupsAgree`, `ExpandsAgree`, `KeysFilledIn`, `PanicsInKeysOnly`, `DbRoundTrip`, `MemRoundTrip`, `RefsHitTarget`, `RefsLeadBack` |
| `upload_server` | two uploads, three keys of which one is invalid, two directories, names that lead from one into the other or to a file that is not YANG, files of up to two chunks, hash methods unspecified and unknown, any message at any time, all faults | `TypeOK`, `StoredWasVerified`, `StoredFilesKept` |
| `upload_client` | two commands uploading one schema, one over a connection that may break, the other with two unreadable arguments and two names for one file, fair goroutines | `AckedIsUploaded`, `HashAccepted`, `UploadEndsWithFewErrors` |
| `delete_prefix` | versions 23.3 and 23.3.2 | violates `DeleteTouchesOnlyItsSchema` |
| `stale_cache` | a get, a reload, a get | violates `ReadAfterReloadIsExact` |
| `upload_hash` | an upload with `--hash sha256` | violates `HashAccepted` |
| `upload_hangs` | an upload with three unreadable arguments | violates `UploadEnds` |

The violated properties say what a comment or a help text of the repository says;
`findings` in `PROJECT.json` quotes it. What does hold in these places is stated next
to each: `QuietReadIsExact` (no drop since the start when there is a cache), `UploadEndsWithFewErrors`.

**Bounds.** Two handlers are the smallest number that interleave, and every
property is about a request and what others do meanwhile. One schema is enough
where schemas do not interact; they do through `Extends`, which `delete_prefix`
covers with two. A module with one element gives a batch of three
entries in up to three transactions, so a batch can be cut off after the root, after the
module and before the record. Two contents let a reload differ in its entries from what it replaces. `MaxChanges`
bounds the requests that may be changing schemas at a time, `Inodes` the files that exist,
`MaxChunks` the length of a file and `Window` the messages under way. `readers` keeps one
change at a time: reads of contended schemas are not promised anything.

`server` has a client besides two loaders, because a handler that outlives its gRPC server meets
the loaders of the next process only through what it left in the database. `MaxFailures` of one cuts off a request, a load or
the service at any point and lets the next process run undisturbed; that more failures change nothing is proved for the safety properties.
Reads, which wait for nobody and change nothing, are left to `readers`. In `upload_server` both uploads can be for one schema or for two,
and stray in one direction. In `upload_client` one connection breaks: what a break does to the command does not depend on the other command. In `memstore` three configuration objects suffice: one stored and two being
parsed with. Its view hides the file lists of configurations nothing points to; they are
set before they are read. In `streams` a module may end above, within or below the path
(`Depths`), and paths of zero, one and several elements take different branches. The bodies
of `tree` have every kind of node, notifications at the top and in a container among them, keys in and out of order, choices at the top,
in lists and in choices, leafrefs into and out of choices, in notifications and above the root, and nodes named like their
parent, their choice or a module; two modules make the preference (`Rank`) and ambiguous owners matter,
and one of them has a prefix different from its name.

Symmetry is used for handlers, uploads and configurations in runs without liveness.

**Fairness.** `ServerSpec` and `UploadSpec` assume weak fairness of each goroutine, and the
specification of `ElementStream` of the stream's goroutines and of its handler: the
Go scheduler lets a runnable goroutine run, and a step, once possible, stays
possible until the goroutine takes it or ends. Weak fairness of `Startup` is that of `main` while the process lives;
that an ended process is started again is not assumed. Nothing is assumed of arrivals, edits, evictions, failures,
cancellations or disconnections.

**Deadlock.** The upload instances switch the deadlock check off: each stream is used once, and the
system may stop when all are answered. So do `streams` (one stream) and `tree` (one question).
That commands and streams end is checked as a liveness property.

**Mutants.** Definitions named `X_Something`, next to `X`, are plausible bugs of
`X`; with one in place of `X` the property paired with it in `PROJECT.json` fails.

## Proofs

Every safety property of a passing run is proved for all values of the constants (any
schemas, files, contents, requests, handlers, uploads, arguments and path lengths, with or without cache
and faults; any YANG trees, modules, prefixes and orders of names).

| Module | Theorem | States |
|--------|---------|--------|
| `PersistStoreProofs` | `TypeCorrect` | `Spec => []TypeOK` |
| | `RecordedSchemasAreComplete` | `Spec => []RecordedIsComplete` |
| | `StoredSchemasAreExact` | `Spec => []StoredExactly` |
| | `LoneCreatesNeverOverwrite` | `Spec => LoneCreateNeverOverwrites` |
| | `WritesTakeEffect` | `Spec => []WriteTookEffect` |
| | `QuietReadsAreExact` | `Spec => []QuietReadIsExact` |
| | `DescriptionsOnRequest` | `Spec => []DescriptionOnRequest` |
| `ServerProofs` | `ServingMeansSchemasLoaded` | `ServerSpec => []ServingMeansLoaded` |
| | `ConfiguredSchemasAreServed` | `ServerSpec => []ConfiguredAreServed` |
| | `StartupKeepsSchemas` | `ServerSpec => StartupKeepsStored` |
| | `RestartsKeepSchemasComplete` | `ServerSpec => [](RecordedIsComplete /\ StoredExactly)` |
| `MemStoreProofs` | `TypeCorrect` | `Spec => []TypeOK` |
| | `ConfigsMatchSchemas` | `Spec => []ConfigMatchesSchema` |
| | `StoreImplementsAbstract` | `Spec => ImplementsSchemaStore` |
| `ElementStreamProofs` | `ElementsInOrder` | `Spec => []InOrder` |
| | `StreamsAreComplete` | `Spec => []CompleteWhenOk` |
| | `WalksStayInOneTree` | `Spec => []OneTreePerWalk` |
| `UploadServerProofs` | `TypeCorrect` | `Spec => []TypeOK` |
| | `StoredSchemasWereVerified` | `Spec => []StoredWasVerified` |
| | `UploadedFilesAreKept` | `Spec => []StoredFilesKept` |
| `UploadProofs` | `AcknowledgedMeansUploaded` | `UploadSpec => []AckedIsUploaded` |
| `UploadHashProofs` | `Md5HashesAccepted` | `UploadSpec => []HashAccepted`, if every client uses md5 |
| `SchemaTreeProofs` | `NodesFoundHolds` | `Spec => []NodesFound` |
| | `LookupsAgreeHolds` | `Spec => []LookupsAgree` |
| | `ExpandsAgreeHolds` | `Spec => []ExpandsAgree` |
| | `KeysFilledInHolds` | `Spec => []KeysFilledIn` |
| | `PanicsInKeysOnlyHolds` | `Spec => []PanicsInKeysOnly` |
| | `DbRoundTripHolds` | `Spec => []DbRoundTrip` |
| | `MemRoundTripHolds` | `Spec => []MemRoundTrip` |
| | `RefsHitTargetHolds` | `Spec => []RefsHitTarget` |
| | `RefsLeadBackHolds` | `Spec => []RefsLeadBack` |

The theorems `...Invariance` next to them state the inductive invariants.

**Assumptions.** The proofs use the `ASSUME`s of the modules and nothing else. These say that the constants have
their types, that `None`, `Dir`, `NoModule` and `NoName` differ from what they stand next to (keys,
revisions, and the records handlers keep, such as an open file with its position), that a foreign prefix is not a module, that different files and modules have
different places in the order of names, that a key extends itself, and that loaders create valid keys. The files a command uploads are named
`*.yang`, and names that lead to one path are names of one file. A YANG tree is one the parser accepts (`IsSchema`): the shape of the tree, keys that
are different leaves of their list (RFC 7950, 7.8.2) and no two nodes at one place of the data tree (6.2.1); its depth is
bounded by any number. TLC evaluates all of them in the instances.

**Persistent store, what is stored.** Typing needs `LocalOK`, what a handler knows at each
point (a parsed schema before it drops, a batch within its schema's entries). The proof for lookups needs
that `SortModulesAB` singles out a first module (`FirstIsMember`), which is where the order of names being
injective is used. The two safety invariants speak of schemas at rest and are not inductive. `IInv`
adds what carries them through a change:

- `Contention`: two handlers changing one schema at a time have tainted it, so
  that an untainted schema has a single writer;
- `Pending`: while an untainted schema is being created or written it has no record, so a
  partial batch is invisible (for a create this spans the parse, which is
  where the existence check is used; for a reload it begins with the drop);
- `Progress`: what the batch has committed is in the database, so that the last
  transaction completes the schema;
- `ExactProgress`: in a schema without any taint nothing else is, so the
  result is exact.

`NextIInv` has a lemma per action; `LoneCreateNeverOverwrites` follows from `Pending`.

**Persistent store, what clients are told.** `ClientInv` adds, per handler, what `quiet` is good for.
`QuietBatch` is `Progress` for a batch nobody disturbed, also in a tainted schema: that a reload that
succeeds is exact whatever failed before it is not a consequence of `StoredExactly`. `ReaderFinds` says that a
reader of a clean schema has looked in the modules of what is stored now, and `CacheOK` that the cache answers as the database
would while the schema was not dropped. Both rely on `IInv`: without the single writer a reader could see two parses.

**Server.** `ServerInv` is `IInv` with `Phases` (who may run in which phase) and `LoaderOK` (a loader only
ever creates its configured schema) and `ServedOnceLoaded`, which carries `ConfiguredAreServed` back to the moment a loader is
done: a handler takes a record away only in a drop, after which it writes the schema again or accounts for it (`StaysServed`). Every step of `Server` that touches the store is shown to be a step of the store or
one that keeps `IInv`; so the store's promises survive any number of restarts.

**In-memory store.** `ConfigMatchesSchema` alone is not inductive, since a reload writes the file
list of the stored schema's configuration before it has parsed anything. `IInv` adds `ParsedMatches` (what a
handler has parsed matches its configuration), `OverlapNoticed` (two changes of one schema at a time are not
`lone`) and `LoneChecks` (a lone change still finds the schema as its check left it). The refinement is proved
step by step: arrivals, lookups and the write of the map are abstract steps, the accesses to the file list
stutter.

**Streams.** `InOrder` is about what the client has. The invariant speaks of everything under
way: what was received, what is in the channel, and what the walker and the converter hold are, put together, the path from its
beginning (`Prefixes`, `Walking`), whatever the interleaving; `Walked` ties it to one tree. The path begins at `First`.

**Upload handlers.** A closed file is safe only if nobody writes to its inode. `Links` says that an inode has one path
and that whoever has it open opened it there; `Undisturbed` says, of a handler alone in its directory, that no other works there or has
strayed into it, that its files are in it and its open ones linked, and that closed ones have the contents it verified. Since `os.RemoveAll`
unlinks files others have open, both are needed: a handler that lost its directory goes on writing, but to
inodes that are not linked any more.

**Upload, end to end.** `UploadInv` adds the client. `NothingLost`: while the stream lasts, the files added to the
schema together with the hashes on their way are the files the sender has come past; `PositionOK`, `StreamOK` and
`OutcomeOK` say where the sender is, that create comes first and final last, and what the command knows.
A final message that is accepted therefore means that everything that could be read was added.
What the command reports needs another invariant, `ErrorInv`: as long as no error was put on the channel, the sender has met none and what it
still assigns to `err` is nil; the command leaves its wait without having logged an error only when the channel is closed, and from then on
`err` is its own.
For `Md5HashesAccepted`, `HashInv` adds that the parts of a file arrive in turn. The messages carry no
numbers and a file may have several names, so the invariant says that there is a numbering of them (`Turns`) which continues from what the open file has
to what the sender sends next, and that only the file of the next message is open. The hypothesis that the
clients use md5 cannot be dropped: `upload_hash` is the counterexample.

**Schema tree.** Only `tree` is kept from step to step (`TreeStays`); a property is a fact about the operators for any
tree, and the step that asks a question puts the operators' values into the answers. The operators are recursive functions, on nodes,
on path prefixes and on positions in a row of words. The provers have no induction with a formula as parameter, so the
induction is over sets: `NodeInduction`, `DownInduction` and `FromTheEnd` say that a set of nodes or numbers that
is closed under one step is all of them, and `Recursion` and `SameByRecursion` derive from that that a function is what its
defining equation says. The arguments above that:

- *Lookups*: `DataNames` and the stored `EntryPath` are the same sequence, and by 6.2.1 it determines the node within
  its module. `Descend` follows that sequence through `GetChildren`, so both searches end at the same node.
- *ExpandPath*: the recursion of `GetPathElems` over the tree and that of `DbExpand` over looked-up paths are both shown
  equal to `LeavesBelow`, a set defined without recursion over children.
- *ToPath*: a row of words splits into stretches, one per data node on the way, that are a name and its keys (`IsEnds`).
  `ReadPanics` and its companions read the row from its end: what is produced from each stretch on. The persistent store
  must meet every stretch at its beginning, which is `Unshadowed`; in memory `BuildStep` shows that `buildPath` hands
  itself exactly the next stretch, which is where the conditions of `Followed` are used one by one.
- *Leafrefs*: steps up and down the data names, and then the lookups.

The attempt to prove these corrected their statements, in schemas the instance did not have (several bodies were
added for them): a choice named like the node in it at the top of a module (`AtTop`), two modules with one prefix
(`OwnPrefix`), a leafref whose path is the name of a module, and, for `buildPath`, a list without keys in a choice that is
named like its container, any direct child next to such a choice, and a choice in a case whose name is that of a node looked for.
`MemRoundTrip` is therefore an implication: `Followed` is sufficient, and what `buildPath` makes of
the other nodes depends on coincidences of names.

**Only model-checked.** Liveness, which is out of the prover's reach: `StartDecides`, `RequestsReturn`,
`StreamReturns`, `NoGoroutineLeft` and `UploadEndsWithFewErrors`.

## What the code does that a reader may not expect

Several properties hold only with an exception, which is part of their statement. The
exceptions describe the code:

- *Creates that overlap* both pass the existence check, and the second replaces the record and
  mixes its entries with those of the first (`LoneCreateNeverOverwrites` is about creates alone). The same check-then-act in memory
  replaces the schema as a whole.
- *A lookup that misses the cache* answers the description whether it was asked for or not.
- *An in-memory reload that meets a missing file* leaves the stored schema's file list
  empty (`schema.go:49` assigns the result of `findYangFiles` before looking at its error). The schema is still served, and the next reload succeeds with an empty
  schema. `ConfigMatchesSchema` and the abstract `Reload` allow exactly that.
- *A failed serve* always ends in an exit, since the restart loop meets the database
  lock of its own process (`StartDecides`).
- *A reload whose commit or drop fails* loses the schema: it was deleted first. The client gets an error, and
  `ConfiguredAreServed` counts the schema as lost until it is stored again or the process is restarted.
- *File names of an upload* are joined to its directory unchecked. A name that leads elsewhere changes another schema's files, verified
  or stored: `StoredWasVerified` and `StoredFilesKept` are about uploads that keep to their directory and whose directory others keep out
  of. *Modules not named `*.yang`* are hashed and then left out of the schema without a word. *An unknown hash method* ends the process.
- *The upload command* may report success for a refused upload: once it has logged an error of its sender, the sender goes on
  and may overwrite the refusal in `err` before the command looks at it. `AckedIsUploaded` promises the answer only to commands that have logged nothing.
- *Abandoned in-memory streams* leave their goroutines behind: the converter sends without looking
  at the context. *In-memory streams* end without an error where the walked module ends; they send an empty element for an entry that cannot
  be converted, leave out a first element that is the name of a module (and are empty if it is the only one), and put one in front if
  a prefix is no module but the name of a node. *Persistent streams* send empty elements when the schema
  goes away under them.
- *The two stores differ* on: the prefix of a module (declared prefix in memory, module
  name in the database); nodes below a choice at the top of a module and nodes in a notification (not found in memory); nodes below
  a top-level node named like its module (not found in the database). Asked to expand a notification, memory lists its leaves and
  the database none.
- *`ToPath` of the persistent store* panics on a path that ends between the keys of a list, and swaps key
  values when the keys are not declared in the order of their names. *In memory* it
  does not follow nested choices, choices named like a child, or same-named children.
- *`ExpandPath` in memory* fills in the keys of the lists on the way, but attributes them to the wrong elements below
  choices; the persistent one fills in the last element only, overwriting values that were given.
  Asked about a leaf in memory, the data type is ignored; asked about a leaf-list, nothing is listed.
- *Leafrefs* to nodes in a notification, from within it too, fail the whole schema, and one that goes up beyond the root is a nil
  dereference. *Leafrefs* drop their prefix: a module that is tried first and has the same path receives the reference. The paths back
  start with the module's name, which lookups in memory do not accept in front of a longer path.

## Not modelled

The YANG parser and Badger themselves, which are libraries; reading the configuration, TLS and the metrics
endpoint, which keep no state; the client's other commands, which send one request and print the
answer. Logging, message texts and timing (other than that cached
responses expire at any time) are abstracted away. Of `pkg/schema`, the conversion of types, must statements,
defaults and identities into responses is left out: it copies fields from the parser's
tree. `ParsePath` and `ToXPath` scan and write strings character by character. Exclude
patterns and import directories select files before the steps modelled here. Vendor, name and version are taken to have
no path separators, so that a schema's directory is one under the schemas directory; a file name that leads to a directory counts as a file that
cannot be created.

## Plan

Every safety property of a passing run is proved, in the eight modules listed above.
What could still be added is in the gaps of the model: the scanning of paths by `ParsePath` and the
exclude patterns of the configuration, both as operators that TLC checks.
