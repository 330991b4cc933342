# Formal models of Cloodsy S3

TLA+ specifications of the parts of Cloodsy S3 whose correctness depends on the
order in which things happen, TLC configurations that check them on small
instances, and TLAPS proofs of what matters most for every value of the
constants.  Paths below are relative to the repository.

## 1. The system

Cloodsy S3 is one Go process that serves the S3 protocol, an admin API and a
WebDAV share from one SQLite database and one directory tree.

| Component | State | Operations | What is hard | What makes it correct |
|---|---|---|---|---|
| Object service `service/objects.go` | two pools of striped mutexes | Put, Commit, Delete, DeleteAllVersions | rows and files change in separate steps; failures and crashes fall between them; settings are read before the mutex is held | a version's row and bytes agree, acknowledged writes took effect, nothing is lost that nobody named |
| Object table `db/metadata.go` | `objects`: one row per key and version id | upsert, promote, delete, lookup, list | ids, times and the latest flag over long histories | one latest row per key; the newest is promoted |
| Database `db/db.go`, `db/bucket.go` | `buckets`, `multipart_*`, `lifecycle_rules`, ... | retried writes, CRUD | writes fail | foreign keys: rows go with their bucket or upload |
| File store `storage/` | a file per unversioned object and per version, staged parts, derived images, a map of custom directories | write to a temporary file, verify, rename; remove; prune; sweep | directories are pruned behind writers; no transaction with the table | files and rows agree; no stray bytes |
| Object handlers `handler/object.go` | the row a request copied | GET, HEAD, PUT, copy, transform | reads take no mutex | a read serves the bytes of the row it found |
| Bucket handlers `handler/bucket*.go` | none | create, delete, versioning, settings | the count that allows a delete is old when it is used | no object outlives its bucket |
| Multipart `handler/multipart.go`, `handler/s3_compat.go` | upload and part rows, staged files | create, part, copy part, complete, abort | all of them overlap; only Complete takes mutexes | an upload becomes an object once, of the bytes that were listed |
| Lifecycle cleaner `lifecycle/cleaner.go` | none | expire current, noncurrent, markers, uploads | acts on lists that are old | deletes only what the rule covers; ends |
| Webhooks `webhook/dispatcher.go` | bounded channel, closed flag | Emit, deliver, Stop | producers, workers and shutdown overlap | accepted events are handled; no send on a closed channel |
| Images `image/` | bounded channel, limiter, cache | Enqueue, process, transform, Stop, janitor | two kinds of user share the slots; two signals end a worker | no slot leaks; shutdown ends |
| Server `server/`, `main.go` | listeners, contexts, background loops | start, drain, stop | producers and consumers stop in an order | the process ends; drained requests' events are delivered |
| Admin API `admin/` | sessions, login attempts, busy buckets | login, bucket CRUD, storage move, folder delete | moves files under live traffic; caps and expiry | objects stay reachable; lock-outs hold |
| WebDAV `webdav/` | mount tree, authentication failures | open, write, rename, remove | a rename or delete of a directory goes key by key | nothing is lost by a rename; success means all of it |
| Listings `handler/list*.go`, `handler/common.go` | none | ListObjects (V2), ListVersions | pages, markers, common prefixes | the pages of a listing cover it once |
| Chunked bodies, ranges, key paths `handler/chunked.go`, `handler/object.go`, `storage/keypath.go` | a decoder's buffer | decode, parse, encode | boundaries | the declared bytes, and no others |
| Authentication `auth/`, `handler/common.go` | none: credentials are read from the table for every request | sign, verify, look up | the credential is read before the bucket | a request acts on its credential's bucket |
| CLI, config, TLS, logging, wire formats | none | I/O and formatting | | |

How they interact.  Every front end (S3, admin, WebDAV, lifecycle) writes objects
through `service.Objects`, in goroutines of its own, and shares the database and
the file store.  A writer of a key holds the mutex the key hashes to; readers
hold none.  After a write the service hands an event to the dispatcher and, for
images, a job to the image worker, and waits for neither.  The server's context
ends the background loops.  Storage moves and admin deletes of one bucket
exclude each other by a busy mark that other requests do not look at.

## 2. The modules

| Module | Models | Composes | Checked by |
|---|---|---|---|
| `ObjectStore` | object service, object table and files of one bucket | | `MCObjectStore` |
| `WriteOnceVersions` | what `ObjectStore` promises about versions (abstract) | | refinement, run and proof |
| `Lifecycle` | the cleaner as one more process of the store | `ObjectStore` | `MCLifecycle` |
| `Multipart` | uploads, parts, completion, sweeps | | `MCMultipart` |
| `WebhookDispatcher` | Emit, workers, retries, Stop | | through `ServerLife` |
| `ImageWorker` | job queue, workers, limiter, transforms, Stop | | through `ServerLife` |
| `ServerLife` | start, signal, drain, exit of the process | both of them | `MCServerLife` |
| `Buckets` | creation, deletion, quota and location of a bucket, with its objects | | `MCBuckets` |
| `KeyOrder` | the order of keys, and the first of a set | | through the next two |
| `Listing` | ListObjects and ListObjectVersions, page by page, and changes in between | `KeyOrder` | `MCListing` |
| `DavTree` | the tree WebDAV shows, its requests over directories, S3 writes and batch deletes | `KeyOrder` | `MCDavTree` |
| `Logins` | passwords, the two limiters of failed logins, sessions, administrators | | `MCLogins` |
| `Transfers` | bodies (plain, aws-chunked, signed), their verification; ranges | | `MCTransfers` |
| `ObjectStore_proofs`, `Multipart_proofs`, `Buckets_proofs`, `Logins_proofs`, `Transfers_proofs` | theorems about the module of that name | that module | TLAPS |
| `KeyOrder_proofs` | theorems about what rests on the order of keys | `Listing`, `DavTree` | TLAPS |
| `Lifecycle_proofs` | theorems about the cleaner beside the requests of clients | `Lifecycle`, `ObjectStore_proofs` | TLAPS |
| `ServerLife_proofs` | theorems about the dispatcher, the image workers and the whole process | `ServerLife` | TLAPS |

An operator whose name has an underscore (`Acquire_NoWait`, `Left_ToTheLimit`) is a
faulty variant of the operator before the underscore: a plausible bug that the
runs must notice.  No specification uses one.

Every module bounds the number of requests (`MaxRequests`), failures
(`MaxFaults`) and crashes (`MaxCrashes`) in its guards.  A behaviour that has
used up its requests stops, which is why deadlock is not an error; that nothing
gets stuck before is stated by the liveness properties.

### ObjectStore

One process is one concurrent request, or goroutine.  `op[p].mode` is the copy of the
bucket's versioning its handler loaded: nothing reads it again under the
mutex.  `rows[k][v]` is the row of a key and version id with its AUTOINCREMENT
`id`, `latest` flag and time; `slot[k]` is the one file that the version ids `""`
and `"null"` share; `vfile[k][v]` the file of a real version; `variants[k]` the
cached derived images, each with the etag it is named after and the bytes it was
made of.  `lock[s]` is a mutex of the stripe.

| Code | Actions |
|---|---|
| `Put` objects.go:134-213 | `BeginWrite`, `Acquire`, `WriteBytes` (temporary file, verify, rename), `RejectBytes`, `CommitRow`, `FailRow`, `UndoBytes`, `Tidy` |
| `Delete` objects.go:272-332 | `FirstStep` chooses among `DeleteVersion`, `PutMarker`, `SuspendedDelete`, `DeleteSlot`; `FailDelete`; `RemoveBytes`, `BytesGone` |
| `DeleteAllVersions` objects.go:353-384 | `ListVersions`, `DeleteRows`, `RemoveBytes`, `BytesGone` |
| `GetObject` and the image transform, object.go | `BeginRead`, `Probe`, `OpenBytes`, `FallBack`, `CacheVariant`, `Serve` |
| `PutBucketVersioning` | `SetBucketVersioning` |
| a failed statement or file operation; the process dies | `Fault` in the actions that fail; `Crash` clears what is in memory |

A write is one step where the code makes one system call or transaction visible;
writing a temporary file is part of the rename that publishes it.  A read that
opened a file keeps it although it is replaced.  `Tidy` and `BytesGone` are the
end of a request: the removal of derived images and the release of the mutex.

### Lifecycle

`StartPass` loads the bucket and fixes the cutoff, `List` reads a batch by id
cursor (`after`), `DeleteNext` enters the store's delete with the listed key and,
for the noncurrent and marker parts, its version; `Refused` is a delete that
fails, for the keys in `Refusing` any number of times; `NextPart` and
`CancelContext` end loops.  Time is the store's clock, and `Age` lets rows become
old.

### Multipart

`CreateUpload` inserts; `StagePart`, `RecordPart`, `FailPart`, `UnstagePart` are the
file, the row and the failure path of a part, sent or copied; `LockUpload`,
`Load`, `Validate`, `LockKey`, `ReadPart`, `PlaceObject`, `CommitObject`,
`FailCommit`, `DropParts`, `DropRow` are CompleteMultipartUpload in order, the
last two also AbortMultipartUpload's and the sweeps' (`BeginClean` stands for
`cleanStaleUploads` and the lifecycle's `abortMultipart`).  An object is the
sequence of its parts' bytes, so that bytes from different parts can be told
apart.

### WebhookDispatcher, ImageWorker, ServerLife

`EmitLock`, `EmitCheck`, `EmitSend` take the read lock, look at the closed flag
and make the non-blocking send; `StopClose` needs the write lock.  A worker looks up hooks
(`Lookup`), takes one (`NextHook`) and makes up to three attempts, each answered
or not.  The image worker's `Select` is Go's select: when both the context is
done and a job waits, either branch.  A request whose image is small processes it
itself, after its event and in whatever phase the server is (`BeginInPlace`, `InPlaceAcquire`,
`EndInPlace`, composed as `QueueImage` and `ProcessInPlace`): it is the third user of
the limiter's slots beside workers and transforms, and neither a closed channel nor a
cancelled context stops it.  `ServerLife` adds `main.go`'s order: the
admin and WebDAV fronts open before the dispatcher is set (`SetWorkers`) and close last,
a signal cancels the context, the S3 listener drains (or is forced after its 30
seconds), then image workers, then dispatcher, then exit; a listener that fails
takes the other path (`ServeFails`, `FailedEvents`, `FailedImages`), and one that cannot be opened
ends the process with neither dispatcher nor image workers stopped (`Open`, `GiveUpStart`).

### Buckets

The location of a bucket is kept in its row and in the file store's map
(`custom`); `top` and `sub` are the directories that exist, `file[b]` the files
below base `b`.  `op[p]` holds the row its request loaded.  Creation is
`InsertBucket`, `Register`, `MakeRoot` with `Revoke` and `Unregister` on failure; a
move is `TryLock`, `Prepare`, `MoveEntry` for each entry, `RecordPlace`,
`SwitchPlace`, `ClearOld`, or `FailMove`, `UndoEntry`, `EndUndo`; deletes are `CountRows`,
`DropBucket`, `RemoveTree`, `Forget`; a folder delete is `ListPrefix`, `PickKey`,
the delete of a key, `RemoveFolder`.  What fails and is only logged or ignored is
`Ignore`, as often as it likes: bytes that cannot be removed after their row has gone (`Unlink`, and
`RemoveAll` of a folder or of a bucket's tree, which may leave any part of it), a step of a rollback
(`UndoEntry`), the deletion of the row of a bucket that got no directory (`Revoke`).
`ignored` remembers which of the three kinds has happened, and `Ignorable` says which may.  Puts show each file operation
(`MakeDirs`, `MakeTemp`, `Verify`, `Publish`) because pruning and moving
directories can come between them.

### Listing

`table` holds rows with id, version and latest flag; a version id is the empty
one, `"null"`, or the row's own.  `BeginWalk` is a client's first request; `Batch` one
query of `ListObjectsMeta` with the rows it adds to the page, `Probe` the query
that looks whether anything is left behind the last common prefix,
`VersionsBatch` a query of `ListObjectVersions`.  `Change` is a write or delete
between any two queries.  `KeyRange` and `VersionRange` are the queries' WHERE
clauses, with `PrefixUpperBound` as the code computes it (0xFF at the end of a prefix
has no successor).

### DavTree

`tree` maps keys to contents, directory markers among them.  Each action changes
one key, as the object service does under the key's mutex, or reads one page of a
listing: `Mkdir`, `PutMarker`; `OpenFile`, `Write`; `RemoveAll` with `List`, `Drop`,
`EndDrops`, `Prune` and `Unmark`; a MOVE's `StatDst`, `Rename`, `MarkDst`, `Take`,
`Place`, `RemoveSource`.  A `Write` of WebDAV may break off, and then commits what it
has and replies with an error.  An S3 client may write to the key of a folder's
marker; a MOVE makes markers anew, with nothing in them (`Copy`), so what they
hold is not among the contents that are followed (`Followed`).  `kept` and `before` are history: the contents nobody
has asked to remove, and what a request found, as long as nobody else interferes.

### Logins

`rate` is the admin server's table of failed logins by address and name, with its
bound and eviction (`Recorded`, `Oldest`), `streak` the WebDAV server's by
address.  A login is `BeginLogin`, `CheckName`, `LoadAdmin`, `Refuse` or `Accept`,
`CreateSession`; an administrator's request `Begin...`, `Find`, `Insert`, `Update`,
`Count`, `Delete`, `RefuseChange`, `Revoke`.  The command line's commands change `admins` from
another process and know nothing of `sessions`.  `Restart` clears what is kept in memory,
`Cleanup` what has expired.

### Transfers

The wire is a sequence of symbols: a byte of data, or a line.  `Send` chooses
a body, its chunks, the headers about its content, and what happens to it on the
way (`Arrivals`).  `ReadHeader`, `ReadData` (with `ChunkEnds`), `ReadTrailers` are
the decoder's functions, called for as many bytes as the buffer and the network
offer; `EndCopy`, `Commit` and `Verified` are writeAtomic's end, with `Left` for
the LimitReader.  A download is `Ask`, `Lookup`, `Serve`, `Receive`; `ParseRange`,
`Partial` and `Precondition` decide what is sent; `Overwrite` writes a version at any
time.  The client keeps the pieces it got, which a broken connection may have
cut short.

## 3. The runs

| Run | Instance | Shows |
|---|---|---|
| `versioned` | 1 key, 2 contents, 4 version ids, 2 processes, 4 requests with purges and transforms, 1 fault, 1 crash; versioning may be suspended and enabled; symmetry | one latest row (`OneLatest`), rows of versions have their bytes (`RealVersionsHaveBytes`), reads serve one file (`VersionedReadsAreWhole`), derived images match the version they are named after (`VariantsMatchTheirSource`), versions go only when somebody may remove them (`VersionsGoOnlyWhenNamed`), the newest is promoted (`PromotesNewest`), refinement of `WriteOnceVersions` |
| `unversioned` | 2 keys on one mutex, 3 processes, 5 requests, no faults; symmetry | a key's one file belongs to its row (`SlotRowsHaveBytes`), no bytes without a row (`NoOrphanBytes`), acknowledged writes took effect (`AcknowledgedWritesTookEffect`) |
| `lifecycle` | 2 keys, 4 version ids, a client with 2 requests, batches of 1, one key whose deletes are refused, 1 fault; fair | only the first part changes what a reader sees, and it removes no version (`OnlyExpirationIsVisible`), a pass ends (`PassEnds`), and old objects are gone (`ExpiredObjectsGo`) |
| `multipart` | 2 uploads, 2 keys, 2 processes, 4 requests, 1 fault, 1 crash; symmetry | one completion per upload (`CompletesOnce`), of the listed bytes (`CompletedAsValidated`), row and file together (`ObjectsAreWhole`), staged bytes always have an upload row (`StagedBytesAreReachable`) |
| `multipart_ends` | the same with 2 requests; fair | no deadlock between the two pools of mutexes (`EveryRequestReturns`), uploads end and their bytes go (`UploadsEnd`) |
| `server_life` | an S3 and a WebDAV request, 1 worker each, queues of 1, 1 slot, 1 hook, a failed lookup, small images processed by the request itself, forced shutdown, a listener that fails or cannot be opened; fair | no send on a closed channel (`NeverSendsOnClosedQueue`), no slot leaks (`SlotsAreAccountedFor`), drained S3 requests miss no event (`S3EventsAreNeverLate`), once `RunContext` has returned from serving no worker runs on (`WorkersEndWithTheServer`), no attempt after an answer (`NoAttemptAfterAnAnswer`), accepted events are handled (`AcceptedEventsAreHandled`), the process ends (`ShutdownCompletes`) |
| `buckets` | 2 bases, 3 keys of which 2 share a directory, sizes 1 and 2, quota 2, 2 processes, 4 requests, 1 fault, 1 crash, any failures that are only logged; fair | objects are where the row says (`ObjectsAreReachable`), nothing stray (`NoStrayBytes`), map and table agree (`MapMatchesTable`), concurrent writers exceed the quota by at most what they brought (`QuotaOvershootIsBounded`), the busy mark goes (`BusyBucketsAreReleased`) |
| `listing` | 5 keys on both sides of the delimiter and of 0xFF, 2 tables, prefixes, delimiter on and off, pages of 1 and 2 from queries of 2 rows, 2 changes | no entry twice or out of order (`ListedInOrder`), what was there all along is listed (`WalksAreComplete`) |
| `dav` | 3 trees, 5 names, 2 overlapping requests of every kind, pages of 2, S3 writes to two files and to the key of a folder's marker, 1 fault, 1 crash; symmetry | no content is lost that nobody asked to remove (`NothingIsLost`), a success with nothing else going on is complete (`SuccessIsWhole`) |
| `logins` | 2 addresses, 2 names, 2 processes, tables of 3 entries, 3 failures that lock, 3 instants; 7 guesses, or 2 sessions and 2 changes; symmetry | guesses per window are bounded in spite of races, expiry and eviction (`GuessesAreBounded`), sessions are of the current password (`SessionsAreCurrent`) |
| `transfers` | bodies up to one byte over a limit of 3, every chunking, chunks up to 2, any 2 headers, one harm anywhere; downloads over 3 versions, any ranges up to 3; symmetry | what is stored is what was sent, and only harmed or oversized bodies are refused (`StoredAsSent`); answers are exact and pieces fit together (`PiecesAreOfOneObject`) |
| `null_rows` | 1 key, 4 requests, unversioned, Enabled, Suspended | a departure from the documentation: section 6 |

Why the bounds are enough.  Every critical section is per key or per bucket, so
two processes give every pair of racing requests, and a third (`unversioned`) a waiter
behind two others; one fault and one crash can fall at every step;
four requests build the histories that matter for the latest flag (write, hide,
delete, promote) on one key.  Queue sizes, batches, slots and chunks are one or two because
the limit is then met at once.  Four version ids are one for each request: the supply never ends.
`lifecycle` has one pass since a pass keeps nothing for the next.  A listing needs a page
that ends inside a common prefix, a batch that ends inside one, and a change between
queries: pages of one and queries of two rows give all of them.  The trees of
`dav` have a file beside a folder, a folder without a marker, nested folders, and one
more key than a listing takes.  The limiter needs one more entry than the table has, and a
window that ends.  A body over the limit by one shows what one over it by more does.
Symmetry is used in runs without liveness only.

`Together` and `Uncut` in `buckets` say which requests may overlap and which a
crash spares; what happens otherwise is in section 6.  Puts and deletes overlap
each other, and deletes overlap folder and bucket deletes.  Its three invariants also say after which
ignored failures they cease to hold: `NoStrayBytes` after any (and after a crash), since bytes that could not
be removed are stray; `ObjectsAreReachable` after a rollback that failed or a row that could not be taken back, but
not after removals; `MapMatchesTable` only after the last.

`lifecycle` keeps its clients from deleting by version id (`ByVersion = FALSE`)
and its bucket Enabled: see section 6 for both.  In `Multipart`, the set `late`
has the uploads for which a part arrived too late for those who remove the staged bytes;
by design of the code nobody looks at those again, and the two properties about staged bytes leave
them out (section 6).  Clients of the multipart runs always send the same bytes
for one part number.  `BeginMove` in `DavTree` leaves out two kinds of MOVE that lose objects,
`Sound` in `Listing` the walks that section 6 names, and `SessionsAreCurrent` the two kinds of
session that outlive a change.

### Fairness

`WF` on the steps of a request, worker or cleaner: a goroutine that can run does,
and the file and database calls it makes return.  `SF` on taking a mutex: Go's `sync.Mutex` goes into starvation mode after a
millisecond, so a waiter whose turn comes up
again and again gets it.  In `server_life` weak fairness is enough for the slots too, as each job and
each transform comes once; in `buckets` it is asked of the steps of requests only, since those that
mark a bucket wait for no mutex.  `WF` on the cleaners' visits: they run from tickers.  A request that was taken
goes on to its end, and a running shutdown takes its next step.  No arrival, failure,
crash, signal or client's patience is fair.  `PassEnds` relies on the id cursor,
not on deletes that succeed: the refused key fails every time.

## 4. What is proved

`ObjectStore_proofs.tla`, for all sets of keys, contents, version ids, processes
and mutexes and all bounds:

| Theorem | Statement |
|---|---|
| `TypeCorrect` | `Spec => []TypeOK` |
| `LatestIsUnique` | `Spec => []OneLatest` |
| `RowsHaveBytes` | `Spec => []RealVersionsHaveBytes` |
| `VariantsMatch` | `Spec => []VariantsMatchTheirSource` |
| `ReadsAreWhole` | `Spec => []VersionedReadsAreWhole` |
| `VersionsAreSafe` | `Spec => VersionsGoOnlyWhenNamed` |
| `NewestIsPromoted` | `Spec => PromotesNewest` |
| `Refinement` | `Spec => ImplementsWriteOnceVersions` |

Assumptions: those of `ObjectStore` (real ids are neither `""` nor `"null"`, `None` is
no content, `NoProc` no process, every key has a mutex, the modes exist, bounds
are naturals).  One more lies in the model: `NewVersionID` never repeats an id
(`FreshIds`), as the code's random ids assume.

Argument.  `OneLatest` is inductive once absent rows are known not to be latest
(`LatestInv`): every upsert clears the flag of the key's other rows in its
transaction, and a delete promotes only when it removed the latest.
`RealVersionsHaveBytes` is not inductive: between `WriteBytes` and `CommitRow`
nothing in the table shows that a file is about to get a row.  `VersionInv`
strengthens it with the mutexes (`HoldsLock`: a request between its two steps
holds its key's mutex), ids (`FreshIds`: a request's new id has no row and is no
other request's), the order of a write (`BytesBeforeRow`), the order of a delete
(`RowBeforeBytes`: bytes to be removed have no row any more) and
with what readers and cached images have seen (`ReadersSeeOneFile`,
`VariantsMatchTheirSource`).  It is proved a step at a time: `Act(p)` is a step of one
request, lemmas say what it may touch, and the crash and the versioning change
come last.  `VersionsAreSafe` needs only to know what kind of request reaches the step that
removes all rows (`Dispatched`).  `NewestIsPromoted` rests on `WrittenInOrder`: among the real versions of a key the
one written later has the larger row number, since a write takes both the clock and the
next number in one transaction, and no step changes either afterwards (`RowTimes`).  `Refinement` maps a version to its bytes when its row exists, the
pending writes to the requests at `save`, and each step to one step of
`WriteOnceVersions` or to a stutter; `VersionInv` provides the guards.

The last part of `ObjectStore_proofs`, for the same, in a bucket that is never versioned (`NeverVersioned`:
it starts without versioning and nobody sets it):

| Theorem | Statement |
|---|---|
| `RowsMatchSlots` | `Spec => []SlotRowsHaveBytes` |
| `SlotsHaveRows` | `Spec => []NoOrphanBytes` |
| `WritesTookEffect` | `Spec => []AcknowledgedWritesTookEffect` |

Argument.  `Plain` says that only rows with the empty id and only the slot exist, and where requests
can be.  Each step is then one of seven (`PlainActs`).  `Progress` follows a request through its change, whatever
fails: the file holds the new bytes before the row is saved, the row is gone before its file.  `Match`
adds, while nothing has failed, that row and file of a key agree unless somebody is between the two (`Busy`);
mutexes keep others away meanwhile.  The hypothesis is necessary for the first: with ids `""` and `"null"` in one
slot it fails (section 6).

`Lifecycle_proofs`, for the same and all sets of rules and refused keys and all sizes of a batch:

| Theorem | Statement |
|---|---|
| `PassesHideOnly` | `ByVersion = FALSE => (LifecycleSpec => OnlyExpirationIsVisible)` |

Argument.  The lists of a pass are old when it deletes, so the invariant says what stays true of them:
what is listed or about to be deleted is `Harmless`, that is, its row is gone, or is not the latest, or is a marker
without other rows of its key, and no request is about to save it.  A row listed as noncurrent cannot become the latest again
while other requests only save rows with new ids, and a row that is dropped because it is `Unseen` promotes none
(`UnseenGoes`), so dropping one keeps the others harmless (`DroppedBeside`) and what reads show
(`ShownStays`).  The cleaner keeps to the steps that its part of the rule needs (`CleanerAt`).  The
hypothesis is necessary: a client that deletes the current version by its id makes a listed row
the current one, which the pass then deletes (section 6); so is the bucket's mode, which the property names.

`ServerLife_proofs`, for all sets
of events, hooks, requests, workers and transforms, queue sizes, slots and attempts:

| Theorem | Statement |
|---|---|
| `NeverSendsOnClosed` | `Spec => []NeverSendsOnClosedQueue` |
| `AttemptsEnd` | `Spec => NoAttemptAfterAnAnswer` |
| `SlotsAccounted` | `ImgSpec => []SlotsAreAccountedFor` |
| `PartsAreRun` | `LifeSpec => Spec /\ ImgSpec` |
| `ServerNeverPanics`, `ServerAttemptsEnd`, `ServerSlotsAccounted` | the same three of `LifeSpec` |
| `NeverLate` | `LifeSpec => []S3EventsAreNeverLate` |
| `WorkersEnd` | `LifeSpec => []WorkersEndWithTheServer` |

Assumptions: those of the modules, among them that the goroutines are finitely many
(`GoroutinesAssumption`), since slots are compared with their number.

Argument.  That no send meets a closed channel is in `ClosedInOrder`: the channel closes when the
dispatcher holds the write lock, thus when no Emit is past its check, and whoever checks later sees the
flag.  `NoAttemptAfterAnAnswer` needs to know that an event reaches a worker once:
`OneHolder` (an event is with one Emit, at one place of the channel, or with one worker),
`Untried` (a hook not yet taken was sent nothing) and `InDelivery` (a delivery under way has no
answer, and its loop counts what was sent).  `NothingLost` follows an accepted
event to the worker that handled it.  Slots are counted: each step adds at most one goroutine to
those that decode (workers, requests with an image of their own, transforms), or takes one away, and `taken` with it.  `PartsAreRun` is the composition: a
step of the server is a step or a stutter of the dispatcher and of the image workers, so
their theorems hold of it at once.  The two theorems about the order of a shutdown add `StoppedInOrder` (in each
phase, what has stopped by then) and `S3RequestsDrained` (from the end of a drain that was not forced on, no S3
request is under way).  `WorkersEndWithTheServer` is about a `RunContext` that returns from serving: where
the listener cannot be opened the process ends in a phase of its own (`aborted`) with its workers alive (section 6).

`Multipart_proofs`, for all sets of uploads, keys, contents, requests and mutexes and all
bounds:

| Theorem | Statement |
|---|---|
| `UploadsCompleteOnce` | `Spec => []CompletesOnce` |
| `CompletedObjectsAreWhole` | `Spec => []ObjectsAreWhole` |
| `StagedBytesStayReachable` | `Spec => []StagedBytesAreReachable` |
| `CompletedIsWhatWasListed` | `Spec => [](OneBodyPerNumber => CompletedAsValidated)` |

Argument.  `Mutexes` says that two requests within the critical section of an upload, or of a key, are
one.  `Once`: while nothing has failed, an upload that a Complete has found open has not become an object, and one that
has is open only while the Complete that made it removes it.  `Whole`: a key's row and file differ only
while their Complete is between the two.  `Staged`: staged files without an upload row are in `late`
or with a request that removes them.  `Copied` follows a Complete past its validation: what it has
read so far is a prefix of what was listed.  That needs `SentOnly` (table and files hold
what clients sent) and clients that send one body for each number, which is the hypothesis of the theorem
and of the run; without it the property fails (section 6).

`Buckets_proofs`, for all sets of keys, contents, bases and requests and all bounds:

| Theorem | Statement |
|---|---|
| `TypeCorrect` | `Spec => [](TypeOK /\ Control)` |
| `MapIsTheTable` | `Apart => (Spec => []MapMatchesTable)` |
| `RowsHaveFiles` | `Apart => (Spec => []ObjectsAreReachable)` |
| `FilesHaveRows` | `Apart => (Spec => []NoStrayBytes)` |
| `OvershootStaysBounded` | `Spec => QuotaOvershootIsBounded` |

`Apart` is about the constants, and the run's satisfy it: creations and moves overlap with
nothing and uploads only with uploads and deletes of objects, no crash cuts off a move, and with
prefix deletes at most one operation fails.  The theorems need each part.  Uploads beside a delete of
their bucket lose their bytes or leave them (TLC refutes `NoStrayBytes`), nothing resumes a cut-off move, and after two failures a
prefix delete removes the folder of a row that it failed to delete twice.

Argument of those three.  They are about settled states; the invariant (`IInv`) says what holds between them, in
three layers: what holds whatever fails (types, mutexes, who excludes whom, where temporary files are); what holds until a row that should have
gone stayed (`BucketInv`, `MapInv`, `PrefixInv`); and what holds as long as nothing but removals was ignored (`Reach`,
`Tidy`, `MoveInv`), where `Tidy` speaks of runs without a crash and without any ignored failure (`Clean`).  `BucketInv`
is what each request at its step knows of the bucket, `MapInv` that the map differs from the table only while somebody is
`Between` the two.  `Reach` and `Tidy` are the two directions of "files are where rows say": a file is described by its
row, by an upload or delete that holds its key, by the move that has taken its entry to the new base, or by the
delete of the whole tree.  `MoveInv` lets a move be undone: it has seen every entry, what it has moved is in
the new base, and nothing has come into the old one.  `PrefixInv` is the argument about the two passes of a prefix delete.

The quota theorem needs no `Apart`.  Its invariant is `Within`: once a put has passed the check, what the other keys
hold and its own bytes fit in the quota it knew and what was saved since.  A row that is written adds its bytes to both
sides, rows that go only help (`CountedStep`), and a bucket that has gone does not come back under an id that a
request knows (`Ids`).  What a sum over a set does when a row is added or goes is proved by the least
counterexample over the set's subsets (`SumPick`, `SumPart`).

`Logins_proofs`, for all sets of requests, addresses and names and all bounds:

| Theorem | Statement |
|---|---|
| `SessionsStayCurrent` | `LoginSpec => []SessionsAreCurrent` |
| `GuessesStayBounded` | `LoginSpec => []GuessesAreBounded` |

Argument of the first.  The invariant carries the statement from the sessions back to the logins under way: unless
it has been overtaken by a change, a login holds what the account has now (`LoginsAreCurrent`).
A change either tells them (the exceptions of the property) or leaves a request at `revoke`, which removes every session of
the name.  A name that is created again gets no old session back, since no session was opened without
a password (`RealSecrets`).

Argument of the second, which needs finitely many requests at a time (`ProcAssumption`).  `GuessInv` says what the
two tables know of the failures so far (`Counts`, `DavCounts`): an entry counts the last failures of its key, those before
are of a run that was over when it began, and the failures it counts and the logins that it did not stop
(`Pends`) are together at most `MaxFails - 1` and one for each request.  That is inductive because a login comes in only
where the entry is not locked, and then the bound holds anew (`Admitted`); a failure takes one from the logins and gives it to the count
(`OneRecorded`, `DavFailure`); and an entry goes only when it is over (`Lapses`), or with its key's failures
(`Forgotten`).  The bound is exact: with one less, TLC finds a counterexample on either door.

`Transfers_proofs`, for all bytes, bodies, chunks, limits, ranges and versions and all bounds:

| Theorem | Statement |
|---|---|
| `PiecesStayOfOneObject` | `TransferSpec => []PiecesAreOfOneObject` |
| `StoredIsWhatWasSent` | `TransferSpec => []StoredAsSent` |

Assumptions: sizes are positive, bounds are natural numbers, and "no signature" is neither a
body nor a sequence of chunks (`TransferAssumption`, `NoneAssumption`).

Argument of the first.  `Asking` keeps what a request in progress asked for together with the row that is to answer it; a
version more changes no row before it (`Added`).  A range is served of that row only after its ETag
was compared with the client's (`Served`), so a piece that is joined to others is of their object
(`Replied`).  What `parseRange` makes of a header is proved for every size (`ParsedRange`).

Argument of the second.  The invariant `UpInv` says what holds of an upload in each phase (`Sound`).
During the copy, two arguments say that what was written is the body so far.  `Framed` holds where chunks
keep their places: the wire goes on from some place of a stream with a `Layout`, and the file is the
stream's content up to there.  That content is the body, also if the stream is cut off, or is shorter than the body
if a chunk was lost (`LostArrives`).  `ChunksSigned` holds in a signed stream whatever was done to it:
the signature of a chunk names all chunks before it, so the chunk whose data and signature fit is the body's next
one (`Fits`), and the final chunk's fits only when all were read (`SignedFinal`).  At the end (`Whole`), the file is the
body, or a length or the checksum in the trailer tells; what then is stored is whole or cannot be told
(`CommitIsSound`), and what is refused was harmed, or larger than a limit.  For the latter, `Framed` also
shows that an unharmed stream has a data byte, a line end or a fitting signature wherever the decoder
expects one (`DataFollow`, `LineFollows`, `SignatureFollows`).  That every arrival begins so
(`SendIsSound`) rests on where `FlattenSeq` puts its pieces (`Flattened`), which well-founded induction over an explicit
set gives, and is shown for each kind of harm.

`KeyOrder_proofs`, of `Listing`, for all alphabets, delimiters, keys, tables, questions and batch sizes and all bounds:

| Theorem | Statement |
|---|---|
| `PrefixRangeIsExact` | a key is in the range queried for a prefix iff it starts with the prefix |
| `PagesFollowOneAnother` | `ListSpec => []ListedInOrder` |
| `NothingIsSkipped` | `ListSpec => []WalksAreComplete` |

Assumptions: keys and prefixes are words over an alphabet whose greatest character (0xFF) is not the
delimiter, pages have at most the size of a batch, and the ids of rows are unique (`CharAssumption`, `WalkAssumption`,
`TableAssumption`).

Argument.  `Before` is a total order on words (the least place where two words differ is found by well-founded
induction over an explicit set), so `FirstOf`, which is defined by ranks, gives the first of a set in order
(`FirstKeys`, `FirstEntries`, `FirstRows`).  What keys are shown as is in the order of the keys (`ShownInOrder`).
The invariant of a walk (`ObjectsWalk`, `VersionsWalk`) says that its entries are sorted, that each
is what some key is shown as, and that the next query gets exactly the keys that are shown after the
last entry (`Follows`, `Resumes`), although it may resume from a key, from the upper bound of a common
prefix, or from a marker that is taken for one (`NextBound`, `MarkerIdIs`).  An object that stays is
therefore covered by the entries or ahead of them, and a walk that ends has asked for all that is ahead.
`Sound` is needed in one step each: a page of one entry that is the folder listed (`MarkerIdIs`), and
version pages that are rolled up, as large as a batch, or whose marker has changed its row (`VersionsKeep`).

`KeyOrder_proofs`, of `DavTree`, for all sets of requests, names, trees and batches, all page sizes and all bounds:

| Theorem | Statement |
|---|---|
| `MovesKeepContents` | `DavSpec /\ []MovesApart => []NothingIsLost` |
| `SuccessesAreWhole` | `DavSpec => []SuccessIsWhole` |

`MovesApart`: no MOVE takes from where another one under way puts.  The run has two requests and does
without; with more it is needed, since moves in a ring lose what they move (section 6).  A MOVE that overwrites a directory its source is
in is none of the model's requests (`BeginMove`), and what an S3 client wrote under a folder's own
key (`d/`) is not among the contents the theorem follows: both are lost by the code (section 6).

Argument.  A step leaves every content that is still wanted where it is (`Stay`), except that a MOVE
removes an original.  Then the content it took is at its new place (`Copied`), which is another
key (`MovedAway`).  It was there after `Place`; an overwrite or a delete of it would have made it unwanted, and only a
MOVE could have taken it further, from below a name that this one puts below (`BothPrefixes`, `MovesApart`).

`SuccessIsWhole` speaks of a request that nothing else runs beside, and needs nothing of `MovesApart`: that
the tree is finite, its keys texts and nothing that is followed in a marker (`Shape`) holds whatever moves do.  Its invariant
(`LoneInv`) says that whoever has a tree to compare with is alone, and how far it has come from that tree
(`Progress`): pages of a listing hold all keys below the target up to the marker (`Paged`); keys are dropped from
what was listed and from nothing else (`Dropped`); a MOVE is over the tree without what was at the destination
(`Cleared`), and has the keys taken so far under their new names (the markers among them empty, `Copy`), and without their old ones as far as these are removed
(`Halfway`, `Moves`); the clean-up has removed the markers of the folders it came through, each of which holds nothing but
markers of folders on the same path (`Climbing`).  The steps of a MOVE keep this because source and destination are
apart: no key moved is in the place of another or of the new marker (`NoneInPlace`), and moving back
finds the key again (`MovedBack`), except that the topmost marker is made before it is taken (`TopCopied`).  At the
end nothing is left to do, so what was dropped is what was listed (`AllDropped`), the tree is the moved one
(`MoveEnds`), and where the clean-up stops it has met the first folder that is not empty, above
which none is (`EmptyUp`, `ClimbEnds`).  A failed key, and a clean-up that fails unnoticed, end what is promised: the first makes
the request fail, the second is the one success that `SuccessIsWhole` does not speak of (`Unmark` clears `before`).

Only model-checked: liveness (the prover has no fairness).

## 5. What is not modelled

- Signatures of requests, XML, configuration, TLS, logging and most of the command line: formatting,
  byte computations and I/O around the system.  The command line's storage move changes the table
  while a running server keeps its map; it is meant for a stopped server.
- The encoding of keys as paths (a computation on strings), the image cache's janitor, the listings of
  uploads and parts, and lifecycle and notification configuration, which replace rows in one transaction.
- WebDAV's COPY, whose recursion is the library's, its locks and its properties.
- `handleReprocess` of the admin API, which takes the busy mark but no slot of the limiter, the
  command line's reprocessing, and the migration of storage layouts at start.
- What the optimizer makes of an image: it adds a derived variant to the cache and never touches the
  object.  When it runs belongs to `ImageWorker` and `ServerLife`; the pixel work is data.
- `Buckets` has one bucket, which is unversioned, and puts whose row always saves:
  `ObjectStore` has the failures of a put.
- `Transfers` takes lines whole: hexadecimal sizes, the length of a line and what a misplaced byte of
  data would parse as are not in it; a stream with more than one harm is not either.  Conditions
  on dates are left out: see section 6.
- Failures of `fsync`, a file system that reorders renames, and a full disk other
  than as a failed operation.

## 6. Where the code and its documentation differ

The violation run, a counterexample to a quoted statement:

- `null_rows`: the rows `""` and `"null"` of a key share a file.  After unversioned,
  Enabled and Suspended writes, a delete of one removes the bytes of the other
  and promotes its row (`service/objects.go:291`).

Met while modelling and kept out of the runs above by their bounds:

Objects
- A put of an unversioned object that cannot save its row has already replaced the old
  bytes (`service/objects.go:194`); `README.md:824` has a failed upload never touch the existing object.
- A delete acts on the versioning its handler loaded: one that waited while
  versioning was enabled on a bucket that had none removes all rows of the key, versions among them
  (`service/objects.go:339`), against the list at `service/objects.go:273`.  `VersionsGoOnlyWhenNamed`
  names this case.
- Promotion takes the highest row id as the newest, and an overwritten `"null"` row
  keeps its old id (`db/metadata.go:158`); `PromotesNewest` compares the
  promoted row with real versions only.
- A transform in an unversioned bucket may cache an image of the bytes that
  replaced those it is named after (`handler/object.go:345`).

Uploads and downloads
- A part sent again while its upload completes can be read with other bytes than
  were validated (`handler/multipart.go:250`); the clients of the runs send the
  same bytes.
- A part that is staged between an abort's removal of files and of the row is
  stranded (`handler/multipart.go:330`), as is one whose request a crash or failure cuts off
  after its upload's end.
- An unsigned stream that ends after its last chunk is stored although the checksum its
  `x-amz-trailer` header announces never arrives (`handler/common.go:434`); the data are complete.
- The `Complete()` check before the commit (`handler/common.go:415`) decides nothing: where it would
  fail, the decoder has returned an error or the limit has been passed.
- WebDAV's PUT has no verification at all: a body that breaks off is committed as far as it came
  (`webdav/file.go:220`), in place of the old content, against `README.md:824`; `Write` in `DavTree` does so.
- HEAD with a range that cannot be satisfied answers 200 (`handler/object.go:252`) where GET answers 416.
- A client that resumes by date gets pieces of two objects written within one second
  (`handler/object.go:441`); by ETag it does not.

Lifecycle, webhooks, server
- An object written again after the cleaner listed it is expired although it is new
  (`lifecycle/cleaner.go:101`).
- A noncurrent row `""` is deleted as `"null"`, which may name another row
  (`lifecycle/cleaner.go:186`).
- A client that deletes the current version by its id promotes a row that the
  cleaner has listed as noncurrent and goes on to delete.
- A hook gets three attempts; `README.md:311` speaks of three retries
  (`webhook/dispatcher.go:222`).
- The image workers end with the signal's context, before the requests that
  queue images have drained (`server/server.go:87`, against the comment at 134).
- When the S3 listener cannot be opened `RunContext` returns with the dispatcher and the image workers
  alive and the process exits (`server/server.go:102`): events that writes of the admin API or WebDAV have
  emitted since `SetDispatcher` are lost.  `AcceptedEventsAreHandled` and `WorkersEndWithTheServer` except it.
- Small images of admin and WebDAV writes are still processed by their requests after the image worker's `Stop`
  and after `RunContext` has returned (`service/objects.go:405`), against the comment at
  `server/server.go:134`; so are those of S3 requests that a forced shutdown leaves behind.
- Writes of the admin API or WebDAV before `SetDispatcher` and after `Stop` emit
  nothing (`main.go:360`); `S3EventsAreNeverLate` is about S3 requests.

Buckets
- A storage move that loaded the bucket's row before another ended moves nothing and records a
  place without objects (`admin/buckets.go:327`).
- Letting other kinds overlap refutes: put with S3 bucket delete,
  `NoStrayBytes` (DeleteBucket counts rows first, `handler/bucket.go:101`); put
  with move, `ObjectsAreReachable`; put with folder delete, `ObjectsAreReachable`;
  delete with move, `NoStrayBytes`; bucket delete with move, create with bucket delete,
  and two creates of which one fails to make its directory, `MapMatchesTable`.
- Bytes whose removal fails after their row has gone stay, and only a log entry says so
  (`service/objects.go:378`, `admin/objects.go:211`, `admin/buckets.go:231`), so does what a failed rollback leaves in
  the new place (`admin/buckets.go:314`), and the row of a bucket that got no directory if deleting it fails too
  (`admin/buckets.go:167`), while the map forgets its directory.  The invariants of `buckets` name these cases.
- A crash during a storage move splits the objects over two places, and nothing
  repairs that at the next start (`admin/buckets.go:415`).

Listings
- A page of versions at the default and greatest `max-keys`, 1000, which is the query's limit too, ends
  with `IsTruncated` false although there are more (`handler/list_versions.go:59` drops the query's `more`),
  against `db/metadata.go:372`.
- The marker of a row written before versioning resolves to the newer of the rows `""` and `"null"`
  (`db/metadata.go:390`), so that a listing can go round in circles.
- A common prefix of versions is returned again on the next page, and a page that ends in one can
  claim to be the last.
- When the row of a version marker is deleted between two pages, the rest of that key's versions is
  skipped.
- With a prefix that ends in the delimiter, its own marker object and pages of one, the listing of
  objects skips everything behind the marker.

WebDAV
- An S3 object whose key ends in `/` may have bytes (`handler/common.go:150` accepts the key).  A MOVE of
  the folder makes it anew with none (`webdav/filesystem.go:273`: "Directory markers carry no bytes"), and the
  clean-up of empty folders deletes it with them (`webdav/filesystem.go:376`).
- A MOVE with overwrite onto a directory that contains its source removes the source first.
- Two MOVEs that cross, each into what the other empties, lose what the one copies behind
  the other's back.  So do three in a ring (`a` to `d/a`, `d` to `e`, `e/a/x` to `a/x`): each removes
  what another has just copied.  TLC finds it with three requests and a write to a source meanwhile.
- What is written to a source between a MOVE's copy and its delete goes with the original.

Logins
- A login whose password was read before the account changed still makes a session
  (`admin/admin.go:638`), after the change has revoked the others.
- A change or deletion from the command line leaves the server's sessions working
  (`cli/cli.go:923`), against `admin/admins.go:137`.
- Two administrators who delete each other can leave none (`admin/admins.go:120` prevents the last
  from being deleted).
- Eviction from a full table forgets locks (`admin/admin.go:254`).

## 7. Plan

Done, in order: `ObjectStore` with `WriteOnceVersions` and its proofs,
`Multipart`, `WebhookDispatcher`, `ImageWorker`, `ServerLife`, `Lifecycle`,
`Buckets`, `Listing`, `DavTree`, `Logins`, `Transfers`, and the proofs about `ServerLife` with its
parts, `Multipart`, `Logins`, `Transfers`, `Buckets`, `Listing`, `Lifecycle` and `DavTree`.

Next: the image cache's janitor and the migration of storage layouts.
