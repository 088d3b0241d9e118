# boto in TLA+

TLA+ modules for the parts of boto whose correctness depends on interleaving,
failure and order, with the TLC configurations that check them on small
instances and the TLAPS proofs of what holds for every size.

## 1. The system and its parts

boto is a library: a program makes connection objects, one per service, and
calls their methods from its own threads. Under every method lies one object,
`AWSAuthConnection`, that takes an HTTP connection from a pool, signs and sends the
request and decides what to do with the answer. Above it some components have
control of their own: they start threads, keep files across crashes, buffer and
resend, page through answers, write on condition, or pass messages on.
Everything else, most of the repository, turns arguments into a request and an
answer into objects; it has no control to model beyond `_mexe`'s.

| part | source (under `src/boto`) | state it keeps | operations | what is hard | what makes it correct | work |
|---|---|---|---|---|---|---|
| connection pool | `connection.py:96-300` | queues of connection and return time per host, `last_clean_time`, a mutex | put, get, clean | connections enter with their body unread; another thread reads it; time passes | one user per connection, never with an unread answer, never older than it may be | checked, proved |
| request loop | `connection.py:703-1080` | locals of `_mexe`: attempts, response, exception, connection | make_request, retries, redirects, reconnections | attempts not counted, connections that change hosts, what is left to raise | every call ends, with an answer or an error; requests reach their host | checked, proved |
| concurrent Glacier transfers | `glacier/concurrent.py` | work queue, result queue, a flag per thread, hash slots, the file | upload, download | threads that stop or fail at any moment, parts in any order | complete only what is whole, no part after the end, no one waits for ever | checked, proved |
| Glacier writer, utilities | `glacier/writer.py`, `utils.py` | a buffer, a list of hashes, a part index, what the service holds | write, flush, close, skip, resume; part size, tree hash | failure between buffer and service, late requests, crash and resumption | only the whole archive is ever completed | checked, proved |
| resumable upload | `gs/resumable_upload_handler.py` | tracker file, digests, position, retry count | send_file | crash, restart, edited file, lost answers | the object is the file; retries end | checked, proved |
| resumable download | `s3/resumable_download_handler.py` | tracker file, partial file, position, response, retry count | get_file | crash, restart, an object replaced at any time | the file is of one version; retries end | checked, proved |
| key sender | `s3/key.py:722-1025` | position in the source, digests, `local_hashes` | set_contents_from_file, _stream | called again by `_mexe` for each attempt | the object is the whole of what was to be sent | checked, proved |
| bucket deletion | `s3/bucket.py:639-733`, `bucketlistresultset.py` | page, marker, batch, errors | delete_keys over a listing | pages and batches that end anywhere, other clients | every key is deleted or reported | checked, proved |
| DynamoDB v2 batches | `dynamodb2/table.py:1590-1723` | puts, deletes, unprocessed items | batch_write | partly processed batches, flushes that raise | nothing is lost, last write last | checked, proved |
| DynamoDB v2 result sets | `dynamodb2/results.py`, `table.py` | page, offset, last key, keys left | iteration over scan, query, batch_get; query_count | empty and short pages, calls that raise | every item once | checked, proved |
| DynamoDB v2 items | `dynamodb2/items.py` | fields, and fields as last loaded | load, save, partial_save, delete | several holders, conditional writes | others' writes stay; memory in step | checked, proved |
| sequences | `sdb/db/sequence.py` | a value; one item at SimpleDB | `__init__`, next, delete | conditional puts of several clients | no value put twice | checked, proved |
| credentials | `provider.py` | keys, token, expiry | refresh, read | threads that read while another assigns | one set, not expired | checked, proved |
| service loop | `services/service.py` | one message in flight | main | redelivery, crashes | a message is deleted only when it is done | checked, proved |
| repeating tasks | `manage/task.py` | a message id, a time | start, poll, run | crash between three requests | the task keeps a message; once an hour | checked, proved |

`PROJECT.json` lists the other parts with the reason each is left out (section 6).

How the parts interact: threads of the program share one `AWSAuthConnection` and
through it one `ConnectionPool`, guarded by a mutex, and one `Provider`, guarded by
nothing. The Glacier uploader makes its own threads, which meet in two `Queue`s and
one flag per thread; each thread's API call is one `_mexe`. `Key` hands `_mexe` a
sender that is called once for each attempt, and a `should_retry` that judges the
answer. The resumable handlers, `Writer` and the batches are used by one thread;
what is concurrent with them is the service, which may have done what a raised
call asked for, other processes, and their own next process, which finds the files
the last one left. Sequences, items, services and task pollers meet other
processes at SimpleDB, DynamoDB or SQS only.

## 2. Modules

```
ConnectionPool <- Mexe <- IdleTimeout <- MCIdleTimeout
                                      <- MexeProofs

ConcurrentTransferer <- ConcurrentUploader ..> MultipartUpload
                     <- ConcurrentDownloader
ConcurrentUploader, ConcurrentDownloader <- ConcurrentTransfers
ConcurrentTransferer <- ConcurrentTransfererProofs <- ConcurrentProofs   (of both)

GlacierUploader <- GlacierWriter   \
GlacierPartSize <- GlacierTreeHash  > <- Glacier <- GlacierProofs

ResumableUpload   <- MCResumableUpload,   ResumableUploadProofs
ResumableDownload <- MCResumableDownload, ResumableDownloadProofs

DynamoTable <- BatchTable  \
            <- ResultSet    > <- Table <- TableProofs

Task, Service, Sequence, Provider, DynamoItem, BucketList, KeySender
                                   <- Clients <- MCClients, ClientsProofs
```

`<-` is EXTENDS, `..>` a refinement (`INSTANCE ... WITH`).

**ConnectionPool** is `HostConnectionPool` and `ConnectionPool`. `host_to_pool` maps
`[host, is_secure]` to a sequence of `[conn, time]`. The methods hold the mutex
from first access to last, so one critical section is one action;
`get_http_connection` has two (the call of `clean()` releases the mutex before the
queue is taken), so it is two actions. `response[c]` is the response `http_client`
keeps attached to a connection, which decides whether it is ready. The loops are
written as what they leave: `HostClean` the suffix from the first pair that is
not stale, `HostAfterGet` the queue rotated to behind its first ready pair.

**Mexe** is `make_request` and `_mexe`, for any number of threads. Each branch of the
loop is an action: `ServerError` (5xx), `RetryHandler`, `Answer`/`PutHttpConnection`,
`AnswerAndClose`, `Redirect`, `PleaseRetry`, `HttpException`, `Raise`, and after the loop
`Exhausted`. The server may answer anything at any attempt, and callers read
bodies (`ReadBody`) whenever they like. `opened[c]` remembers where a connection was
opened to. **IdleTimeout** adds the server's view of time to it.

**ConcurrentTransferer** is the thread pool: `_add_work_items_to_queue`, the starting loop,
`_wait_for_..._threads`, `_shutdown_threads`, and `TransferThread.run`.
**ConcurrentUploader** and **ConcurrentDownloader** put the upload and the download around
it, with every place where an API call, a constructor or a write may raise.
**ConcurrentTransfers** puts the two into one run; a behaviour is of the one that `transfer`
names. **MultipartUpload** is what an upload promises to the service; the uploader is shown
to implement it (`ImplementsProtocol`).

**GlacierUploader** is `_Uploader` with the service: an archive is a stream of bytes
and a part an interval of it. A request that raises has been lost or is on its
way (`delayed`) and may arrive at any later time. **GlacierWriter** adds `_Partitioner`,
`Writer`, a crash at any step, and `resume_archive_from_file`/`resume_file_upload`,
which may itself raise and be started again. The buffer of the partitioner is
always the bytes from `taken` to `written`. **GlacierPartSize** is `minimum_part_size`
and the transferer's choice of a part size. **GlacierTreeHash** cuts a file of that
part size and compares `tree_hash` over the parts with the tree the service builds.
The outer loop of `tree_hash` is `Turns`, the lists after each turn, and `TreeHash` the
element left by the turn that leaves one; `Trees` is the service's definition, a tree
whose left half is the largest power of two below its size.
**Glacier** puts the two beside each other for one run: a behaviour is of one of
them, which the variable `part` names.

**ResumableUpload** is `send_file` with everything under it: the retry loop
(`Attempt`, `TrackProgress`), the query for the service's position (`QueryAnswered`,
with `CatchUp` for the digests), the start of an upload with its tracker file, the
PUT that sends the rest of the file (`SendBreaks`, `SendFindsEof`, `SendSucceeds`,
`SendRefused`), the query after a failure (`Requery`), and the final check of the
md5, which deletes the object when it fails. Digests are the sequences of the
bytes hashed, so a digest that was fed a byte twice differs. The process may crash
before any request, and the file may be edited while no process runs.
**ResumableDownload** is `get_file` with the part of `Key.get_file`, `open_read` and
`close` that it goes through. A byte knows its version of the object and its place,
so a file joined from two versions, or with a hole, is told apart; `fp` is the
position of the file object, which a file opened to append ignores. The object may
be replaced between any two steps by any other version, so that an earlier one with
its etag may come back.

**BatchTable** is the context manager: puts and deletes with the flush at
`MaxBatch`, the flush of `__exit__`, and the resending of unprocessed items. A write
is known by its place in `issued`. **ResultSet** is both iterators and `query_count`
over pages that the service cuts anywhere. **Table** runs a block and then reads
what it has left (**DynamoTable** is the table they share).

**Clients** puts seven components beside each other that share no state; a
behaviour is of the one that `part` names. **Task**: the requests of `Task.run` are
an action each, so a poller may die between any two; hours pass when pollers have
done what they could. **Service**: the same for `main`; a message is visible, with a
reader, hidden or deleted. **Sequence**: `next()` is a get, a conditional put and a
get. **Provider**: each assignment of a refresh is a step, and so is each of the
three reads of a signature. **DynamoItem**: objects in any processes over one item;
every request is one action, as it is at the service. **BucketList**: the pages of the
listing are fetched while batches are filled. **KeySender**: one call after
another on one `Key`, each with its attempts.

Definitions called "Fault" are plausible bugs: each property is known to fail when
one of them stands in for the code.

## 3. What is checked

| run | question | properties |
|---|---|---|
| `mexe_pool` | two threads, one queue, connections that age and are read late | `ExclusiveUse`, `SendsOnReadyConnection`, `NeverHandsOutStale`, `ReadInTimeIsReusedInTime` |
| `mexe_redirect` | two hosts, both schemes, redirects and failures in any mix: where requests go, how calls end | `GoesToItsHost`, `FailureIsExplained`, `CallEnds` |
| `transfers` | the concurrent upload with every failure, and the download with corruption and failing writes | `WorkIsWaiting`, `CompletesWholeArchive`, `ReturnsTheArchive`, `ImplementsProtocol`, `CallEnds`, `ThreadsEnd` |
| `glacier` | writes, failures, late requests, crash, resumptions; every file size: part size and hash | `ClosedIsWhole`, `ResumedIsWhole`, `ResumeIsAccepted`; `TransferFits`, `PartsHashAsTheArchive` |
| `resumable_upload` | crashes, edits, lost answers, several processes | `ReturnsTheFile`, `GoodObjectIsKept`, `SendFileEnds` |
| `resumable_download` | crashes, an object that is replaced, broken pipes | `ReturnsOneVersion`, `GetFileEnds` |
| `dynamodb_table` | a batch with partial answers, then a scan, batch_get or count | `NothingIsLost`, `StaleOnlyIfSentBack`, `ScanReturnsFirst`, `BatchReturnsRest`, `CountIsExactOrZero`, `NextReturns` |
| `clients` | the seven clients with crashes, lost answers and each other | task: `ChainLives`, `OnceAnHour`; service: `DeletedIsDone`; sequence: `TakenOnce`; credentials: `HeldIsOneSet`, `ReturnsAlive`; items: `InStep`, `KeepsOthersWrites`; bucket: `EveryKeyIsDeleted`; sender: `SendsTheWhole` |
| `part_size_2` | the part size under Python 2's division (fails) | `FewEnoughParts` |
| `batch_get_dropped` | does a batch_get return every item? (no) | `EveryItemIsReturned` |
| `download_pipe` | is a download resumed after a broken pipe? (no) | `BrokenPipeIsResumed` |
| `daily_task` | is a daily task executed each day? (no) | `DailyTaskIsExecuted` |

What holds is often less than one would wish, and the properties say so where the
code decides it: `ReturnsTheFile` leaves out files of one byte, `ReturnsOneVersion`
the five cases that `spoilt` names, `HeldIsOneSet` and `ReturnsAlive` two refreshes that
overlap, `ChainLives` and `OnceAnHour` a poller that is quicker than `Task.start` (`early`),
`TakenOnce` a sequence that was deleted or made twice, `CountIsExactOrZero` a count of
zero, `StaleOnlyIfSentBack` an unprocessed write, `InStep` a value that cannot be
stored. Section 5 describes each; two of them have a run of their own that fails
(`BrokenPipeIsResumed`, `EveryItemIsReturned`).
`ReadInTimeIsReusedInTime` is about bodies that are read in time, `NeverHandsOutStale`
about the return times as the pool keeps them, and `OnceAnHour` about pollers that do
not crash and whose messages do not lapse, which are `ChainLives`'s.

### Bounds, and why they are enough

- `Conn`: Python makes connection objects without limit; the model has a few, and
  `SpareConnection` starts a call only while a new object is left for every thread
  that may need one. Objects that no pool and no thread refers to are used again,
  as after garbage collection. Three objects for two threads let a queue hold two
  connections while a third is in use: what it takes to turn a queue and to
  clean its front only.
- `NumRetries` in `mexe_pool` is 1, a first and a last attempt, and 2 in
  `mexe_redirect`, where `MaxHops` of 2 lets redirects come before, between and after
  failed attempts. `_mexe` itself does not bound redirects (a server that redirects
  for ever keeps a call going for ever: `CallEnds` is about servers that do not).
  `mexe_redirect` has one thread: its properties are about the loop of one call.
- `SessionStep`, the attempts an expired DynamoDB session counts for, is
  `num_retries - 1` in `dynamodb/layer1.py:150` and taken to be positive, i.e.
  `num_retries` at least 2. `_mexe`'s other handlers count one.
- `MaxTime` stops the clock after the time two stale periods and a cleaning need.
- Two workers and three parts make every order of results, a worker that finds
  only its sentinel, and one that does all the work. `Attempts` is 2 where the code
  has 5 retries: a first and a last one.
- In the writer, `PartSize` is 2, the file 5 characters of which the last takes two
  bytes, `MaxWrite` 3: writes below, at and above a part, two full parts and a short
  one, and a short part of an interrupted writer where the file has a full one.
- `Megabyte` is 2 bytes, `MAXIMUM_NUMBER_OF_PARTS` 7 (10,000) and the largest part
  2^5 megabytes (4096): every size from 0 to past the largest file with every
  power of two as the default. The algorithm compares products and quotients
  only, and one byte above a limit is one byte in both. `Levels`, 8, is the depth of a
  tree over the largest of these files (225 chunks); it bounds nothing else.
- Files of 0 to 4 bytes with a buffer of 2 are sent in no, one and two buffers, the
  last whole or not; one retry makes a first and a last one, and processes are not
  bounded. The versions of the downloaded object have 2, 3 and 0 bytes, longer and
  shorter than the one before; `MaxFile` bounds a file that grows through holes, and
  `MaxReplacements` of 2 lets an object be replaced and restored, or replaced twice. A
  bound is needed: an object that is replaced for ever by longer and shorter versions
  keeps a download that makes progress going for ever.
- Four writes on three keys with batches of two (25 in the code) fill the buffer
  twice, write a key twice, and come back in any part; three items, limits and page
  sizes of 1 and 2 and batch_gets of two keys make pages that are full, short and
  empty, and limits below, at and above what there is.
- `clients`: two processes or threads each, as what goes wrong here is between two;
  three messages, so that one may lie unread while a task's message is replaced;
  two crashes or lapses, and two failures of a service; three generations of
  credentials, one held, one new and one newer; four keys in pages and batches of
  two, so that the last batch may be exactly full; two files on one `Key`, with
  chunks of two bytes, from any place of either. Values of a sequence stop at 3. A
  server's `retry_count` is 2; the theorem is for any, a negative one, with which the
  loop never ends, included. In `daily_task` one poller
  is enough for a counterexample.
- Symmetry among threads and connections is used only where no liveness is checked.

`CHECK_DEADLOCK FALSE` is set where the system may stop: all calls over, the clock
or a counter at its bound, the upload finished. The resumable runs check deadlock.

### Fairness

`CallEnds` of `_mexe` assumes weak fairness of each thread inside a call: a running
thread goes on, and a request without an answer ends in a socket timeout, which
`_mexe` treats as a retryable exception. Nothing is assumed of callers: bodies may
stay unread and no call need be made. The transfers assume weak fairness of the
main thread and of each worker, the resumable transfers of `SendFile` and `GetFile`,
the tables of `CallStep`, the iterator inside a call, again because processes run
and API calls end, with an exception if need be; a crash, an edit or another call is
never assumed to come. `TaskSpec` adds that pollers go on polling, timeouts expire
and hours pass, and still refutes `DailyTaskIsExecuted`. No strong fairness is used;
`Clients` and `Glacier` assume none.

## 4. What is proved

Every safety property a passing run checks is also a theorem of its specification.
TLAPS proves them for every value of the constants; the assumptions are the `ASSUME`s
of the modules, which TLC evaluates in the runs:

- durations, sizes and retry counts are naturals, part and batch sizes positive, a
  buffer of the resumable upload is longer than a byte, the largest part of a Glacier
  archive is at least 2^3 megabytes (2^12 in the code: the loop of `minimum_part_size`
  starts there);
- sentinels (no connection, no part, no object, no etag, no key, nobody, ...) are none
  of what they stand beside;
- `Worker` is finite and not empty, `Key` a finite set of numbers;
- the tree of a file has at most `Levels` levels, any number of them.

What is proved, and along which argument:

- **MexeProofs**: `ExclusiveUse`, `SendsOnReadyConnection`, `NeverHandsOutStale`,
  `GoesToItsHost`, `FailureIsExplained`, `ReadInTimeIsReusedInTime` and, not among the
  runs' properties, `TypeOK`, `QueuesInTimeOrder`, `CleaningIsComplete`. The queue lemmas
  first say, position by position, what cleaning drops and what `get` rotates
  (`HostCleanShape`, `HostGetShape`). None of the invariants is inductive alone: that a
  queue is in time order needs the types, that a thread sends on a ready connection
  needs that no other thread and no queue has it, which needs that queues hold
  distinct connections, across queues too. `IInv` is the conjunction: `HasConnection`
  (a thread at the top of the loop has one), `PoolDistinct`, `PoolInOrder`,
  `ThreadsApart`, and that held and pooled connections are disjoint. `GoesToItsHost`,
  `FailureIsExplained` and `ReadInTimeIsReusedInTime` need each their own strengthening
  on top: `HostInv`; `ExplainedInv` (a redirect clears the response but does not end the
  loop, so whatever ends it has just left a response or an exception); and `IdleInv`
  (the pair of a pooled connection whose body was read in time is not younger than
  the connection's last traffic, through rotations too). The action properties follow
  from the invariants before the step.
- **ConcurrentTransfererProofs**: `TypeOK`, `WorkIsWaiting`, `AllSlotsFilled`,
  `QuietAfterJoin`. The invariant says that the work queue is always a suffix of
  what it was filled with (`QueueIsSuffix`), that each part handed out is in one place
  (`PartsAreApart`), and that the items left and the workers that have ended are together
  at least as many as the workers (`ItemsAreLeft`), which is why a worker finds
  something in the queue and why the broken handler for an empty one is dead code.
- **ConcurrentProofs**: the upload and the download are each the pool with something
  beside it (`UploaderIsPool`, `DownloaderIsPool`), so its invariant carries over; added
  to it are where the upload stands (`UploadStatus`), that done parts are stored
  (`DoneIsStored`), and that the file holds what main has received (`FileIsFaithful`).
  `CompletesWholeArchive`, `NoPartAfterEnd`, `ReceivedIsWritten` and `ReturnsTheArchive`
  follow. `UploadImplementsProtocol` is the refinement, action by action, for any
  number of parts, none included: an upload without parts, whose tree hash is an
  error, is left open and never completed. The theorems are about `UploaderSpec` and
  `DownloaderSpec`; a behaviour of the `transfers` run is one of the first or one of the
  second, with the other's variables fixed.
- **GlacierProofs**: `ClosedIsWhole`, `ResumedIsWhole`, `ResumeIsAccepted`. `WriterInv`
  accounts for every byte: all that was taken from the buffer is uploaded, part by
  part, and nothing is in the buffer when the program says so (`AllUploaded`), or the
  last part was lost in a `close()` that raised, and then its hash is in the list but
  its size is not in the count, so that no completion is accepted any more
  (`LastLost`). `ResumeInv` says that a resumption holds the hashes of the file's first
  parts, and that only the last of them may have a wide character, since a part with
  one is longer than the service takes. `TransferFits`, and `FewEnoughParts`, under the
  exact division of Python 3 only: `part_size_2` refutes the second for Python 2.
  `PartsHashAsTheArchive`, for either division: a list of hashes is always a row of
  trees, each over a power of two of chunks but the last (`RowOf`); a turn of
  `tree_hash` makes it the row of twice that width (`NewHashesOfRow`), so the turns end
  with the tree over all (`TreeHashOfRow`), of a part and of the archive, because the
  part size is a power of two megabytes (`PartSizeIsPower`). The recursive functions
  `Turns` and `Trees` are shown to exist first (`TurnsAre`, `TreesAre`), by a lemma of
  induction over a set of numbers (`Inductive`). `HashInv` is the invariant.
- **ResumableUploadProofs**: `ReturnsTheFile`, `GoodObjectIsKept`. `UploadInv` rests on
  what the code does not say: `server_has_bytes` stays 0, so no attempt is found to
  have made progress and every one restarts the digest (`LocalsInv`); with what is
  left of the file the digest is that of the file whenever the handler's own count
  of bytes comes out (`DigestInv`); and an object that differs from what was uploaded
  was deleted because that was not the file (`ObjectInv`).
- **ResumableDownloadProofs**: `ReturnsOneVersion`, for any replacements, an earlier
  version's return included. `DownloadInv` says that the file is a part of one version,
  the one the tracker file names unless the file is `misnamed` (`PartOfTracked` in
  `FileInv`: the object was replaced between the save of the etag and the first
  request, and such a file is spoilt as soon as it is resumed), that a response that is
  kept from an attempt has ended (`ResponseInv`), and that a body goes on where the file
  ends (`BodyInv`).
- **TableProofs**: `NothingIsLost`, by `BatchInv`: what was asked for is applied, or in one
  of the three buffers, unless a request raised while the block was left
  (`NothingIsDropped`), and a block that is left has empty buffers (`LeftIsEmpty`), although
  a flush that raised leaves them over-full. `StaleOnlyIfSentBack`, by `OrderInv` on top:
  the buffers hold the last writes (`BufferedLast`); of two of one key there the later has
  not been applied, since the service refuses every request with both (`BufferedApart`); and
  the last write of a key that was applied is in the table unless an earlier one was sent
  back (`LastIsInTable`). `ScanReturnsFirst`, `BatchReturnsRest` and `CountIsExactOrZero`,
  by `ReadInv`: what a scan has returned and what is left of its page are what the service
  has evaluated, and the limit has counted it (`ScanInv`); each key of a batch_get is
  returned, left in the page, left to be asked for, dropped or of a request that raised
  (`BatchGetInv`); the count is that of the pages so far (`CountInv`).
- **ClientsProofs**: the ten invariants and action properties of `clients`, and the
  types of all seven components. `StepsOfParts` reduces a step of `Clients` to a step of
  one part, so each part has its own invariant: `WorkIsDone` (what the steps before
  have done for a server's message); `SequenceGrows` (a client has seen a value before
  it puts one, and the stored value only grows); `ItemInv`; `ListedInOrder` and
  `NothingIsSkipped` (requested, batch, page and unlisted keys follow each other in the
  order of names; a key that was there all the time is in one of them);
  `SendsFromTheStart`; `OneSetAtATime` (threads that assign assign the same set, and the
  expiry is never newer than the rest); `ChainKept` (a new message is in the queue
  before its id is saved, and no other poller has it); `OneAtATime` (the poller that
  runs the command holds the message of the task, and a command that was executed is
  in the item or about to be saved).

Only model-checked: liveness (`CallEnds`, `ThreadsEnd`, `SendFileEnds`, `GetFileEnds`,
`NextReturns`), which is out of the prover's reach. The counterexamples of section 5
are of TLC too.

## 5. What the code does otherwise than it says

Four disagreements with a doc are runs:

- `part_size_2`: Python 2 rounds `size_in_bytes / 10000` down, and a file one byte past
  a limit gets 10,001 parts.
- `batch_get_dropped`: `BatchGetResultSet.fetch_more` returns when a page has no results
  before it puts the page's unprocessed keys back (`results.py:188-189`), so a
  batch_get ends without asking for them again.
- `download_pipe`: the handler of a broken pipe calls `key.get_file` with the caller's
  headers, without the Range (`resumable_download_handler.py:297-302`), and the whole
  object is written after what the file has. In the trace a file of one byte of two
  is resumed, the pipe breaks, the first byte is written once more and the process
  ends there; the next one finds a file of two bytes, of the tracked etag, complete.
- `daily_task`: `Task.check` waits for the distance of the hours of the day. At 22 a
  task of hour 3 would wait 19 hours, more than a message may be hidden for, and
  `poll` catches no error: the poller ends.

The others were met while the modules were written. They are left out of the
properties by name, or shown by the modules' comments:

- *Pool.* A redirect's connection is taken by the scheme of its location
  (`connection.py:999-1001`) and returned, and replaced on errors, by `self.is_secure`: a
  plain connection may sit in the queue of a secure remote, although a pool is "for
  one remote (host,port,is_secure)" (`connection.py:99`). `get()` gives every
  connection it passes over the current time (`connection.py:157`), so one whose body
  nobody reads stays young, and is offered after any idle time, against
  `connection.py:221-222`; `ReadInTimeIsReusedInTime` shows that this is the only way.
- *Glacier.* `_insert_tree_hash` extends its list only for the next index, so parts cannot
  be uploaded "in any order" (`writer.py:85`), and the test for a missing part in `close`
  cannot fire; `Writer` and resumptions go up one by one and never meet it. A program that
  goes on writing after a `write()` that raised may complete an archive without the part
  that was lost (`writer.py:68-75`); `ClosedIsWhole` leaves that use out. An empty file is
  initiated as a multipart upload, and the tree hash of no parts then is an IndexError
  (`utils.py:107`): the upload stays open. With a default below 4 MB the part size chosen is
  not always the smallest (`utils.py:64`).
- *Resumable upload.* `if server_end:` (line 428) is false when the service has exactly one
  byte: the whole file is then sent at offset 1, and the good object of a file of one byte
  is deleted as wrong. `fp` is not rewound after a failed attempt (the condition of line 471
  is the wrong way round), which shows as "File changed during upload" for a file that has
  not changed. `server_has_bytes` is set to the start of the range, always 0 (line 426), so
  the retry count is never reset by progress, against lines 78-80: with `num_retries` of 1
  two attempts that each leave a byte more with the service end the process. `SendFileEnds`
  says only that it ends. The tracker file is written without truncation, so that a shorter
  URI leaves the tail of the longer; it is removed before the md5 is checked; and an
  exception of the second query turns an ABORT into a retry.
- *Resumable download.* Five ways to a file of two versions, or with a hole (`spoilt`):
  a crash between the save of the tracker file and `truncate` (`crash`); an object
  replaced before the Range request, which names no etag (`replaced`); an object
  replaced between the save of the etag and the first request, whose bytes are then
  kept under the etag of the version before, and that version restored later, for
  the etag is all that is compared (`restored`, line 184); a broken pipe (`pipe`); and
  `truncate(0)`, which leaves the position of the file where it was (`position`).
- *Key.* The digesters are not reset between attempts, and a `Key` that is used again
  for a stream keeps its old md5: "ETag from S3 did not match" is raised although
  the object is right. `SendsTheWhole` is about the object.
- *Batches.* A flush that raised leaves the buffer full, `should_flush` (`== 25`) does
  not fire again, and the requests that follow are refused for their size: the block
  ends with an exception. An unprocessed write is sent again after later writes of
  its key (`StaleOnlyIfSentBack`). `query_count` stops at a page that brings the
  count to less than one (`table.py:1306`): if the first page has no match the answer is
  0, not "the exact amount of matched items" (`table.py:1242-1243`). The keys of a
  batch_get call that raised are lost to the iterator.
- *Items.* `save` drops fields others have added that the object does not know, against
  `items.py:419-422`; once a field was saved as None every later save of it raises,
  because `mark_clean` remembers a value that was never stored (`items.py:198`), which
  `InStep` takes for the same as none;
  `partial_save` of an item that was deleted makes one with the changed fields only;
  and a conditional put that is retried after a lost answer fails by its own write.
- *Sequences.* `next()` returns what it reads last, so two calls may return one value (each
  has put its own: `TakenOnce`). After a deletion the first `next()` of an object that knows
  no value puts 0, whatever `init_val` was (`sequence.py:83`). The put of `__init__` has no
  condition, so that two clients that make a sequence may reset it.
- *Credentials.* A signature reads three attributes one by one and may mix two sets, one that
  falls between the assignments of a refresh too; two refreshes that overlap may leave
  a mixture. `HeldIsOneSet` is about the time between refreshes.
- *Tasks.* A poller may take the message before `start` has saved its id; messages
  that are found to be extraneous are never deleted; an hourly task looks at
  `delta.seconds`, which leaves out days.
- *DynamoDB.* With `num_retries` of 1 an expired session is never counted
  (`dynamodb/layer1.py:150`).

## 6. What is abstracted or not modelled

*Within the modelled parts.* Proxies, request hooks, signing, the App Engine case of
`_conn_ready`, pickling and `close()` of a connection; wording, logging and progress
messages. Hashes are free of collisions. Request bodies and answers are what the
branches of the code tell apart. The times of one critical section are one reading
of the clock. The services are marked external: the Glacier of the writer refuses
parts longer than the part size and completions whose size or hash differ from
what it holds; the upload service keeps any prefix of the bytes that reach it; S3
lists in the order of names; DynamoDB evaluates a conditional write in one step; SQS
hides a message for its reader until a timeout; requests that raised may have been
carried out. In `resume_file_upload` a file that cannot be encoded (`writer.py:167`) is a
resumption that raises.

Of keys and buckets, ACLs, metadata, versions, copies and multipart uploads are left
out, which are single requests; of tables, schema operations, key conditions and
encodings; of sequences, the generators other than `increment_by_one`, which change
the next value only; of the provider, where the first credentials come from; of
services, result processors and submitters.

*Not modelled.* Most of the repository's lines are methods of service bindings (EC2,
RDS, Redshift, OpsWorks, IAM, Glacier's and DynamoDB's `layer1`, simple workflow,
MWS, ...): each puts its arguments into a dictionary, makes one request and parses
one answer. Their control is `_mexe`'s, which is modelled once; a model of each would
restate its assignments. Request signing, header and XML formatting, endpoints and
configuration are conversions of strings within one request. The object mapping over
SimpleDB translates classes to queries. Certificate validation is one check per
connection over the `ssl` library. `pyami`, `manage` (but for tasks) and the command line
tools are scripts around the library: shell commands, files, prompts.

What could still be added: the Glacier writer and the resumable upload as
implementations of an abstract upload, as the concurrent uploader is of
`MultipartUpload`, proved over `WriterInv` and `UploadInv`.
