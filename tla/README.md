# A TLA+ model of bolt-cpp

bolt-cpp is a C++ port, under way, of the embedded key/value store boltdb: one file of
pages, a B+tree of nodes, any number of concurrent read transactions and one write
transaction. Much of it is a stub. This directory models the parts that are written, checks
them with TLC on small instances, and proves the main safety properties with TLAPS for every
value of the constants.

Paths below are relative to `src/bolt/` unless they say otherwise.

## The system

| Part | State | Operations | Interacts with |
|---|---|---|---|
| Opening, `DB::DB`, `DB::flock` (`db.cpp:26-106`, `254-272`) | `read_only_`, `opened_`, the descriptor and its advisory lock | constructor, `flock`, `close` | other DB objects, in this process and in others, through the file lock |
| Transactions, `DB::begin`, `DB::update`, `Tx` (`db.cpp:161-245`, `tx.cpp`) | `rwlock_`, `metalock_`, `mmaplock_`, `statlock_`, `rwtx_`, `txs_`, `stats_`; per Tx `db_`, `writable_`, `meta_` | `begin_tx`, `begin_rwtx`, `update`, `commit`, `rollback`, `close` | threads through the locks; the freelist through `release` |
| Freelist (`freelist.cpp`) | `ids`, `pending`, `cache` | `read`, `reindex`, `release`; the rest are stubs | called by the constructor and by `begin_rwtx`, under `metalock_` |
| Node and page (`node.cpp`, `page.cpp`) | `inodes`, `key_`, `isLeaf_`, `unbalanced_`; the bytes of a page | `get`, `put`, `del`, `size`, `write`, `read` | slices of a node point into the page it was read from |
| Cursor (`cursor.cpp`) | `stack_` | `first`, `last`, `next`, `prev`, `seek`, `deleteCurrent` | reads nodes and pages through `Bucket::page_node` |
| Page pool (`page_pool.cpp`) | `pages_`, its mutex | `get`, `put` | threads |
| Bucket (`bucket.cpp`) | root, node cache | `page_node`; the rest are stubs | |
| Meta page (`meta.cpp`) | the fields of `Meta` | `validate`, `write`, `sum64` | two slots of the file, by transaction id; written by nobody yet |
| Slice (`slice.cpp`, `slice.h`) | a pointer and a size | views, comparisons, hex form | everything that searches uses its order |
| Stats (`stats.h`) | counters | sums and differences | `close` merges the counters of a writer into those of the DB |

What is hard here: threads in `begin` and `close` at the same time; Meta objects that are read
after they are deleted; ids that wrap at zero; processes that die or wait while they hold the
file lock; loops over leaves that may be empty; positions relative to page elements;
memory that is read uninitialised; exceptions that leave locks locked; a crash while a meta page
is half written. `PROJECT.json` lists each hazard at its line with the
properties that would catch it.

What makes each part correct:

* transactions: one writer; a release never reaches the snapshot of an open reader; readers
  never wait for writers; a writer gets its turn;
* freelist: a page is free once; a page becomes free exactly when the transaction that freed
  it is released; the cache agrees;
* node: a map from keys to values that survives being written to a page and read back;
* cursor: the stack is a path of the tree; a scan visits every key in order; every call ends;
* opening: exclusive means exclusive, shared does not wait, an object with a timeout does not
  try for ever;
* page pool: a buffer has one owner and is never lost;
* transactions with freelist and statistics: no page of an open reader becomes available, a
  writer finds exact lists, no writer's counts are lost;
* meta page: what is accepted was written as a whole; the last Meta survives a crash;
* slice: one order in all comparisons; a view stays inside its bytes.

## The modules

| Module | What it is |
|---|---|
| `TxContract` | abstract: what `begin` and `rollback` promise, without locks |
| `BoltTx` | the transactions, one step per access to shared state; `INSTANCE`s `TxContract` |
| `FreeList`, `FreeListProofs` | the freelist, its theorems |
| `BoltDb` | composes `BoltTx` (by `EXTENDS`) and `FreeList` (by `INSTANCE`), and adds the statistics |
| `BoltDbProofs` | the theorems of `BoltTx`, then those of `BoltDb`; `INSTANCE`s `FreeListProofs` |
| `NodeMap` | abstract: a finite map that can be saved and loaded |
| `Node`, `NodeProofs` | a node and its pages, its theorems; `INSTANCE`s `NodeMap` |
| `Cursor`, `CursorProofs` | the cursor over a tree that only its own deletes change, its theorems |
| `DbOpen`, `DbOpenProofs` | the constructor up to the end of `flock`, its theorems |
| `PagePool`, `PagePoolProofs` | the page pool, its theorems |
| `MetaPage`, `MetaPageProofs` | the two meta pages, crashes and restarts, its theorems |
| `Slice`, `SliceProofs` | views of bytes, their order and their hex form, its theorems |
| `MC...` | instances for TLC: symmetry sets, trees, pages |

A definition with a suffix, such as `LockWriter_Unguarded`, is a seeded fault: it replaces
the definition it is named after in one run, in which the property it belongs to must fail. It
is part of no specification.

### BoltTx

A step is the code between two accesses to state that threads share; `pc[t]` says where thread
`t` is (`r_...` in `begin_tx`, `w_...` in `begin_rwtx`, `c_...` in `close`, `fn` inside the
function given to `update`, `have` with a Tx in hand). `statlock_` is held for single steps
only and has no variable. What the code leaves open is a choice in the model:

* `read_only_` and `stats_` are uninitialised: `read_only` starts as either value, `open_tx_n`
  as any member of `Garbage`, and `tx_n` counts from whatever it was;
* `txs_.size()` in `begin_tx` races with `push_back`: it may return any member of `Garbage`;
* `begin_rwtx` reads the `Meta` of readers that are closed and whose `Meta` is deleted: any
  transaction id may come out. The scan reads the id twice, for the comparison and for the
  assignment (`db.cpp:230-231`), and the two may differ, so that a deleted `Meta` can raise the minimum
  as well as lower it (`Lowered`). What saves the open readers is that `DB::meta` returns a new
  `Meta`: the id of every reader is 0, and a minimum of 0 is not replaced any more;
* the constructor of `Tx` dereferences the null `root` of the `Meta` that `DB::meta` returns:
  the process dies (`NullRootTrap`), or goes on with an arbitrary root bucket;
* `assert(!managed_)` reads an uninitialised flag and may fail (`ManagedAssert`).

`operator new` may throw in `begin_tx` (for the Tx or for the room in `txs_`), in `begin_rwtx`
and inside `release`. A mutex locked by hand stays locked then, and one in a `lock_guard`
does not: `BeginTxThrows` leaves `metalock_` and a shared hold of `mmaplock_` behind,
`BeginRWTxThrows` and `ReleaseThrows` leave `rwlock_`. `readThrew` and `writeThrew` remember it;
the properties say who can still run.

The model starts from a DB whose constructor has come to its end. As the code stands it does
not (see `DbOpen`); BoltTx is about the locking protocol that the rest of the code relies
on once it does. `TxIds` bounds the number of transactions and `TxidMax` stands for the largest
`txid_t`.

### FreeList

`release` is its loop: one step per transaction that is moved, then the merge. `free`, which
would fill `pending`, is a stub, but the struct is public; `Pendings` is what the field may
hold. `std::inplace_merge` on a range that is not sorted is some arrangement of its elements.
`CountMax` stands for 0xFFFF.

### BoltDb

The steps of `BoltTx` with the shared state they touch besides the locks. `ReleasePending`, one
step in `BoltTx`, becomes the steps of `release`: the call, one step per entry of `pending`,
the merge. `ReleaseAborts` is the exception in between, which drops the local vector
`m`. `pending` is given at the start and holds pages freed by transactions on both sides of what
a release may reach, as `free` is a stub. `statlock_` has a variable here, because adding
to the totals is a read and a write. Each counter of `TxStats` is treated alike and one stands for
all; what a Tx adds is any member of `Garbage`, as nothing initialises its counters. The
properties of `BoltTx` that name no freelist are inherited through `EXTENDS`.

### Node

A slice is its rank in the order of `Slice::compare`, and the rank is its length, so that the
layout of a page is arithmetic on ranks. A page keeps its elements and its data by
offset; reading goes through the positions the elements store. `exited` says that
`std::exit` has been called. Three obligations are the callers' and stand in `Next`: the new key of a
`put` takes the place of the old one in the order (`Fits`), a node is not written to a page
that its own slices point into, and a node is read from a page that has been written. The exit of
`put` for a null `Meta` (`node.cpp:98`) is left out: the transaction of a node has a `Meta` until
it is closed.

### Cursor

`tree[id]` is what `Bucket::page_node` returns. `CursorAssumption` says which trees a bucket may
have: every page is sorted (`PageOK`), the keys of a branch separate the keys under its children
and every key is in one leaf under the root (`SearchTree`); leaves may be empty, and the levels
may differ. TLC evaluates it on the trees of the instance. Each turn of a loop is a step. On a page, as
opposed to a node, the searches compare with keys that are computed relative to copies of the
elements, so their outcome is arbitrary; the scans do not depend on it. `reached` is the key
the cursor is on, which the callers cannot see when `seek` hides it. `deleteCurrent` passes the
assert of `node()` on stacks of more than nine refs only, so `Delete` happens in the trees of
ten levels; on a page at the top, `node()` goes through null pointers (`DeleteAborts`). The index
stays when a key is deleted, so the cursor is at the key that followed, which the next call of
`next` skips, or behind the end of the leaf. Three exits are out of reach and left out: a page that is
neither branch nor leaf (`cursor.cpp:241-244`), as the pages of a bucket are; the inline bucket
(`bucket.cpp:25-29`), as the model is of a bucket with pages of its own; and the empty key of `Node::del`
(`node.cpp:135-138`), as `put` rejects empty keys.

### DbOpen

A DB object is an open file description, and objects of one process conflict with each other as
they do under flock(2). `CallFails` is a call that fails with an error other than
`EWOULDBLOCK` (`EINTR`, `ENOLCK`, ...), whether the lock is free or not; `EWOULDBLOCK` itself
cannot occur as `LOCK_NB` is not given. A tick of the clock is the 50 ms sleep. The difference of the
code, now minus the start of `flock`, grows without bound; only its comparison with `Timeout` is
ever used, so `Passed` does not count past the point where that is decided. `close` is a
no-op because `opened_` is false.

### PagePool

`get` reads the popped element through a reference after `pop_back`. The vector is modelled as
storage and length so that this read is visible: it is right because the `lock_guard` outlives
it. Any allocation may fail: `GetThrows` is an exception of `new_page_`, `PutThrows` one of
`push_back`, and after it the caller still has its buffer. The capacity of the vector is not
modelled, so a `push_back` that needs no room may throw as well. Nothing in the repository calls
the pool; the threads of the model put back what they own, as `page_pool.h:13` asks.

### MetaPage

`write` and `validate` are the code's; the file around them is external, as `Tx::write_meta` is
a stub. A page reaches its slot field by field in the order of memory, a crash stops it anywhere,
and a restart takes the accepted slot with the larger id. `sum64` is the tuple of the fields it
covers, that is, fnv-1a is taken to have no collision and no sum of zero; zero is
the empty tuple, which `validate` does not compare. `page_size`, `flags` and the address `root` go
with `version`. The page id behind `root` is a variable, `rootpg`, and is arbitrary after a
restart. The first state is a file of zeros or one with the two Metas that `DB::init` means to
write. `whole` is history: the Metas `write` has sent to a slot whose checksum the slot may hold.

### Slice

Two views, one of which is changed by `clear`, `remove_prefix` and `remove_suffix`; in every state
the operators for `compare`, `==`, `<`, `starts_with`, `ends_with`, `difference_offset`, `ToString(true)`
and `DecodeHex` are compared with reference definitions (the lexicographic order, the prefix and
suffix relations, the set of hex strings). `memcmp` compares unsigned bytes, `fromHex` gets a
signed char. The other modules use ranks in place of keys; this one is why they may.

## The runs

Passing runs:

| Run | Instance | Shows |
|---|---|---|
| `tx_safety` | 3 threads, 4 transactions, ids 0..2, symmetric | `OneWriter`, `StatsSettle`, `ReadersPinned`, `LockDiscipline`, `ReleaseSparesReaders`, and `ImplementsContract`: BoltTx refines TxContract |
| `db` | 2 threads, 3 transactions, pages freed by transactions 0, 1 and 2 | `PagesOfReadersStay`, `WriterSeesExactLists`, `TotalsAddUp`; `ReadersNeverBlock` and `WritersTakeTurns`, stated in `BoltTx` |
| `freelist` | 6 pages, up to 3 freeing transactions with none, one or two pages in or out of order, normal and overflowing freelist pages | `CacheExact`, `NoPageTwice`, `ReleaseExact` |
| `node_map` | 3 keys, 2 pages, overflow above 2 inodes, one id below and one at the high water mark | `KeysSorted`, `LayoutTight`, `ImplementsMap` |
| `cursor_scan` | 1 to 3 levels, up to 4 leaves of 0 to 2 keys, and 10 levels with two leaves of up to 3 keys; nodes and pages | `StackIsPath`, `ScanIsSorted`, `SeekPositions`, `CallsReturn` |
| `open_lock` | 3 objects in 2 processes, timeouts 0, 1 and 2 ticks, every choice of ReadOnly | `HolderExcludes`, `SharedDoNotWait`, `TimedWaitEnds` |
| `pool` | 2 threads, 3 buffers, any allocation may fail | `NoSliceTwice`, `NoSliceLost`, `PoolIsReleased` |
| `meta` | transaction ids up to 4, page ids below and at the high water mark, a crash after every field | `AcceptedIsWhole`, `LastMetaSurvives` |
| `slice` | all strings of up to 2 bytes out of 12, which lie on both sides of every boundary of the hex digits and at both ends of a byte | `ViewInside`, `OneOrder`, `PrefixesAgree`, `HexRoundTrip` |

The bounds are where the cases appear: two writers and an open and a closed reader at once need
three threads or four transactions; three pending transactions give a first, a middle and a
last one; two pages let a node be read from one and written to the other; three leaves give an empty one in every place; and an overflow needs one more
than `CountMax`. `TxidMax = 2` separates the minimum of the readers (0), an id between and the
initial value of `minid`. In `db` a release that reaches two of the three freeing transactions can
throw between them, and two threads with three transactions let a writer begin while another is
still closing. Four ids in `meta` overwrite each slot twice with a restart in between. Strings of
two bytes have every relation that the comparisons tell apart: equal, prefix, a difference in the
first or in the last byte.

Runs that find a violation show where the code and a statement of the repository disagree
(the statements are quoted in `PROJECT.json`):

| Run | The code |
|---|---|
| `freelist_sorted` | `release` merges a half that is not sorted, and leaves `ids` unsorted |
| `open_writers` | `read_only_` is uninitialised: writers may share the lock |
| `open_returns` | `flock` does not return once it has the lock |

These need several steps. Others are visible in a single action of the models, and no run is
spent on them:

* `commit` leaves the transaction open and the writer lock locked, though `test/test_tx.cpp:14`
  expects a second `commit` to throw; `update` neither commits nor rolls back (`db.h:69-70`);
* `remove_tx` is empty: closed readers stay in `txs_` (`db.cpp:189` says "until it closes"), where
  `begin_rwtx` reads their deleted `Meta`; `open_tx_n` counts them (`stats.h:85` says "currently open"),
  and the shared hold of `mmaplock_` outlives its reader (`db.cpp:174-176`);
* `prev` calls `last` and goes to the end of the bucket
  (`cursor.cpp:79`, against `cursor.h:48`);
* an exception in `begin` leaves `metalock_` or `rwlock_` locked for good (`db.cpp:172`, `211`);
* `Meta` stores the address of its root bucket and not its page id (`meta.h:35`), and a first write
  that is torn before the checksum is accepted (`meta.cpp:16`);
* `Slice(parts, buf)` appends to what `buf` holds and refers to all of it (`slice.cpp:11-14`);
* the test of `opened_` is inverted and nothing sets it (`db.cpp:179-180`, `217-218`);
* `FreeList::read` starts the ids of an overflowing page behind the count but ends them where they
  would end without it: the last id is lost (`freelist.cpp:35`);
* `Node::write` exits for every branch whose children are on other pages, and accepts only the
  circular one (`node.cpp:182`); `Node::read` of a branch page fills an inode that shadows
  the one it tests and keeps (`node.cpp:212`);
* `Cursor::last` stops on an empty last leaf (`cursor.cpp:88`); `seek` returns nothing when it
  has found a key (`cursor.cpp:213`); `next` leaves the last element for an empty leaf
  (`cursor.cpp:192`, against `cursor.h:79`); `deleteCurrent` fails an assert on every stack of up
  to nine refs (`cursor.cpp:336`);
* a timeout is thrown although `::flock` has succeeded, and the lock is leaked
  (`db.cpp:261-262`); a blocking `::flock` outlasts the timeout (`db.cpp:266`; `db.h:27` says
  "Timeout is the amount of time to wait to obtain a file lock").

Three passing properties are about lines in this list, and do not ask for the fault: a program with
the fault corrected would satisfy them too. `StatsSettle` asks that `tx_n` is the number of readers that were started and that `open_tx_n` is at least the number of
open ones; `ReadersPinned` asks for a hold of `mmaplock_` for each open reader, so that a
remap waits for them, and leaves room for the holds that the code fails to give back; `TimedWaitEnds` is
satisfied by an object that gets the lock.

### Fairness

* `db`: weak fairness of each thread's steps inside a call, of the end of the
  function given to `update`, and of a rollback by whoever has a Tx in hand: the scheduler runs
  every thread, a mutex that stays free is granted, and callers end their transactions.
  Beginning, committing, dropping and exceptions are not fair. `WritersTakeTurns` holds with weak fairness
  in the instance because each thread begins finitely often; `std::mutex` promises no more.
* `cursor_scan`: a call that has started goes on.
* `open_lock`, `open_returns`: the clock runs, a constructor that has started goes on, and the
  kernel grants a lock that stays free. No process has to exit and no call has to fail.
* `pool`: a thread inside `get` or `put` goes on.

## The proofs

All theorems hold for every set of threads, transactions, pages, buffers, trees or strings that
satisfies the `ASSUME` of its module. Every safety property that a passing run checks, but for
those under *Only model-checked*, is stated by one of them. Each inductive invariant is a conjunction of
named parts, which its module comments one by one.

**BoltDbProofs, first part: BoltTx.** The inductive invariant is `IInv == TypeOK /\ LockDiscipline`, and
`LockDiscipline` has four parts: `CurInv` (which Tx each place works on, and that no two
threads work on the same), `LockInv` (which place holds `metalock_` and `rwlock_`, or which call left them locked with an
exception), `RwtxInv`
(`rwtx_` from the constructor of the writer to its close) and `ReaderInv` (an open reader is in
`txs_`, or is in `push_back` with `metalock_` held; its id is the one of `DB::meta`; the minimum that
the writer has computed is not above any open reader while it holds `metalock_`). `OneWriter` alone is not inductive:
that `rwtx_` is free when a writer constructs its Tx follows from who holds `rwlock_`. From
`IInv`:

* `TypeCorrect`, `LocksHeld`, `SingleWriter`;
* `ReadersSpared`, the action property `ReleaseSparesReaders`: whatever a deleted `Meta` reads
  as, a scan that meets an open reader ends with a minimum of zero, because that is the reader's
  id and zero is not left again (`ScanStopsAtZero`);
* `RefinesContract`: the initial states map to initial states and every step to a step of
  `TxContract` or to a stutter;
* with the counting invariants `CountInv`, `RegisteredInv` and `StartedInv`, which say what the counters and
  `mmaplock_` are in terms of `txs_`, that `txs_` names no reader twice, and that the started readers are those in
  `txs_` and the one in `push_back`: `StatsAgree`, `PinsHold`.

**BoltDbProofs, second part: BoltDb.** `ImplementsBoltTx` shows that every behaviour of the composition is one
of BoltTx, so that all of the above holds in it. `DbInv` adds `ReleaseOwned` (a `release` under way
belongs to a thread in `begin_rwtx`, and its argument is one below that thread's minimum) and
`ListsKept \/ Stranded`: the lists satisfy the invariant of FreeListProofs, or a `release` has thrown,
`rwlock_` is locked and no thread is where it is held, for good. The disjunction is what makes it
inductive: after the exception the lists are wrong, and the leaked lock is what hides them.

* `WritersSeeExactLists`: whoever holds the writer lock is not in the second case;
* `ReadersKeepTheirPages`, the action property `PagesOfReadersStay`: what a step moves to `ids` was freed
  by a transaction up to the argument of the release (`MovedOld`), and that argument is below every
  open reader (`ReaderInv`);
* `StatsAddUp`: `StatInv` says that the totals are the sum over the closed writers and that
  whoever has `statlock_` has read the current totals. The sum is a fold over a finite set in an order
  that `CHOOSE` picks; `SumIs` and `SumAdd` show that the order does not matter and what one more writer adds.

**FreeListProofs.** `FInv` adds to the properties where the pages of every transaction are:
still in `pending`, in the local vector `m`, or in `ids`, by the argument of the release under
way. From it `PagesFreeOnce`, `CacheStaysExact`, `ReleasesExactly` and
`FreeListTypes`. The lemmas state what a
concatenation and a rearrangement keep. The assumption `DistinctPages` says that a page is
named free once when the list is read.

**PagePoolProofs.** `PoolInv` adds `InsideHoldsMutex`: a thread inside holds the mutex, and
the popped element is right behind the vector. `TypeOK` needs `NoSliceTwice` in turn: a put
finds room because the slices in the pool are distinct and differ from the one being put
(`RoomForPut`, by counting). From it `SlicesAreUnique`, `SlicesAreKept` and `PoolTypes`.

**DbOpenProofs.** `OpenInv` adds `HeldIsFlag` to the properties: a lock that is held is the one that the
object asks for, because `read_only_` is not assigned while `flock` runs. From it `OpenTypes` and
`ExclusiveExcludes`.

**MetaPageProofs.** `MetaInv` says what a slot may hold. A checksum in a slot that is not zero is that of a
Meta sent to this slot as a whole, and not a newer one than the Meta the database stands at unless the
last page has arrived completely (`ChecksumKnown`); a slot whose checksum is zero is not newer either, unless
every field before the checksum has arrived (`ZeroSumOld`); the Meta the database stands at
is in its slot, whole, while the other slot is written (`SealedBase`). From it `AcceptedMetaIsWhole`,
`StoredMetaSurvives` and `MetaTypes`. It rests on the reading of `sum64` as the tuple of what it covers.

**NodeProofs.** `NodeInv` says of every page what it holds: that its elements point at the keys and
values of the map that was on the node when it was written, and that they are laid out without gaps
(`PagesHold`). The position of an element is a sum over the elements before it (`DataBefore`, a recursive
function), which `DataGrows` shows to be increasing, so that no two elements share an offset. From it
`NodeTypes`, `InodesStaySorted`, `WrittenPagesAreTight`, and `NodeIsAMap`: each action of Node
is an action of NodeMap on the abstraction of the inodes. `lower_bound`, `InsertAt` and
`RemoveAt` have lemmas that say what they do to a sorted sequence.

**CursorProofs.** `CursorInv` is about the path: the tree stays one of sorted pages, every index of a
branch points at a child, and each loop of the code is entered with the top of the stack it needs. From it
`CursorTypes` and `StackStaysPath`. `ScanInv` is about the keys. For the function `u` that
gives the keys under each page, every page on the stack splits the other keys of the tree into
smaller ones and ones behind a ref above it (`Split`), and the keys behind the refs are, in each loop, those
from which the call has to return the least (`Position`). A delete changes `u`, which is why
it is quantified. From it the action properties `ScansAreSorted` and `SeeksPosition`, over trees of any
height with empty leaves anywhere.

**SliceProofs.** What the operators compute is shown for all sequences of bytes: two runs of bytes are
alike or have a first difference (`AlikeOrNot`), `memcmp` is zero or that difference, and the first
difference or the lengths decide the lexicographic order. The hex form goes by single digits
and by the two places of a byte. `ViewType`, which says that a view is a record inside its string, is
inductive. From it `ViewsStayInside`, `ComparisonsAgree`, `PrefixTestsAgree`, `HexInverse`.

The prover has no induction over data. Where a sum, a recursive function or a first index is needed,
the proofs take the least counterexample instead (`FirstNat`, `LeastNat`, `SmallestNat`, `LeastIndex`, from the
well-foundedness of the naturals).

Only model-checked: the liveness properties (`ReadersNeverBlock`, `WritersTakeTurns`, `CallsReturn`,
`SharedDoNotWait`, `TimedWaitEnds`, `PoolIsReleased`), which are outside of what the prover does.

## Not modelled

* `DB::init` and `mmap`: behind the loop of `flock`, and without a meaning where they would run.
  `init` reserves room in a string whose size stays zero, lays its pages out in it through
  `Page::meta()`, which follows a pointer that nothing has set, and then writes the string, that is
  nothing, to the file (`db.cpp:114-145`). The two Metas it means to write are the start of `MetaPage`.
* `close`, `munmap` and `funlock`: behind `opened_`, which nothing sets; `close` is the early return
  it is (`DbOpen`).
* Stubs: `FreeList::free`, `allocate`, `rollback`, `write`, `reload` and its counters; `Bucket` but for
  `page_node`; `Tx::write`, `write_meta`, `check`, `copy_file`; `split`, `spill` and `rebalance`
  of nodes. They change nothing, and where they are called the model says so.
* `Node::childAt`, `childIndex` and the siblings: reads, of which `childAt` ends in the stub
  `Bucket::node`. `Tx::page` and `Tx::size` are reads too.
* The sums and differences of `Stats` without a caller; the freelist counters that `close`
  publishes, whose values come from stubs.
* Exceptions out of `operator new` in `Node` and `Cursor`, which hold no lock.
* `bolt_unix.cpp` is commented out; files and hashing are in a library outside the repository.

## Plan

Done: BoltTx, FreeList, Node, Cursor, DbOpen and PagePool; exceptions in `begin`, the composition
BoltDb, MetaPage, Slice and the deletes of Cursor; the proofs of every safety property.

1. The safety halves of the liveness arguments as theorems: for `CallsReturn`, that the position of a cursor
   grows with every turn of `next_`; for `ReadersNeverBlock`, that a thread that holds `metalock_` is never one
   that waits for another lock.
2. When the allocator and `free` are written: pages that are pending by their writer, and a page
   that is reused with another type.
