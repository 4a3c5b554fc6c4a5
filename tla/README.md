# Verification of the openvela `external` glue code

This directory specifies, model-checks and proves the code that openvela itself
keeps in `external/`.  The repository is a tree of build recipes for third-party
projects (whose sources are submodules and not here) with a few hand-written
components in between.  Those components are small, run in several threads or
callbacks, own buffers, descriptors, queues and semaphores, and have almost no
tests.  The modules are translated from their code; the file that a definition
stands for, and its lines, are listed in `PROJECT.json` under `map`.

Contents: [inventory](#inventory), [modules and code](#modules-and-the-code-they-model),
[runs](#runs-bounds-and-what-they-show), [fairness](#fairness),
[proofs](#proofs), [disagreements found](#disagreements-between-code-and-comments),
[what is not modelled](#what-is-only-model-checked-and-what-is-not-modelled),
[plan](#plan).

## Inventory

### MTP responder, USB transport driver (`mtp-responder/mtp_usb_driver_nuttx.c`)

* State: three endpoint descriptors (`g_usb_ep_in`, `g_usb_ep_out`,
  `g_usb_ep_status`, -1 when closed), packet and queue sizes, two message
  queues (receive, transmit), the locals of a writer and a reader thread, the
  control event shared with the responder.
* Operations: init and deinit of the device, init and deinit of the queues, the
  writer thread, the reader thread with its error recovery (which closes and
  reopens the device under the writer), the drain of a queue.
* Interaction: the responder queues packets and receives packets, starts and
  cancels the threads; the kernel's endpoints answer reads and writes; the two
  threads share the descriptors without a lock.
* Hard: cancellation at any blocking call, partial writes, retries after errors,
  drains racing producers, descriptors closed and reopened (and their numbers
  reused) while another thread uses them, error paths that leave state behind.
* Correct when: the host reads the data in order, without gaps, packet by packet;
  no buffer is used or freed twice or forgotten; packets queued before a drain
  are gone after it; retries are bounded and cancellation always ends a thread;
  each descriptor variable names its endpoint, nothing is left open and files of
  other tasks are not touched; no queue is left behind, none of another program
  destroyed.

### Tizen shim of the MTP responder (`mtp-responder/mtp_port.c`)

Stateless stubs and a key-value interface (`vconf_*`) over the property service.
Correct when a value set is the value read afterwards, and errors are told from
values.  Hard: the boundary value `INT32_MAX`, sizes of strings, results that are
not looked at, keys that the getters answer themselves while the setters take them.

### EtherCAT shim (`ethercat/nuttx/`): Linux kernel interfaces on NuttX

| part | state | operations | hard | correct when |
|---|---|---|---|---|
| lists, `linux/list.h` | `next`/`prev` of heads and entries | add, add_tail, del, del_init, move_tail, the loops | order of pointer writes, a loop whose body unlinks | pointers implement sequences; loops visit what they should |
| wait queues, `linux/wait.h` | a counting semaphore | `wait_event*`, `wake_up_all`, `wake_up_interruptible` | test and wait are not atomic, signals, several wakers | who was waiting is woken; units do not pile up; loops end |
| threads, `linux/kthread.[ch]` | a `task_struct` per thread, `master->thread` | `kthread_run`, `kthread_stop`, `kthread_should_stop`, the trampoline | thread runs before its creator stored it, interrupted stop, memory recycled | a thread uses its own struct; stop returns, and when it does the thread is gone |
| character device, `ec_cdev.c` | registration, private context per open file, reservation of the master | init, clear, open, ioctl, close | files outlive the device, several files, failed registration | the reservation follows the one file that took it |
| network device, `ethercat.c` | one raw socket, link state | open, stop, start_xmit, poll | every socket call may fail, results unchecked | a failed open leaves nothing, an open device is usable; interface flags are set |
| socket buffers, `linux/skbuff.c` | pointers and length of a buffer | alloc, reserve, push, free | partial failure of alloc, uninitialised length | nothing leaks; length matches the pointers |
| locks, `linux/semaphore.h`, `rtmutex.h` | a semaphore, a mutex | `down`, `up`, ... | `down` is interruptible and its result ignored | one thread at a time in a section |

The master (IgH EtherCAT, a submodule) is the caller of all of these and is
external.  Other headers under `linux/` are empty or one-line wrappers.

### Smaller components

* `open1722/argp.c`: a sequential parser of command-line options; state is the
  index of the next word.  Hard: options without an argument swallow the next
  word, abbreviations match by prefix, help is looked for in between.  Correct
  when every word is the word of one option or the value of the one before.
* `benchtests/port/support/timespec.c`: a saturating subtraction of times, hard at
  the ends of `time_t`; it uses `benchtests/port/intprops.h`, macros that tell for
  any pair of integer types whether an operation overflows and must not overflow
  themselves.  The rest of `support/` is a test harness; `benchtests/port/string`
  has pure string functions.
* `libcamera/main.cpp`: a demo.  The camera's thread calls two completion
  callbacks, which count frames and queue the request again, while `main()` waits
  for the hundredth frame and then tears everything down.  Hard: cancelled and
  refused requests, errors with requests still in flight.
* `lcm/test/types`: message types generated by lcm-gen, in C and in C++: state is
  the fingerprint of a type, computed on first use without a lock, and the heap
  blocks of decoded messages.  Operations: encode, decode, size, copy, cleanup,
  publish, subscribe and the stub that receives.  Hard: two threads that compute
  the fingerprint, packets cut short, another type on the channel, empty arrays.
  Correct when only whole messages of the type are handed over, unchanged, and
  nothing is lost of the heap (which the code does not do in every case: see
  `LcmChannel` below).
* `libcamera` control tables (generated constants) and about 120 directories that
  only configure and build third-party sources.

## Modules and the code they model

Properties stand at the end of each module, each under a comment that states it.
Definitions whose comment begins with `fault:` are variants of the action below
them, with a plausible programming error in it; no specification uses them.
They are listed in `PROJECT.json` (`mutants`) with the property that each of
them violates: every checked property is shown to depend on the code.

### MTP

`MtpWriter` is `ffs_transport_thread_usb_write` and `__clean_up_msg_queue`, with
the responder that queues packets, reads the control event and cancels the
thread.  One action is one call that may block or fail, with the assignments up
to the next one; `pc` is the place in the loop (`rcv`, `bulk` = the test and the
`poll()`, `write`, `event`, `zlp`, `check` = the test at the end of the loop,
`drain` with the place it returns to in `ret`).  `mtype`, `buf`, `len`,
`written`, `status` are the locals; data is counted in chunks, and `wire`
records each `write()` that moved data as an extent of its packet.  `poll()` and
`write()` are the sets of their outcomes, among them partial and zero writes,
`ENOMEM`/`ECANCELED` (the branch that drains) and other errors.

The drain is entered in three ways, which differ in what a cancellation does to
it.  From the bulk branch it is a call in the loop.  From a cancellation it is the
cleanup handler, and a thread in its handlers is not cancelled again.  At the end of
the loop `pthread_cleanup_pop(1)` takes the handler off and calls it in a thread
that can still be cancelled: at its `_util_msgq_receive` the thread then ends with
packets left in the queue and its own buffer not freed (`LeaveCancelled`).  The
reader leaves its loop in the same way.

`MtpPipe` is what the transmit path promises: packets are taken in order,
a packet goes out completely before the next is taken, packets are given up
only while flushing, which the responder was told of before, and a flush leaves no packet
pending, unless the path has closed and the responder has asked it to stop
(`Abandon`).
`MtpWriter!Pipe` is the refinement mapping (`pending` is the queue, `left` is
`len - written` in the bulk branch, `out` the wire, `flushing` the drain).

`MtpReader` is `ffs_transport_thread_usb_read` and `__handle_usb_read_err`: one
buffer per round, read with every outcome, the retry loop (skip, recover, give
up), the close and reopen of the device as two steps that may be cancelled or
fail, `msgq_send` with every outcome, and the cleanup handler.

`MtpEndpoints` is `__io_init`, `ffs_transport_init_usb_device` and
`ffs_transport_deinit_usb_device`, one system call or assignment at a time, in a
descriptor table where `open()` returns the lowest free number and other tasks
open and close files.  `MtpTransport` extends it with those who run these
routines and use the descriptors: the responder (open, start threads, cancel,
join, close), the reader with its recovery, and the writer with the descriptor
it read when it started (`polled`, `fds[0].fd`) and the one it reads at each
write.  A call on a descriptor that refers to a file not meant for it is
recorded in `strays`.  The three MTP modules abstract each other: in `MtpWriter`
and `MtpReader` a descriptor is the set of outcomes, in `MtpTransport` a thread
is the calls it makes.

`MtpMq` is `ffs_transport_mq_init` and `ffs_transport_mq_deinit` with every
failing call, in a system where other programs create and destroy queues and
take over identifiers.

`VConf` is `vconf_get_int`, `vconf_set_int`, `vconf_get_str` and `vconf_set_str`
over the property service.  A string is memory up to a NUL, and what nobody wrote
holds anything: that is what makes the sizes matter.  Any key may be set, as either
type, also the five that the getters answer themselves (`IntFixed`, `StrFixed`);
what the service answers when a key is read as the other type is its own affair
(`AsInt`, `AsBytes`).

### EtherCAT

`EcList` has the pointer assignments of `list.h` over heads and entries, one
`list_for_each_entry_safe` whose body may add, unlink and move entries (with `due`
and `seen`, the entries the loop still owes a visit and those it has visited and
that have stayed linked), and
callers that add only unlinked entries and unlink only linked ones, which the
comments of the header require.  `EcDeque` is the abstract promise: a sequence
per head.  `Contents` walks the pointers and is the refinement mapping.

`EcWaitQueue` has a NuttX semaphore (a value, negative for its waiters) under
`__wait_event`, `wake_up_interruptible` and `wake_up_all`, with the test, the
wait, each reading of the value and each post as steps of their own.

`EcKthread` has the master's calls (`Allocate`, `Create`, `Store` for
`master->thread = kthread_run(...)`; `Stop`, `Wait`, `Free`, `Forget` for
`kthread_stop(master->thread); master->thread = NULL`) and the threads
(`Enter`, `ShouldStop`, `Post`), in recycled memory blocks.  What is read
through NULL or a freed struct can be anything.

`EcEtherDevice` is `ether_device_open`, one socket call at a time with its
results, and `ether_device_stop`.  `attached` and `bindRet` tell a socket that is
bound from one whose `psock_bind` failed with -EPERM, which the test `ret < -1` takes
for success; `succeeded` are the opens that returned 0.  `OpenAllOrNothing` says
what is left of "all or nothing": -EPERM is the only failure an open goes on after,
and each open that returned 0 leaves a socket that no stop closes.  `EcCdev` extends it with `/dev/EtherCAT`:
`ec_cdev_init`, which goes on to open the network device, `ec_cdev_clear`, and
open, ioctl and close of files with a context each.

`EcLocks` is a critical section of the master guarded by `down()`, by
`down_interruptible()` or by an `rt_mutex`.  `down()` is `nxsem_wait()`, which a
signal ends; its callers have no result to look at and go on.

### LCM

`LcmTypes` holds the eleven message types as tables: members in order, their
dimensions, and the fingerprint's constants, once as the C files and once as the
C++ classes have them.  `LcmCodec` is the generated code as operators over these
tables: `encode_array`, `encoded_size`, `decode_array` with the allocations it has
made when it fails, `decode_array_cleanup`, `clone_array`, `hash_recursive` with
the parents it passes on, each in the C and the C++ variant where they differ.
The generator has written the same loops for every type, and the model has them
once.  `LcmChannel` puts them on a channel: publishing threads, `X_get_hash` as
four steps on two unsynchronised variables whose stores may be seen in either
order, a network that loses, reorders and cuts packets, `X_handler_stub`, a user's
handler that copies, `X_destroy`, subscribe and unsubscribe.  Besides the thread that
handles messages the receiving program has any number of others that use the type
(`Users`, of which only the call of `X_get_hash` matters here), so that the race for
a fingerprint can happen on either side, or on both.  With two types and the race on
both sides the publisher sends a zero, the handler compares with a zero, and a packet
of another type is decoded: `HandedOver` names this as its only exception
(`Confused`), and `HeapBalanced` the blocks that such a decode may take before it
fails.  What the decoded message then holds is whatever the bytes give, which TLC
computes for the pairs of types in `Crossed`.  The coding functions
are parameters of `LcmChannel`, as the stub and the channel are written against
them whatever the type; `CodecRight` says what the channel needs of them.
`MCLcm` has messages and channels and gives the parameters the functions of
`LcmCodec`.

### Parts that share no state

`IntProps` is `intprops.h` in the form for compilers without overflow builtins.
A C value is its type, its number and whether its expression had defined
behaviour; the operators promote and convert like C's, for types of three widths.
`Timespec` is `timespec_sub` with every branch.  `Argp` is `argp_parse` with the
table of options and the command lines as constants; a call of the parser is
recorded with the word and the value.  `LibcameraDemo` is `main()` (each call
that may fail, the queueing of the requests, the wait, the stop) against the
camera's thread with `bufferComplete` and `requestComplete`.

`MCParts` checks `EcCdev`, `EcLocks`, `MtpMq`, `VConf`, `IntProps`, `Timespec`,
`Argp` and `LibcameraDemo` in one run: the first state chooses one of them, and
only that one takes steps.

## Runs, bounds and what they show

| run | instance | states | shows |
|---|---|---|---|
| `writer` | 3 packets, 0-2 chunks, queue of 2 | 200 990 | buffers owned, wire ordered, no stale packet after a drain, `MtpPipe` implemented; cancellation ends the thread; a reading host empties the queue |
| `reader` | 4 transfers, 2 retries, queue of 2 | 53 110 | buffers owned, packets accounted for in order, retries bounded; cancellation, and a device that stays closed, end the thread |
| `transport` | descriptors 3-7, 1 file of others, 2 retries | 343 760 | descriptors current, none left open, own files only (before a failed `__io_init`), the writer polls what it writes to |
| `transport_stale_init` | no others, 1 retry | violation | after a failed `__io_init`, init reports "Device Already open" on closed descriptors |
| `list` | 2 heads, 3 entries | 24 450 | rings, lists apart, the safe loop (no entry missed, none visited twice), `EcDeque` implemented |
| `kthread` | 3 threads in 2 blocks | 67 769 | own `task_struct`, nothing left after a stop, stop returns |
| `wait` | 2 waiters, 2 wakers, 2 calls each | 43 408 | units bounded, blocked waiters woken, both loops end |
| `lcm` | 11 types, 22 messages, 2 publishers, 1 more user | 1 919 735 | whole messages of the type handed over and, but for a race on both sides, no others, the generated functions right (`CodecAgrees`), refusals explained, heap balanced |
| `lcm_first_use` | the same | violation | a whole message is refused after two threads computed the fingerprint |
| `parts` | see below | 405 893 | the properties of the eight parts |
| `vconf_set_str` | strings up to 3, pointer of 2 | violation | a string that was set is not the one read |
| `ether_flags` | 2 files, 2 blocks | violation | the interface flags are never set |

`parts`: the character and network device with 3 files, 3 blocks and 2 opens; a
section with 3 tasks and 3 signals; message queues with 4 identifiers where
destroying an existing one succeeds; settings with strings of up to 3 characters, a pointer of 2
and keys the getters answer themselves among the others; integer types of 2, 3 and 4 bits (a short, an int and a long
type), signed and unsigned, every pair of operands, with every macro and every
type of the result; `time_t` of 3 bits, signed and unsigned, 3 nanoseconds in a
second; all command lines of up to 3 of 16 words over 4 options; the camera with
2 requests, 3 frames and 2 bad frames.

The bounds, and why they are enough.  `MaxPkts`, `MaxLen`, `QueueCap`: two
packets in a full queue behind a packet in hand that needs two writes is the
smallest case in which a drain in the middle of a packet, a packet queued behind
the drain and a partial write meet; a fourth packet repeats it.  In `reader` four
transfers allow two queued, one in hand and one dropped.  `MaxRetry` = 2 has a
retry after a recovery and a recovery after a retry.  `MaxOther` = 1 is enough
for another task to receive any number the driver closes.  Two blocks for three
threads force a `task_struct` to be reused.  Two wakers make
wake-ups overlap, two waiters make one take the unit meant for the other.
Three entries are what an unlink between two neighbours needs, two heads what
moves need.  Every LCM type is sent in every pair of languages, with empty and
non-empty arrays in every dimension, and cut at every byte; two threads of
a program are what the race needs, on the publishers' side, the handler's or both
(`Crossed`: the same type; another of which the bytes decode; another of which
decoding fails after it has taken a block).  In `parts`, the macros compare with limits computed from
widths, so that 3 bits already have all boundaries of 32: one width below `int`,
`int` and one above are the three that the conversions tell apart.  Three words
reach the option, its value and what follows.  Deadlock is checked for `list`; in
the others the threads end and the callers may have nothing left to do.

The safety properties are proved for every value of the constants, except those
listed under [only model-checked](#what-is-only-model-checked-and-what-is-not-modelled):
for the others the bounds only matter to TLC.

## Fairness

* `MtpWriter`, `MtpReader`: weak fairness of the thread's own steps, because
  pthreads are scheduled; nothing is assumed of responder and host.  Under it
  `CancelStops` and `ClosedEnds` hold: every blocking call in these loops is a
  cancellation point.  `QueueDrains` needs a host that reads, and says so in its
  premise: `HostReads` is strong fairness of `poll()` reporting POLLOUT and of a
  `write()` that moves data.  Strong, because failures and drains in between
  disable both, again and again, without the host going away.
* `EcKthread`: weak fairness of the master inside `kthread_run` and
  `kthread_stop` and of each thread.  When to start and stop threads is free.
* `EcWaitQueue`: weak fairness of a waiter's test and wait and of the wakers'
  loops.  No signal need arrive and no request need be completed.  `WakeEnds` and
  `OwedReturn` have the premise `Settled`: from some time on no one waits for a
  further request.  Without it the loop of `wake_up_all` and a waiter with a
  false condition keep each other going, which the code does not exclude.
* `LibcameraDemo`: weak fairness of `main()` and, per request, of the two
  callbacks: a camera that runs completes what it was given, well or badly, and a
  camera that stops cancels it.  Bad frames are finitely many (`BadFrames`);
  without that bound a camera of bad frames only would make `main()` wait for
  ever, as it would in the code.
* The other modules: safety only.

## Proofs

All theorems hold for every value of the constants that satisfies the assumption
named; TLC evaluates the assumptions in the runs.

Most liveness properties are proved as far as the prover goes.  A loop that ends
has a variant: a number, read off the state, of the steps it has left.  For each
there is a theorem that says what bounds the number and that somebody can always
take one of these steps (an invariant, `...IsBounded`, `ReaderEndsInBounds`), and
one that says that each of these steps makes the number smaller and which other
steps may make it larger (an action property, `...RunsDown`, `...RunDown`).  What
is left to TLC is the last inference: that under weak fairness a step that stays
enabled is taken.  Two are less than that: `WakeIsBounded` need not say that a step
can be taken, since those of `wake_up_all` have no guard beyond their place, and
`QueueDrains` has only the action property (`WorkIsRunDown`), because in a bulk
packet the next step is up to the host.

**`MtpWriterProofs`** (`WriterAssumption`: the bounds are naturals, the queue has
room for one packet).  `TypeCorrect`, `BuffersAreOwned`, `WireOrdered`,
`BulkErrorsContained`, `StaleNeverTaken`, `Implementation`.  The first and the last
hold with the exceptions of a drain cancelled on the way out, which their properties
name.  None of the properties is inductive.  `IInv` adds
`QueueInv` (the queue holds exactly the last packets sent, each with its own
buffer, all sent after the latest complete drain began: this is what makes
buffers distinct and excludes stale packets), `LocalInv` (what the locals are at
each place: `written` is 0 outside the bulk branch, the buffer in hand is that
of the current packet, and there is none at the top of the loop), `HeapInv`, and
`WireInv` (the last extent ends at `written` of the packet in hand, or is the end
of an earlier packet).  One lemma per conjunct shows it preserved with one step
per action; `RefineStep` maps each step to a step of `MtpPipe` or a stutter.
`CancelIsBounded` and `CancelledRunsDown` are about `CancelStops`: a cancelled
thread has at most one step for each packet in the queue, which it drains, and
four more (`StepsOnceCancelled`); each step is one fewer, and only a packet the
responder queues after it has cancelled adds one.  `WorkIsRunDown` is about
`QueueDrains`: for any packet `k` the number of packets before it (`Ahead`) never
grows, and the place in the loop with the data left (`Stage`) goes down with every
step that is not a `poll()`, a `write()` that moves nothing or the drain after a
failed one.  So no retry undoes what was written, and all that the property asks
of the host is that bulk data moves.

**`EcListProofs`** (`ListAssumption`: finitely many entries, no head among them;
`~MisuseHead`: no `list_del` of a head that has entries).  `TypesStay`,
`RingsStay`, `ListsStayApart`, `LoopsVisitAll`, and `ListsAreSequences`: for any
number of heads and entries the pointer assignments implement the sequences of
`EcDeque`.  The invariant does not speak of pointers one by one: it says that
there is a sequence for each head (`PutInHolds`, `TakenOutHolds`: what inserting
into a sequence or taking out of one does to it) and that `next` and `prev` string
up exactly these (`BetweenStrings`, `BypassStrings`: what the four assignments of
an insertion and the two of a removal do to a string).  That `Contents`, which
walks the pointers, finds these sequences (`WalkFinds`) is an induction along the
list; it is done by the least place at which the claim would fail (`LeastNumber`),
since the induction theorems of the library cannot be used.  `Traversal` says of
the loop of `list_for_each_entry_safe` that what it has yet to visit stands behind
`tmp` (`Reaches`), whatever its body unlinks or moves, and that what it has visited
and that has stayed linked does not: hence each entry that stays is visited exactly
once.  Rings and the separation
of lists then follow.

**`EcWaitQueueProofs`** (`WaitQueueAssumption`: finitely many threads).
`UnitsStayBounded`: `wake_up_all` leaves at most one unit per waking thread, for
any number of calls.  `OwedAreWoken`: when `wake_up_all` returns, every waiter that
was blocked when its condition became true has been woken.  `IInv` adds
`Counted` (a negative value is the number of blocked threads: only then does
reading a positive value mean that nobody is left) and `Served` (an owed waiter
has its condition and never goes back to the semaphore).  `WakeIsBounded` and
`WakeRunsDown` are about `WakeEnds`: what counts is by how much the threads about
to wait outnumber the units (`Short`), so that a call of `wake_up_all` has at most
`2 * Cardinality(Waiter) + 3` steps left; while no condition is false nobody makes
that number grow, since a waiter that joins the queue takes the unit it was counted
for.  A waiter that tests a false condition adds itself, which is the reason for
the premise `Settled`.  `OwedOnlyMovesOn` is the other half of `OwedReturn`, beside
`OwedAreWoken`.  `TypeCorrect` contains a bound from above that needs an invariant
of its own: the units in the semaphore and those about to be posted are at most one
for each call begun (`UnitsPerCall`), although a `wake_up_all` may post many times.

**`MtpReaderProofs`** (`ReaderAssumption`).  `TypeCorrect`, `BuffersAreOwned`,
`PacketsAccounted`, `RetriesBounded`.  `IInv` adds `HandInv` (the buffer in hand
is meant for the packet after the last one read until `read()` has filled it, and
there is none at the top of the loop), `Places` (the sets that make up the heap
and the packets read do not overlap) and `Attempts` (every read of a buffer but
the first was counted as a retry).  Three lemmas on increasing sequences carry
the order of the packets.  `ReaderEndsInBounds`, `CancelledRunsDown` and
`ClosedIsRunDown` are about `CancelStops` and `ClosedEnds`: a cancelled thread has
at most `QueueCap + 3` steps left; one whose device stays closed has at most
`QueueCap + 3 * MaxRetry + 5`, three for each retry it still has, and every
step uses some of them up, the recoveries that fail included.

**`MtpTransportProofs`** (`EndpointsAssumption`, `TransportAssumption`).
`TypeCorrect`, `EndpointsStayCurrent`, `NothingLeftOpen`, `OwnFilesOnly`,
`WriterPollsItsFile`, for any number of retries and of files that others open.
`IInv` says who runs a routine (`Roles`: the responder or the reader, never
both, which is why the driver needs no lock around them), how far it has come
(`Progress`), that an open endpoint is always known to the driver (`Tracked`),
that nothing is open before an init and after a deinit (`ClosedAround`), that
before the first failed `__io_init` a variable is only wrong between a `close()`
and the assignment after it (`NoStale`), and that without others bulk-in always
gets the lowest descriptor (`Alone`).  From `ClosedAround` follows that "Device
Already open" is never right in these histories: an init is only called when
nothing is open.

**`EcKthreadProofs`** (`KthreadAssumption`).  `OwnTaskOnly`, `NothingLeft`.  Both
speak of the time before the first interrupted `kthread_stop`.  Until then
(`InOrder`) there is one `task_struct`, that of the latest thread, only this
thread runs, and its semaphore is posted exactly when it is done.
`StopIsBounded` and `StopIsRunDown` are about `StopEnds` and have no such
condition: even with threads left behind by interrupted calls, a master in
`kthread_stop` has at most six steps of its own and of its thread before it
(`StopSteps`); while it waits on the semaphore each step of that thread is one
fewer, and what other threads do to any `task_struct` adds none.  `TypeCorrect` bounds the
semaphore of each struct by the threads that are done (`PostInv`).

**`LcmProofs`** (`ChannelAssumption`: finitely many threads, types that have
messages).  `HandsOverWhole`, `BuffersFit`,
`OnlyTheRaceRefuses`, `BlocksGivenBack`, for any types, messages, languages and
numbers of threads, from `CodecRight`: encoding writes what `encoded_size`
announced, decoding what was encoded gives it back with its blocks, anything cut
short is refused, cleanup frees what decoding allocated, different types have
different fingerprints, a decode that compares with another fingerprint fails and
takes nothing; where both sides have zero and the types differ it asks only that the
blocks of a decode that succeeds are those that cleanup frees.  `CodecRight` speaks of
functions that recurse over message types; TLC checks it of the generated ones
(`CodecAgrees` in run `lcm`).  The invariant has the race (`Race`: a thread
that has seen the flag reads the right fingerprint unless another is between its
two stores, `Hashed`: only a thread that met another can have a zero), the packets
under way, what each end holds, and `Heap`, the count of blocks.  That the race on
both sides is the only way to be given another type is a matter of `Hashed` and of
what the packets remember of their publisher (`UnderWay`).

**`PartsProofs`** (`CdevAssumption`, `EtherAssumption`, `MqAssumption`,
`LocksAssumption`, `TimespecAssumption`, `CameraAssumption`, `ArgpAssumption`,
`VConfAssumption`, `WidthAssumption`, `PowerAssumption`).
`CdTypeCorrect`, `OneHolderOnly`, `AllOrNothing`: the invariant of the two devices
has a part for the files (no two share a context; the master is reserved exactly
when some file has requested it) and one for the network device (where its socket
is at each call of an open, whether it is bound, and which earlier opens left theirs);
neither touches the state of the other.
`QueuesStayOwned`, where destroying an existing queue does not fail
(`~DeinitFails`): `Holds` says for each place of the two routines which variables
name an existing queue, and that the others hold 0 or -1; this is why no old
identifier is ever destroyed.  `InsideStaysBounded`: `LkCounted` adds up the unit,
the tasks inside and the signals, so that each signal that ends a `down()` lets in
one more task for good.  `SubStaysExact`: `SubIsDifference` shows for all times,
all widths and signed or unsigned `time_t` that the borrow and the saturation give
the difference, by the three ways through the code.  `CameraReturnsFirst`: the
camera has requests only from the first one queued to the return of
`camera->stop()` (`CmIInv`), however many there are.  `CameraWaitIsBounded` and
`CameraWaitRunsDown` are about `WaitEnds`: the requests the camera has are those
`main()` queued less those it lost (`CmAccount`), so `main()` waits for ever only if
it lost all; what each request still owes (`Owed`), with two steps for each good
frame missing and for each bad one to come, goes down with every callback, and
`camera->stop()` ends the same way.  `WordsStayAccounted`:
`InOrder` relates each call of the parser to the one before and the next word to
the last call (`CallStep`), for every table of options and every command line.
`SettingsStay`, for any keys set as either type: the service holds what was asked
for, or the string with its NUL cut off at the size of a pointer (`Holding`), and
five keys are not looked up at all; `ShortStringKept` shows that a string
shorter than that is what is read, whatever stands in memory behind it.
`OverflowIsExact`, the whole of `OverflowExact`: the seven `INT_<op>_OVERFLOW`
macros (`+`, `-`, `*`, `/`, `%`, `<<` and negation) and the three `INT_<op>_WRAPV`
never overflow themselves, the first tell whether the expression does and the
others store the low-order bits and tell whether they are the value, for all
operands of all pairs of types, variables of a third, and types of any width (with
the exceptions that the invariant names: remainders, and a narrow variable beside a
wider unsigned common type, item 7 below). Not a line of it computes with a
particular width: `PowerAssumption` says that `2 ^ n` is doubled at each step, from
which the ranges of the types follow (`WideTypes`, `CommonTypes`), then that a
value converted to a type that holds it stays the same and one past its end comes
back by one size (`Wraps`, `Within`), then that `_GL_INT_MINIMUM` and
`_GL_INT_MAXIMUM` are the ends of the common type without leaving it on the way
(`Minimum`, `Maximum`). Each macro is then a case distinction over the signs of its
operands, once for a signed common type (`AddRange`, `MultiplyRange`, ...: each
comparison it makes stays within the type) and once for an unsigned one, where it
compares numbers that have wrapped (`AddWrapped`, `DivideWrapped`,
`NegativeDivisor`, ...). For the `WRAPV` macros the bounds are those of the
variable (`BoundsOf`): each arm of a test compares in the common type of an operand
and a bound, which may be the type of neither (`AddReports`, `SubtractTells`,
`MultiplyTells`, put together in `OverflowTold`). The low-order bits are right
because calculating and converting both keep the remainder by the size of the
variable's type (`Congruent`, `LowOrderBits`): the size divides that of the
unsigned type the calculation is made in. A short variable of a type that is not
known is tested as a signed and as an unsigned one, and where the two disagree the
sign of what was stored decides (`EitherTold`).

## Disagreements between code and comments

Shown by runs; the lines are quoted in `PROJECT.json` under `findings`:

1. `transport_stale_init`: a failed `__io_init` leaves the numbers of closed
   descriptors in the variables; the next init calls this "Device Already open".
2. `ether_flags`: `ether_device_open` reads the interface flags where its comment
   says it sets them.
3. `lcm_first_use`: two threads that compute a fingerprint for the first time can
   send, or compare with, a zero; a whole message is then refused.  If it happens on
   both sides, with different types, a packet of another type is handed over.
4. `vconf_set_str`: `sizeof(strval)` is the size of a pointer; what is stored is
   cut off there, or holds what stands behind the string.

Read while modelling, visible in the models, without a run of their own:

5. `res` of the receive queue is overwritten by that of the transmit queue in
   `ffs_transport_mq_deinit` (`MtpMq!DeinitTx`).
6. `list_del` of a head leaves the head pointing to entries, where the comment
   above it has it "reset the list as empty list" (list.h:199-201;
   `EcList!DelHead` with `MisuseHead`).
7. `_GL_INT_ADD_RANGE_OVERFLOW` reports an overflow that is none when the variable
   is narrower than the operands' common type and that type is unsigned
   (`signed char r; INT_ADD_WRAPV(-300, 200u, &r)` would be -100).
   `OverflowExact` excludes exactly this.  The macros of `/` and `%` speak of the
   mathematical quotient when the operands have different signedness.
8. `argp_parse`: an option without an argument takes the next word and drops it; a
   name cut short to nothing (`--`) is the first named option; the word `-` is
   looked at beyond its end.
9. `vconf_get_str` does not look at the result of `property_get_buffer`: for a key
   that has no value it returns memory nobody wrote, where its comment promises
   NULL.
10. A message that fails to decode half-way is not cleaned up (`X_handler_stub`);
    `HeapBalanced` names this as its only exception (the message is cut short, or
    of another type after a race on both sides).
11. `vconf_set_int` and `vconf_set_str` report success for the keys that the getters
    answer with constants (mtp_port.c:73-78, 137-140); what was set is never read
    (`VConf!IntFixed`, `StrFixed`; `ReadsWhatWasSet` names them).
12. `ether_device_open` takes a `psock_bind` that failed with -EPERM for success
    (ethercat.c:168, `ret < -1`); the device is then open and linked on a socket that
    is not bound (`EcEtherDevice!BindGoesOn`).

## What is only model-checked, and what is not modelled

Only model-checked:

* of the liveness properties `CancelStops` (both threads), `ClosedEnds`,
  `QueueDrains`, `StopEnds`, `WakeEnds`, `OwedReturn` and `WaitEnds` the step from
  the variants, which are proved, to "eventually": it uses fairness and `ENABLED`,
  which are out of the prover's reach.  The theorems name the guards of the steps
  instead (`CanEnd`).  `QueueDrains` needs strong fairness of the host besides, in
  the bulk branch;
* `CodecRight`, the hypothesis of `LcmProofs`, for the generated coding functions,
  which recurse over trees of types (`CodecAgrees`).

Behaviour that is in a model and that no property excludes, because the code
allows it:

* in the window between a `close()` and the assignment after it the writer may write
  to another task's file, and after a failed `__io_init` the deinit closes
  descriptors a second time (`OwnUnlessFailed` speaks of reads and closes before the
  first failure);
* a writer that starts in the middle of a recovery polls descriptor -1 (the exception
  in `PollsWhatItWrites`);
* a thread cancelled while it drains on the way out leaves packets in the queue and
  its own buffer not freed (the exceptions in `BuffersOwned` and `MtpPipe!Abandon`);
* after an interrupted `kthread_stop` a thread uses a freed `task_struct`, and a thread
  that starts early finds `master->thread` NULL (`OwnTask`
  exempts both, `StopLeavesNothing` the first);
* of two waiters between test and wait one can be left waiting until the next
  wake-up, and `wake_up_all` goes on for ever with a waiter whose condition stays
  false (`OwedWoken` speaks of blocked waiters, `WakeEnds` has the premise `Settled`);
* files are used after `ec_cdev_clear` (excluded by `orphaned`);
* a bind that fails with -EPERM leaves the network device open on an unbound socket,
  and each open that succeeds leaves a socket behind (both stated by
  `OpenAllOrNothing`, which excludes neither);
* a packet of another type is handed over after a race on both sides, and what a
  failed decode has taken stays (the exceptions in `HandedOver`, `HeapBalanced`);
* a camera that has lost every request keeps `main()` waiting, and a request that
  cannot be queued ends it with the camera running (the exceptions in `WaitEnds` and
  `NothingFreedInFlight`);
* an option without an argument swallows a word (`WordsAccounted` counts it as the
  option's value).

Not modelled:

* packet sizes and the table of entry points of the MTP driver, the control
  thread: they compute constants or do nothing;
* `start_xmit` and `poll` of the network device: one frame to or from the socket,
  no state of their own;
* socket buffers (`skbuff.c`): two allocations and two pointer updates; the data
  block leaks when the second allocation fails (line 57), nothing else can happen;
* the other functions of `mtp_port.c` return constants;
* `libcamera/src/libcamera/control_ids.cpp` and `property_ids.cpp`: 3 460 lines of
  generated constants and their documentation;
* the components marked so in `PROJECT.json` (`components`), each with its
  reason: build recipes and `config.h` files of third-party packages, test
  harnesses, wrappers that exit on error.

What is modelled is nearly all of the code in this repository that has control
flow.  It is a small share of its lines: most lines that look like source are the
`config.h` files of third-party packages (`#define HAVE_...`), whose code is not
here, and the generated tables above.  They have no states and no steps, and a
model of them could only repeat them.

## Plan

Done, in this order: the writer and its abstract pipe, its proofs; the reader;
endpoints and transport; message queues; lists with their abstract sequences and
proofs; threads; wait queues with proofs; the two devices; the proofs about the
reader, the transport, the threads and the devices; the LCM types and their
channel; settings, locks, option parser, overflow macros, times and the camera
demo; the proofs about queues, locks, times, the camera demo, the option parser
and the settings; the refinement of the sequences by the lists, the proofs about
the LCM channel and those about the overflow macros; the variants of the loops that
end: both MTP threads, `kthread_stop`, `wake_up_all` and the camera demo.

Left: the composition of `MtpWriter` and `MtpReader` with `MtpTransport` in one
module, with packets and descriptors at once; today each abstracts the others.
