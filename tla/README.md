# cpp-protocol-stack in TLA+

TLA+ models of the header-only C++ libraries in this repository and of the protocol
stack built on them, the TLC configurations that check them, and TLAPS proofs of every
safety property those find to hold. Paths are relative to the repository, line numbers
are those of its files; `pa3.pdf:26` and the like are the assignment texts that say
what the libraries are to do.

## The system

| Part | State it keeps | Operations | Used by |
|---|---|---|---|
| Thread pool, `threadpool.h` | per slot a flag, a thread handle, a semaphore | `thread_avail`, `dispatch_thread`; a slave thread per dispatch joins the worker and frees its slot | everything below |
| Event scheduler, `eventscheduler.h` | a pool of `maxEvents+1`, an event counter, a vector of cancelled ids | `eventSchedule`, `eventCancel`; a thread per event sleeps, looks for its id, runs the function or not | `driver2.cc` |
| Message library, `message.h` | a list of pointers, a list of sizes, a length | create, `msgAddHdr`, `msgStripHdr`, `msgSplit`, `msgJoin`, `msgLen`, `msgFlat` | both stacks, `driver3.cc` |
| Process-per-message stack, `ppm.h` | a pool of 50, a send semaphore, four counters | `send` starts a thread per message that calls down to `sendto`; `eth_deliver` starts a thread per datagram that calls up | `application.h` |
| Process-per-protocol stack, `ppp.h` | 22 pipes, a semaphore for each, four counters | a thread per protocol and direction: select, read, add or strip a header, write | `application.h` |
| Application, `application.h` | two sockets, four poll threads | connection set-up by hello and reply, then 100 messages from each of four applications, then a wait of two seconds | `driver4.cc`, `driver5.cc` |

The parts interact by calls (libraries), by `Message` pointers in pipes
(protocol threads), by datagrams (hosts), and by memory nobody guards (the
scheduler's vector and counter, the completion counters, the payload buffers).

What is hard, by part:

* Thread pool: a flag is read and cleared in two critical sections; the answer of
  `thread_avail` is stale when `dispatch_thread` acts on it; the slave reads the
  slot's handle late; a failed `pthread_create` is half undone. Right means: at
  most `threadCount` functions run, a slot that is said to be free is, every slot
  comes back, an accepted job is run.
* Event scheduler: two threads update one vector and one counter without a lock;
  a cancel races with the end of a timeout. Right means: ids name one event, an
  event cancelled in time does not run, no other event is skipped, every event ends.
* Message: boundary lengths, empty fragments, fragments of several messages over
  one buffer. Right means: a message is a sequence of bytes with its length.
* Process per protocol: twenty threads around pipes with locks held across
  blocking writes; messages merge and part again. Right means: each application is
  given its own messages, whole, in order, once, and all of them if no datagram is
  lost; nobody waits forever.
* Process per message: six threads call one pool, in both directions, and
  `eth_deliver` keeps one of its slots. Right means: that slot is never shared, a
  message is lost only if the pool was full, and the pool is empty in the end.
* Completion: each delivery increments a counter nobody guards, compares all four
  and takes the time in variables all threads share. Right means: never too early,
  a time that has elapsed, and that somebody prints it.
* Connection set-up: one hello and one answer each way, sent once, over sockets the
  stacks go on to use; waits without a timeout; a program that ends after two
  seconds. Right means: both sides get through, in order, and no part reads a
  datagram that is meant for another.

## Modules

| Module | Models | State and actions |
|---|---|---|
| `ThreadPool` | `threadpool.h` | One action per critical section or thread creation. `pc`, `at`, `job` are a caller's place, loop variable and argument in `thread_avail` and `dispatch_thread`; `fate`, `slave`, `home`, `target` follow a job's worker, its slave, its slot and what the slave joins. A failed `pthread_create` is a disjunct of `CreateWorker` and `CreateSlave`; a join of a handle that was joined before, or never set, is undefined and may return at any time. |
| `BoundedPool` | abstract | What callers count on: at most `ThreadCount` jobs occupy threads; a job is started once or refused. |
| `EventScheduler` | `eventscheduler.h` | `eventSchedule`, `eventCancel` and `eventWrapper`, with each unguarded update of the counter and the vector split into a load and a store (`snap`). Its pool is an instance of `BoundedPool`. `Growing` is the time in which `push_back` replaces the storage of the vector: a thread that uses the vector then may end the program, as does `at()` past the end. `base` tells the block a thread has loaded from; an erase or a push that stores after the vector has left that block (`Moved`) wrecks it, and the run ends (`crashed`). |
| `Message` | `message.h` | A fragment is a pointer (buffer and offset) with its size; the loops of strip and split are described by how many whole fragments they take. Running off a list sets `undefined`. `careful` never changes: in runs in which it is true no caller strips a whole message, splits at 0, splits into a message with bytes, or uses a message that was joined onto another (`spent`) before it is made anew. |
| `MessageSeq` | abstract | Sequences of bytes; a join empties the second one, as `pa3.pdf:26` has it. |
| `MCMessage` | | Buffer sizes and lengths of lists for TLC. |
| `ProtocolGraph` | `structs.h`, `constants.h`, header code of `ppp.h` | Header lengths, ids, adding and stripping. A message is the list of its headers over a payload. `Datagram` is what `ppm.h` puts on the wire. |
| `ProcessPerProtocol` | `ppp.h`, poll threads of `application.h` | One `pc` per thread: select, read, lock, write. Pipes are bounded queues; the reader's `sem_wait`, `read`, `sem_post` is one step because `SelectStaysTrue` holds; a writer holds the semaphore of a pipe (`holder`) while it waits for room. The socket drops what it has no room for. The sender's and the receiver's half of the two hosts are put together. `TotSend` is `TOT_SEND`, a number for each application, so that a run can send more for one than for another. |
| `MCProcessPerProtocol` | | Messages of each application for TLC. |
| `ProcessPerMessage` | `ppm.h`, its poll threads in `application.h` | One host. Every message is a job of one `ThreadPool`, whose variables and actions the module uses as they are: its callers are the constructor, the poll threads and `eth_deliver`, which is a job itself. Between two calls of the pool the functions share nothing, so a thread's work on its message is one step. `held` is the Message `eth_deliver` has made of a datagram, over the buffer it was received into; the datagram's thread takes it up (`Delivery` says where the headers lead it) and leaves what is left of it in `inbox`. Datagrams of the other host arrive in any order or never (`lost`); `pthread_create` may fail for the messages of `NoThreadFor`. |
| `Completion` | counters and elapsed time, `ppm.h` and `ppp.h` | `Load` and `Store` are the two halves of `count++`; `Complete` is the test of all four counters; `Stamp` to `Show` is the use of `end`, `seconds` and `useconds`, `torn` if another thread was in it too. `By` says which thread delivers a message: one for each message (`ppm.h`) or one for each application (`ppp.h`). |
| `MCCompletion` | | Messages and their threads for TLC. |
| `Handshake` | constructor of `application.h` | Each side has a script (`knock`, `hear`, `bind`, `answer` in its own order), then its stack sends and receives on the same sockets, then the program ends. `net` is a set: datagrams are lost or overtake each other, and one that meets no socket is gone (`missed`). `taken` remembers who read what. |
| `ThreadPool_proofs`, `EventScheduler_proofs`, `Message_proofs`, `ProcessPerProtocol_proofs`, `ProcessPerMessage_proofs`, `Completion_proofs`, `Handshake_proofs` | | Theorems. |

Operators whose comment begins with "Mutant of" are wrong versions of the
operation that follows; each property is violated under one of them.

## Runs

| Run | Shows | Bounds, and why they are enough |
|---|---|---|
| `pool_one_caller` | One caller: `TypeOK`, `BusySlotIsOwned`, `FreeMeansIdle`, `NoUndefinedJoin`, `SlotsComeBack`, and the refinement of `BoundedPool`, which runs no more jobs than it has slots and has no way to drop one. | 2 slots, 4 jobs, of which one may get no worker and another no slave: every slot is used twice, a job is refused, a slot comes back behind and before the search, a slot is lost, a slot is freed twice. `FreeMeansIdle`, `NoUndefinedJoin` and the refinement are of runs up to the failure of a worker (`AllCreated`). |
| `message_calls` | Any calls: `LenIsContent`, `FragmentsInBounds`, and a call runs off its list only if it would empty it (`UndefinedOnlyIfEmptied`). Careful calls: the length is exact, and messages refine `MessageSeq`. The system stops when a call runs off its list, so deadlock is not checked. | Two messages over a buffer of two bytes, empty pieces included; two fragments a list, three if callers are careful: cuts inside, between and at the ends of fragments, with whole fragments on both sides. |
| `message_strip_all` | Violated: stripping every byte reads past the end of the list. | Two buffers, two fragments a list. |
| `message_join` | Violated: a message that was joined onto another is not empty. | As above. |
| `events_cancels` | Races on the counter and the vector: `TypeOK`, ids are distinct as long as no two calls of `eventSchedule` overlap (`IdsDistinctIfApart`), `OnlyCancelledSkipped`, a lone cancel in time is honoured (`LoneCancelHonoured`), every event's thread ends (`Settled`). | 2 callers, 2 events, 2 threads, up to 2 cancels: calls of either kind overlap each other and the events' searches and erases; the vector's storage is replaced under them. |
| `events_lost_cancel` | Violated: a cancel in time is undone by a third push and another event's erase. | 1 caller, 3 events, 3 cancels: with two, the cancel is lost only to a store into a block the vector has left, which ends the run. |
| `ppp` | `TypeOK`, `InOrder`, `EachMessageOnce`, `SelectStaysTrue`, `NobodyStuck`, `OwnMail`, that the wire carries what the other stack would send (`SameWire`), and that all arrives that was not lost (`AllDelivered`). | TELNET sends two messages over TCP, DNS one over UDP: they merge at IP and below and part again. A socket for one datagram, so that any may be lost. Pipes hold 3, all messages there are: the programs have 400 and pipes of 8192 pointers. |
| `ppp_payload` | Violated: the payload of a message is overtaken by the next. | 2 messages. |
| `ppm_host` | `EthKeepsSlot`, `BusySlotIsOwned`, `LossNeedsLoad`, `OwnMail`, `PoolEmpties`. | 3 slots for `eth_deliver` and 3 messages in either direction, one of which may get no thread: slots run out, callers race for the last one and share it, messages are refused and dropped, slaves join handles of others, datagrams are lost or arrive while others are delivered. |
| `completion` | `TypeOK`, `NeverEarly`, `ExactIfAlone`, `FullIsFinal`, `PrintedUnlessLost`. | FTP's three messages have a thread each, DNS's share one: increments are lost by two and by three threads, several threads find the counters full. |
| `completion_elapsed` | Violated: the time printed by a thread that was alone is not what has elapsed. | As above; a second of 3 microseconds, times with and without a borrow. |
| `handshake` | `TypeOK`, `InOrderUp`, `NoMixup`, `OnlyHelloTooEarly`, `BothThrough`, `AllReceived`. A side may wait forever, so deadlock is not checked. | Three datagrams each way, which overtake each other and the set-up's. |

Each "violated" run is a finding in `PROJECT.json`, with the sentence of the
documents it contradicts. What else the code does otherwise than its documents
say, and the models follow:

* a slot's flag is read (`threadpool.h:83-85`) and cleared (88-90) in two critical
  sections: two callers can both claim a slot, and a pool runs more functions than
  the number it was created with (`threadpool.h:60`; `pa3.pdf:26`). In `ppm.h`
  they do; why `AtMostThreadCount`, `FreeMeansIdle` and `NoUndefinedJoin` are for one
  caller, and `EthKeepsSlot` says what the races of many must not reach;
* a slave is created for a worker that could not be (`threadpool.h:107`), joins what it
  finds in the slot and frees the slot a second time: why those are of runs in which
  all workers so far were created (`AllCreated`);
* an accepted job is dropped when another caller takes the slot between `thread_avail`
  and `dispatch_thread` (`threadpool.h:119`): why `NoSilentDrop`, a part of
  `OneCallerIsSafe`, is for one caller, and `LossNeedsLoad`, for many, says only when
  the first loss can be;
* `msgSplit` into a message with bytes forgets them in its length (`message.h:111`):
  careful callers avoid it;
* `eventSchedule` returns the counter, not the id it took (`eventscheduler.h:82`), so
  that two calls that overlap can return each other's ids or one id twice
  (`pa3.pdf:47` has it return the id of the event scheduled): why
  `IdsDistinctIfApart` is of calls that do not; and it schedules `maxEvents + 1`
  events (61);
* a writer that meets a full pipe holds the semaphore its reader needs
  (`ppp.h:108`) and waits forever: `NobodyStuck` needs the room the pipes have;
* increments of the counters are lost between `ip_deliver` threads (`ppm.h:140`), and
  then nobody prints the time: `PrintedUnlessLost`;
* both stacks send from a poll thread's buffer: the finding of `ppp_payload` is also
  true of `ppm.h`, whose threads flatten a message when they come to it;
* the data length in TCP and UDP headers is always 0 (`ppp.h:128`, 247); nothing
  reads it, and headers have none here.

### Fairness

* `ThreadPool!FairSpec`: weak fairness of each thread inside the library, and
  dispatched functions return. Callers need not call. `SlotsComeBack` needs no more:
  each step is enabled until taken, as semaphores are held for one access only.
* `EventScheduler!FairSpec`: a started push and each event's thread go on, which
  includes the end of its timeout and of its function.
* `ProcessPerProtocol!FairSpec`: some step is taken while one can be. Every step
  moves a message on and messages are bounded, so that this is all `AllDelivered`
  needs of the scheduler; what the socket dropped it excuses.
* `ProcessPerMessage!FairSpec`: threads run, poll threads go on to their next
  message, and what was not lost is received in the end. Losing is never forced.
* `Completion!FairSpec`: a thread that has a message to deliver goes on. Messages
  that are not delivered do not exist here, so that the counters not reaching the
  end is due to lost increments alone.
* `Handshake!FairSpec`: a side goes on unless it waits for a datagram, and a datagram
  arrives or is lost. There is none on `Leave`: two seconds may be long.

## Proofs

`ThreadPool_proofs`, for all sizes, callers and jobs, from `PoolAssumption`:

* `TypeCorrect`: `Spec => []TypeOK`.
* `NoSlotIsLost`: `Spec => []BusySlotIsOwned`, for any number of callers and any
  failures; `ppm_host` checks it with several callers. `BusySlotIsOwned` alone is not
  inductive: a caller at `create` must still own its job when the slave is made.
  `CallerOwnsJob` says so.
* `OneCallerIsSafe` and `JoinsAreDefined`: with one caller, and as long as its workers
  are created (`AllCreated`), `AtMostThreadCount`, `FreeMeansIdle`, `NoSilentDrop` and
  `NoUndefinedJoin` hold. The inductive invariant is `OneCallerInv`: an occupied
  slot has its flag clear and its own handle (`SlotsExclusive`), what the caller has
  read is still true because only it clears flags (`CallerIsRight`), each slave joins
  its own worker (`SlaveJoinsOwn`). It holds up to a failure because a failure is never
  undone (`FailedStays`). `AtMostThreadCount` follows by counting: the occupants map
  one to one into the slots.
* `OneCallerImplements`: with one caller `ImplementsBoundedPool`; `OneCallerIsBounded`:
  `Spec => Bounded!Spec` if no worker can fail. Steps that change no phase stutter; a
  start has room because the caller's slot is not among those of the occupants; a
  refusal is of a caller that has met an occupied slot.
* `LossesNeedLoad`: `Spec => []LossNeedsLoad` for finite sets of callers and jobs, any
  number of callers and any failures; `ppm_host` checks the same of a whole host.
  What a search passes was claimed once, and once claimed is claimed for good
  (`Passed`), as a job that still looks for a slot has none to lose (`Unhoused`). The
  slots are then counted by the jobs and callers that claimed them.
* `EnoughSlots`: a pool with a slot for every job refuses and drops none, whoever
  calls. Two programs rely on it: `driver2.cc` has eleven slots for six events, and
  `ppp.h` sixteen for its sixteen threads. A job that was given up never had a slot
  (`GivenUp`), and by the same count every slot was then claimed for another job.

`EventScheduler_proofs`, for all numbers of callers, events and cancels, from
`SchedulerAssumption`:

* `TypeCorrect`.
* `DistinctIds`: `IdsDistinctIfApart`. While no two calls of `eventSchedule` overlap,
  the counter at the return is still the event's id, and each id is above all earlier
  ones (`IdsInv`).
* `OnlyCancelledSkip`: only events whose id was cancelled are skipped. By
  `CancelledInv` the vector, and every copy of it on its way back, holds ids that were
  cancelled only, since pushes add such an id and erases add none (`WithoutKeeps`).
  That an id stays cancelled needs that no call of `eventSchedule` returns one for an
  event that has one already (`OwnEvent`).
* `OneCallerCancels`: with one caller `LoneCancelHonoured`. `LoneInv` says that until
  the first push the vector and the pusher's copy are empty, and that from then on the
  vector is that one id until its event takes it out: as long as one event was
  cancelled no other thread finds anything to erase.

`Message_proofs`, for all buffers, messages and lists, from `MessageAssumption`:

* `PointersStayInBuffers`, `LengthIsTrue`, `RunsOffOnlyWhenEmptied` are the run's
  properties of any callers, `MessageIsASequence` the refinement of `MessageSeq` for
  careful ones. The mapping gives a message that was joined onto another (`spent`) no
  bytes: the object still has them, which `message_join` shows, and careful callers do
  not look. None is inductive: how many bytes a strip leaves is known only if the
  list holds fragments with sizes, and that a cut falls inside a fragment only if the
  list holds what the length says. `MsgInv` joins the two.
* `Size` and `Flat` are folds over a list. What is needed of them is proved from a
  table of the sums (`IsSum`) and of the runs of bytes (`IsRun`) of all beginnings of
  a list: both distribute over concatenation (`SizeConcat`, `FlatConcat`), and a list
  has as many bytes as its size (`FlatLen`). `FrontCut` and `BackCut` say where the
  loops stop, `CutList` that a list cut there holds the same bytes in two parts,
  `AfterFrontIs` and `BackIs` what strip and split make of that.

`ProcessPerProtocol_proofs`, for all applications and any number of messages and
capacities, from `StackAssumption`:

* `Types`, `ReadersNeverWait`, `OrderIsKept`, `NoneLostNoneTwice`, `MailIsOwn` and
  `WireIsShared` are its safety properties, all from `StackInvariant`. `StackInv`
  says of each thread what it holds at each place of its loop (`Loops`) and which
  semaphores are taken (`Locks`), which keeps pipes that were found readable
  readable; what headers a message has, by how far along its way it is
  (`Routed`); that of two messages of an application the one further along is the
  older (`InLine`); and that each message is somewhere or lost (`Kept`). The last two
  speak of one set, the `Spots` an application's messages are at: a step takes a
  spot out, puts one in, or moves one on. Order in one pipe alone would not be
  inductive, as the next pipe needs it of the thread between them.
* `RoomForAll`: `NobodyStuck`, if `Cardinality(All) <= PipeCap`, where `All` are the
  messages there are. The pipes of the programs have room for 8192 pointers, and 400
  messages are sent. A pipe holds each message once and not the one its writer has in
  hand, so that it is not full.

`ProcessPerMessage_proofs`, for all applications, messages and pools, from
`HostAssumption`:

* `LossesNeedLoad`, `NoSlotIsLost` (`BusySlotIsOwned`): every step of a host is a step
  of its pool or leaves that alone (`StepsOfPool`), so that it implements the pool's
  specification and has what `ThreadPool_proofs` proves of it, taken over by
  `INSTANCE`.
* `SlotOfEthIsKept`: `EthKeepsSlot`. `HostInv` says that until `eth_deliver` runs only
  the constructor uses the pool (`BeforeEth`), and that while it runs nobody is about
  to claim its slot, to free it, or to create a slave that joins it (`WhileEth`). The
  other slots need no such care: callers may share them, and do.
* `MailIsOwn`: `OwnMail`. `MailInv` says that each Message that was made still is
  what its datagram was, whatever has been received since, that its job has been
  offered, and that `inbox` is what the returned jobs left; `DeliveryOf` that the ids
  and lengths `Delivery` strips are those `Datagram` put there, for each application.

`Completion_proofs`, for all applications, messages, threads and clocks, from
`CompletionAssumption` and `NoneTwice`:

* `TypeCorrect`, `NeverTooEarly`, `AloneIsExact`, `FullStays` are the safety
  properties of the run, `FullIsFinal` among them. `DoneInv` is the invariant behind
  all of them. A thread's own message is not counted before its store (`Hands`), so
  that a counter, and any copy of it, is at most the number of messages counted
  (`Counters`): full counters mean that all of them are. The one thread of an
  application has loaded what the counter still is (`OnlyItsOwn`).

`Handshake_proofs`, for any number of datagrams, from `DataAssumption`:

* `TypeCorrect`, `SidesInOrder`, `NothingMixedUp`, `RestIsInTime` are its safety
  properties, over a network that loses and reorders. `NoMixup` alone is not
  inductive: that no data comes before the answer follows from how far each side can
  be ahead of the other (`Order`), from what has been sent to whom (`Mail`: a
  datagram is there only if its sender is past that line of its script), and from
  there being one hello to read (`OneHello`).

Only model-checked is liveness (`SlotsComeBack`, `Settled`, `AllDelivered`,
`PoolEmpties`, `PrintedUnlessLost`, `BothThrough`, `AllReceived`), which is out of the
prover's reach.

## Assumptions and what is left out

* `EventScheduler` stands on `BoundedPool`. For one caller `OneCallerIsBounded`
  justifies that, if threads can be created.
* An id is cancelled once in a run, and only ids that `eventSchedule` returned are: a
  cancel of an id that is not positive prints a line and changes nothing
  (`eventscheduler.h:87`). What a program does whose vector was wrecked is not followed.
* Careful users of `Message` (the promise of `MessageSeq` is to them) do not use a
  message after it was joined onto another, as `driver3.cc` does not.
* The order of timeouts, a timeout `select` refuses, and the scheduler's destructor,
  which frees the vector that sleeping events will search, are not modelled: every
  program waits for its events first. Nor are the default constructors of pool and
  scheduler, which build a temporary and leave the object as it was; no program uses
  them.
* `Message` objects are used by one thread at a time, and no program copies one or
  passes one twice. A byte is its address: overwriting the bytes is in
  `ProcessPerProtocol` (`payload`).
* In `ProcessPerProtocol` the protocol threads have all been started (the pool has
  as many slots as there are threads and one caller), threads do not exit when a read
  fails, and datagrams keep their order, as on the loopback interface of the drivers.
* In `ProcessPerMessage` `pthread_create` may fail for the threads of messages, not
  for that of `eth_deliver`, without which there is no host, nor for slaves; datagrams
  have all their headers (`ppm.h:236` reads what `msgStripHdr` returns for a shorter
  one, which is 0), and the payload in a poll thread's buffer is not followed:
  `ProcessPerProtocol` does.
* In `Completion` no application receives more than it was sent, and a torn time may
  be anything.
* In `Handshake` socket calls succeed (the program exits where they do not), a
  datagram arrives at most once, and the address a side answers to is the one it
  has: it is overwritten with the same value. The pool of four for the poll threads
  (`application.h:212`) is used once by one caller.
* `wrapper_function` is called by nothing.

## Plan

1. The scheduler's destructor against events that are asleep.
2. The exit of protocol threads whose pipe fails, and the pool they run in.
3. A proof that `EventScheduler` keeps its properties over a `ThreadPool` in place of
   the `BoundedPool`.
