# Verification of the implementations

The repository is a collection of about thirty small programs, each in a file of its own: queues, pools, schedulers, caches and locks for several threads, the Leetcode exercises on taking turns, and object-oriented designs driven by calls. None calls another. What they share is a style: one mutex, one or two condition variables (or a Java monitor, or semaphores), a few containers, and a `main` that starts threads and joins them. There are no tests besides those `main` functions.

This directory holds TLA+ models of all of them, the TLC runs that check the models on small instances, and TLAPS proofs of their safety properties for instances of any size.

## Inventory

| Program | State | Operations | What is hard | What makes it correct |
|---|---|---|---|---|
| `ThreadSafeQueue.cpp` | queue, two condition variables | add, take | one notification per call, overtaking, capacity | no lost wakeup; bounded FIFO channel; calls return |
| `Java/ConcurrentJobQueue.java` | queue, one monitor | add, take | both kinds of thread in one wait set, interrupts | nobody asleep who could go on; FIFO channel |
| `Microsoft/ProducerConsumer.cpp` | queue, two semaphores, mutex | produce, consume | `pop` without a test | slots and items always accounted for; FIFO channel |
| `Practice/DBConnection.cpp` | queue of connections, ledger | getConnection (timed), releaseConnection | timeouts racing with releases, double returns | nothing lost or twice in the pool; exclusive leases; calls return |
| `Microsoft/DBConnection.cpp` | the same, untimed | acquire, release | hold and wait | as above, without the return |
| `PhoneNumberPool.cpp` | queue and set of free numbers | acquire, release | double and foreign releases | as above |
| `Java/PhoneNumberPool.java` | queue of free numbers | acquire, release | no check at all | exclusive between careful agents |
| `JobScheduler.cpp` | priority queue, stop flag | schedule, run, stopScheduler | a sleep overtaken by an earlier job, stop racing with a sleep | wakes in time; order of due times; every job runs; stop ends the worker |
| `Practice/AsyncBatchLogger.cpp` | buffer, running flag | log, workerLoop, destructor | messages during a write, timeouts, shutdown | every message written once, in order, before the destructor returns |
| `DistributedLock.cpp` | owner, expiry | tryAcquire, release | overrun leases, crashes, restarts | one node within its lease at a time; no lease stolen; a dead owner replaced |
| `Microsoft/ThreadSafeLRU.cpp` | LRU map, inProgress | get, put, getOrCompute | the fetch without the lock, evictions | bounded; single flight; answers fit; calls return |
| `LRUCache.cpp` | map and linked list | get, put, destructor | pointers, reused addresses | list and map in step; LRU policy; no leak |
| `Leetcode/*.cpp` (5) | a counter or flag, a condition variable | one function per thread | who prints next, who is left asleep at the end | output in order; every thread returns |
| `AmazonLocker.cpp` | compartments, map of tokens | deposit, pick up, remove expired | colliding random codes, the instant of expiry | packages accounted for; compartments come free |
| `ConnectFour.cpp` | board, player, state | makeMove | the last cell wins, lines on both sides of the last disc | outcome agrees with the whole board |
| `OOP/TicTacToe.cpp` | board, player, status | makeMove | the last cell wins, a parameter that hides a member | outcome agrees with the whole board; the message names the next player |
| `ParkingLotManagement.cpp` | flags of spots, tickets on the heap | parkVehicle, exitVehicle | no list of tickets, addresses used again | taken spots are those of the live tickets, one each |
| `FileSystem.cpp` | Directory objects with maps | mkdir, ls, addContentToFile, readContentFromFile | missing parts of a path, a name used twice | implements a tree of paths |
| `OOP/Chess.cpp` | a grid, a colour | getValidMoves of rook and knight | borders, blocked lines, colours | the moves are those of chess |
| `OOP/Rectangle.cpp` | corners | contains, overlaps | borders | they mean what they say of points |
| `KVStore.cpp` | map, shared lock | get, put, putIfAbsent | find and insertion are two accesses | every call takes effect at one moment |
| `Java/ThreadSafeKVStore.java` | map, fair lock | get, tryPut (timed), putIfAbsent | a holder that never unlocks, endless readers | the same; calls return |
| `Microsoft/Cache.cpp` | map with expiry times | put, get | seconds cut off, a clock set back, an expiry cut to an int | the last value; found for its whole ttl, and less than a second longer, as long as the expiry is an int |
| `Messaging/PubSubBrokerBasic.cpp` | subscribers of each topic | subscribe, publish | order, double subscriptions | each message once per subscription, in order |
| `TokenBucket.cpp`, `Java/TokenBucketRateLimiter.java` | tokens, time of the last refill | allowRequest | lazy refill, clock set back | no stretch of time above the limit; denied only at the limit; nobody locked out |
| `SlidingWindowRateLimiter.cpp`, `Microsoft/RateLimiter.cpp`, `Microsoft/CountRateLimiter.cpp` | a queue of times, one for each client in `Microsoft/` | allowRequest | the edge of the window, seconds cut off, clock set back | the same |

`MVCC.cpp` is empty and `CPPCheatsheet.md` is prose; there is nothing in them to model. `PROJECT.json` lists every component, and under `hazards` what can go wrong in each, at its line.

## Modules

**Common ground.** `CondVar` says what the two notifications do to a wait set. The classes that use it hold their mutex from the first read to the return or the next wait, so that a critical section is *one* action, a thread that leaves the wait set is in `awake` until it has the mutex back, and anybody may overtake it meanwhile. `Monitor` is finer: it models the mutex itself, for the exercises that keep it over several iterations. Spurious wakeups are always possible and never fair.

**One module per program.** An action has the name of the function, or of the function and its outcome (`AddWaits`, `Get`, `GetFails`). The variables keep the names of the fields; the others are the threads' positions and histories, which their comments say.

* `ThreadSafeQueue`, `ConcurrentJobQueue`, `ProducerConsumer`, `AsyncBatchLogger`: four implementations of one abstract specification, `FifoChannel` (a channel of messages, sent and received in order, with room for so many; as many as are logged in the logger's case, whose buffer has no bound).
* `ConnectionPool`, `PhoneNumberPool`: two pools; `Pools` adds the two simpler variants.
* `JobScheduler`, and `AsyncBatchLogger` again: a worker thread and its callers, with a clock. The logger writes its batch message by message while others log.
* `DistributedLock`: the lock and nodes like `serverNode`. Times are kept as distances from the clock, so that the clock needs no bound.
* `ThreadSafeLRU`: `getOrCompute`, in six actions split where the lock is released. The list is a sequence; the history `stored` keeps what was last put or fetched for each key, and `AnswersFit` compares every entry and every answer with it.
* `LRUCache`: the list by its pointers, on a heap whose addresses are reused after `delete`; it implements `LRUPolicy`, which knows only keys, values and the order of uses.
* `FizzBuzz`, `ZeroEvenOdd`, `FooBar`, `PrintInOrder`, `H2O`.
* `KVStore`: both key-value stores. A call queues for the lock, and takes a step for each access to the map inside it. They implement `AtomicStore`, in which every call takes effect at one moment. `FairLock` says whether threads are let in by order of arrival, `Ops` which calls there are; `hold` is the lock that `main`'s thread A of the Java program takes and never gives back.
* `Cache`, `TokenBucket`, `SlidingWindow`: against a clock. Next to the code's own times, cut to whole seconds where the code cuts them (`phase` is the rest) and disturbed when the system's clock is set back, each module keeps the true ages, and its properties are about these. The limiters keep times as distances from the clock, so that no run is bounded in time. `Cache` has the clock itself, up to `MaxClock`, because `put` passes the expiry, a long, as an int: `Narrow` is that conversion. `SlidingWindow` serves the steady clock (`TicksPerSecond` 1, one client) and `Microsoft/RateLimiter` (seconds of two ticks, several clients).
* `Broker`: subscribe, publish.
* `AmazonLocker`, `ConnectFour`, `TicTacToe`, `ParkingLot`, `Chess`: sequential, one action per call. `FileSystem`: Directory objects on a heap, a walk being a recursive function on the parts of a path; it implements `FileTree`, which knows only sets of paths.
* The two functions of `OOP/Rectangle.cpp` have no state; they are at the end of `Designs`.

**Families.** `Channels`, `Pools`, `Turns`, `Stores`, `RateLimiters` and `Designs` put several independent programs into one state space: the initial state chooses `program`, and the variables of the others never change. They share variables where the programs have the same ones. This is only a way of checking similar programs with one run; the conditions `program = ...` in their properties select the program a promise belongs to.

**MC modules** give values to constants that are functions. **Proof modules** are `ChannelsProofs`, `PoolsProofs`, `TurnsProofs`, `StoresProofs`, `RateLimitersProofs` and `DesignsProofs`, each for the family it extends; `DistributedLock` and `JobScheduler` carry their proofs at their end.

A definition whose name ends in an underscore and a suffix (`Take_NotifyIfFull`) is a mutant: a plausible bug in the definition before the underscore. It is used nowhere in the specifications. For every property of every passing run `PROJECT.json` names a mutant with which TLC finds it violated.

### What the models leave out or correct

* The texts of messages, the logging and the clock's resolution.
* Programs that do not compile as they stand are modelled as they are evidently meant: the constructor of `ThreadSafeQueue` is called `SimpleQueue` and `take` keeps the item in an `int`; `Microsoft/DBConnection.cpp` misspells `availableConnections` once; several files of `Microsoft/` and `OOP/` lack includes or a final semicolon; `Cache` would need a default constructor for its entries; `Broker`, and the pieces of `Chess`, read private members.
* Capacities are positive. With 0, both LRU caches erase a sentinel, which is undefined, and `ConcurrentJobQueue` blocks for ever.
* The parking lot's bill is only printed and is left out. It multiplies an hourly rate (line 129 of `ParkingLotManagement.cpp`) by the seconds that line 84 counts.
* A file's path has at least one part. For "/" `addContentToFile` and `readContentFromFile` read `parts[-1]`, which is undefined. A parking ticket is presented once, a vehicle is not parked again while it is parked (the code would give it a second spot), a request for tokens is positive and at most the capacity, and `getValidMoves` is asked of pieces of the player whose turn it is; for the others it would let a piece take those of its own colour.
* Rate limiters count in the tokens that refill in one tick, so that the doubles become whole numbers; rounding is left out. Clocks that are not steady are set back but never forward: a jump forward is time that seems to have passed, and would let more through than the limit, or an entry expire before its time. A long has 64 bits, so that the clock itself never wraps, and a ttl is not negative. Nothing ever removes a client from the map of `Microsoft/RateLimiter.cpp`, or an expired entry of `Cache` that nobody asks for.
* `AmazonLocker` keeps the vector's order of the compartments open: `Free` may be any free compartment of the size, since the order depends on earlier calls only.

## Runs

| Run | Module | Bounds | Shows |
|---|---|---|---|
| `channels` | Channels | 2 producers × 3 jobs, 3 consumers × 2, 2 slots; p1 and c1 of the Java queue may be interrupted; logger with batches of 3, 7 messages, timeout of 2 ticks | `NoSleeperLeftBehind`: with two condition variables every job (slot) has an awake thread of its kind of its own while another sleeps, so that one notification per call is enough; with one wait set for both kinds nobody sleeps who could go on; the logger's worker sleeps only while there is nothing to do. `SlotsConserved` for the semaphores, `NothingLost` for the logger's shutdown, `EventuallyWritten` for its last messages. `ChannelSpec`: all four implement `FifoChannel`. `Termination`. |
| `pools` | Pools | 3 clients, one of them possibly careless, 2 connections, a fake, 2 calls each | `PoolSound` whatever clients return, `ExclusiveLeases` between careful ones, `NoLostWakeup` with timeouts, `CallsReturn` for the timed pool even when everyone holds a connection and wants another. |
| `turns` | Turns | n = 17, past the first fizzbuzz; two molecules | `OutputInOrder`, `Termination`. |
| `scheduler` | JobScheduler | 3 jobs, delays 0 and 2, 3 ticks | `NeverOversleeps`, `RunsInDueOrder`, `EveryJobRuns`, `StopEndsWorker`. |
| `lock` | MCDistributedLock | 4 nodes with leases 1 to 4, two overrun by up to 3 ticks, two crash | `MutualExclusion`, `LeaseHonoured`, `CrashNeverBlocks`. |
| `stores` | Stores | LRU cache: 4 keys, 2 values, capacity 3, 4 addresses; single flight: 3 threads, 2 keys, room for 1 or 2; key-value stores: 3 threads, one key, 2 values; expiry: one key, ttl 0 and 1, seconds of 2 ticks, ints up to 4, any start of the clock up to 6, set back by up to 2; broker: 5 calls | `ListSound` for the pointers, `SingleFlight` for the fetches, `AnswersFit`: the cache holds, and a call answers with, what was last put or fetched for the key, `StoreSpec`: the LRU cache implements its policy and the key-value stores `AtomicStore`; `CallsReturn`, `ExpiresInTime`, `Delivered`. |
| `rate_limiters` | RateLimiters | buckets of 3 tokens, a token every second tick; windows of 2 seconds, 2 requests, 2 clients; set back by up to 3 | `WithinLimit`, `DeniesOnlyAtLimit`, `NeverLocksOut`. |
| `designs` | MCDesigns | 3 packages, 3 compartments, 2 codes; a 4 × 4 board, lines of 3; 3 × 3 Tic-tac-toe; 2 spots, 4 vehicles, one a bus; paths of 2 parts, 3 directories, 2 chunks of content; chess on 4 × 4 squares with 3 pieces | `LockerSound`, `CompartmentsComeFree`, `OutcomeCorrect`, `LotSound`, `TreeSpec`, `MovesCorrect`. |
| `single_flight_evicting` | ThreadSafeLRU | 3 threads, 2 keys, room for 1 | **violation** of `EveryCallerAnswered`, below. |
| `locker_one_token` | MCDesigns | as `designs` | **violation** of `OneTokenPerPackage`, below. |
| `tictactoe_turn` | MCDesigns | as `designs` | **violation** of `AnnouncesNextPlayer`, below. |

Why the bounds are enough: each run has more threads than slots (or connections, or room) of each kind, so that several sleep at once and are overtaken; more calls than it takes to fill and to empty; and at least two periods of every cycle (batches, molecules, leases). Keys of the key-value stores interact only through the lock, so one is enough; keys of the expiring cache do not meet, and its clock can pass the largest int and be set back from beyond it; an entry's expiry and a window's edge have ticks on either side; the chess board is smaller than 8 × 8, but each of the knight's eight moves stays on it from some square and leaves it from another, and a rook has up to three squares to go and may be blocked at each. The deadlock check is on where all threads return (their final state stutters by `Joined`) or where somebody can always go on, and off, as the cfg says, where the program may really stop: producers and consumers that wait for one who was interrupted, a logger that is joined, a scheduler that nobody calls, clients that wait for one another, a store whose lock is never given back, a game that is over.

### Fairness

Every thread that has the mutex in reach proceeds: weak fairness of each thread's actions where a critical section is one action. In `Turns`, where the mutex is explicit, it is not fair by itself and may be taken by others again and again, so that `Lock` is strongly fair (no `std::mutex` starves a thread for ever in practice, but no standard says so; without the assumption no program with two threads terminates). Timeouts elapse, clocks advance, tasks and fetches end. `CrashNeverBlocks` assumes that some node keeps trying (line 74 prints "I will retry later"), `CompartmentsComeFree` that the staff remove what has expired. In `Stores` a thread inside a call of the Java store proceeds when the lock lets it in, and the two seconds of a `tryPut` pass; `FairLock` is what lets every writer in. `std::shared_mutex` promises no order, so nothing is claimed of the calls of `KVStore.cpp` returning. `RateLimiters` assumes that time passes and nothing else. No call is assumed that the programs do not make: nobody need stop a scheduler, return a connection or pick up a package. Spurious wakeups, interrupts and crashes are never fair.

### Findings

* **`Microsoft/ThreadSafeLRU.cpp:106`**. A caller that sleeps waits for its *key to be in the map*. When the fetch ends it is notified, but if another insertion evicts the key before the caller has the mutex, it sleeps on; `inProgress` has forgotten the key, nobody fetches it for this caller, and when no other call comes it never returns. It takes three callers, two keys and room for one. `main` has one key and room for five. The property that shows it, `EveryCallerAnswered`, is what `main` relies on when it joins every caller.
* **`AmazonLocker.cpp:130`**. A code that is drawn while in use replaces the token of another package, against line 10 ("One access token per package"). The first customer's code then opens the second package's compartment and the first compartment can never be freed.

* **`OOP/TicTacToe.cpp:102`**. The message "turn now" is built from the parameter `p`, which hides the member that `changePlayer` has just changed, and so names the player who made the move.

Read off the code, and not made into runs: `Microsoft/Cache.cpp:9` takes the expiry as an int, so that from January 2038 on, or today with a ttl of more than the years until then, every entry has expired when it is put (`ExpiresInTime` says so of the model); `ParkingLotManagement.cpp:84` counts seconds in `getDurationHours`; `AsyncBatchLogger.cpp:13` announces three seconds, line 39 waits two; `BuildingH2O.cpp:9` has a first hydrogen wait, lines 38 to 47 let it pass (the order is a valid one all the same); `Practice/DBConnection.cpp:58` calls a second return invalid, but it is accepted once the connection has been leased to somebody else.

## Proofs

TLAPS proves every safety property that a passing run checks, the refinements included, for all values of the constants that satisfy the named assumptions. Each family is proved as it is checked, as one specification: every step belongs to one program and leaves the variables of the others alone, so that a family's invariant is a conjunction of `program = ... => ...`, each part preserved by the steps of its own program.

**Assumptions.** A family's assumption (`ChannelsAssumption`, `PoolsAssumption`, ...) is the conjunction of its programs'. These say no more than that threads, slots or positions are finite in number where they are counted, capacities are positive where the code would misbehave with 0, durations are natural numbers, and the values that stand for nothing are no values. TLC evaluates them in every run. Bounds on calls, messages or the clock that make the state space finite stay in the guards and are arbitrary in the proofs.

**`ChannelsProofs`**, from `ChannelsAssumption`.
* `NobodySleepsOn`. For two condition variables the property is inductive given the types: a count. `JobsClaimed` and `SlotsClaimed` say that while somebody sleeps the awake threads of that kind are at least as many as the jobs (slots); an action that adds a job, or lets a consumer fall asleep, changes that number by exactly as much as is needed (`AwakeCount`, on cardinalities before and after). For the Java queue, where `notifyAll` leaves nobody asleep, it is inductive with the types alone. For the logger it is part of `LoggerInv`.
* `SlotsAccountedFor`. `SlotsInv` adds to the equation, which is about every position between the two semaphores, that a producer which has reserved a slot still has a job to put there.
* `LogComplete`. `LoggerInv` is `NothingLost` with `InOrder` (written, batch and buffer one behind the other are the messages in the order of `log`) and `WorkerTidy` (the batch is empty unless it is being written, and the worker leaves its loop only with an empty buffer after the stop).
* `ImplementChannel`. The refinement mapping takes what was sent to be what was delivered followed by what is in the queue (for the logger, batch and buffer). Four lemmas show the steps that a user of the channel can see to be its steps: `PutSends`, `GetReceives`, `LogSends`, `WriteReceives`; everything else stutters.

**`PoolsProofs`**, from `PoolsAssumption`. `PoolsSound`, `LeasesExclusive`, `WakeupsSuffice`. A queue is handled by what popping its head and pushing at its end do to the set of its members and to its being free of repetitions (`Popped`, `Pushed`). The wakeup property is a count again; a client that times out counts among those on their way. With careless clients the pools stay sound and the leases of the careful ones may not be exclusive, so the two are separate theorems of one invariant. Sound means that nothing is queued twice, the queue does not outgrow its size, and the ledger or set agrees with it. A connection that the pool did not make is never in the ledger and so never let in; `PhoneNumberPool` knows only which numbers are free, and takes a foreign one when its queue is short.

**`TurnsProofs`**, from `TurnsAssumption`. `PrintedInOrder`. The invariants say where each thread's loop stands compared with the others': `FBInv` (with `TokenIsMine`: a thread prints only what the number whose turn it is calls for), `InStep` (the counters of the zero, odd and even threads), `FooBarInv`, `FooInv`, and for water that the third, sixth, ... atom is the oxygen. From `Exclusive` (one thread inside the mutex) nobody else moves in between. What is printed is not an invariant by itself in any of them: it needs the counters, which are reset or advanced in other critical sections.

**`StoresProofs`**, from `StoresAssumption`.
* `FetchesOnce`, `AnswersTheKey` (`FlightInv`): the keys in the recency list are distinct and no more than the capacity; a key is in `inProgress` exactly while one thread fetches it; and the list's entries carry what `stored` has for their keys (`Stored`). What is brought to the front is the entry of its own key, and the others keep theirs (`OthersFit`), so that each step answers with what was stored last (`AnswerSteps`).
* `ListAndMapInStep`, `PolicyKept`: `ListInv` says that there is an order of the nodes, from head to tail, along which `next` and `prev` are inverse; that the map finds exactly those nodes; and that for each of them the policy's `usedSince` is the set of the keys behind it (`Recent`). From the last part the node after the head is the least recently used. The order is under an existential quantifier, and `get`, `put` and the eviction each give the new one (`Removed`, `Appended`, `Moved`). That the destructor's walk reaches every node is shown by the least place where it could leave that order.
* `CallsAtomic`: `KVInv` says what a thread found in the map is still true, because a reader only reads and a writer is alone; so each call takes effect when it returns. `StoresKeepPromises` joins this with `PolicyKept` into `StoreSpec`.
* `FoundInTime`: `Narrowed` says that the conversion changes nothing if the expiry is an int, and otherwise leaves one further back than any clock is set. `Timely` bounds the true age of an entry by what is left of it on the clock of whole seconds, from both sides unless the clock was set back, and keeps an expiry that was no int in the past; `TimelyTick` and `TimelySetBack` are the arithmetic.
* `MessagesDelivered`: in a topic's list each subscription stands behind as many as there were before it (`Enrolled`), and on the console each delivery behind as many as there are before it in the order of messages and subscriptions (`PrintedAll`). A subscription takes part in no earlier delivery, and those of a new message come after all others, so that one more call changes no rank.

**`RateLimitersProofs`**, from `LimitersAssumption`. `NeverTooMany`, `NeverTooFew`. For the buckets `Balanced` says that what was let through and what could be let through now make up the capacity, at most, and exactly when the clock was never set back. For the windows `Kept` relates the queue of times with the true ages: each age that still counts has its place in the queue, `Close` to what the clock of whole seconds says of it. What the loop at the head of the queue drops is found by a least counterexample (`Least`).

**`DesignsProofs`**, from `DesignsAssumption`.
* `SpotsMatchTickets` (`LotInv`), `PackagesKept`: `LockerInv` adds that a package lies in at most one compartment, and in one exactly if it was deposited and is not gone.
* `RulesOfChess`: the rook's loop reaches a square exactly if all between are empty (`Reached`), the knight's table is the set of all leaps (`Leapt`).
* `OutcomesRight`: `OutcomeCorrect` is inductive for both games. A line of the winner must go through the disc just played (`ThreeStep`, `FourStep`), since there was none before. For Connect Four the counts of equal discs on the two sides of that disc (`Counted`) are the two halves of the longest run through it (`RunsMeet`), and such a run is long enough exactly if a line of the board is (`WinIsRow`). That a column's top cell tells whether it is full (`TopIsFull`) makes the draw right.
* `FilesMakeATree`: the inductive invariant `FSInv` says that the directories have paths, `TreeOf`: no two the same one, an entry leads to the directory whose path is one part longer, every directory but the root is some entry, and no file lies deeper than paths go. So the walk of the code ends at the directory that has the path, or nowhere if there is none (`DirIs`). `EnterStep` adds at most one directory; along a path (`EnteredReaches`) it adds the path with all that is above it, and no file changes (`FilesKept`); writing a file changes that file (`Written`). What is in a directory is what has a path one part longer (`Held`), so that both listings sort the same. That the two recursive functions have a value all along the path is shown by the least place where they would not (`EntryExists`, `Least`).
* `OverlapsMeansCommonPoint`, `ContainsMeansEveryPoint`, from no assumption but that the corners are in order.

**`DistributedLock`**, from `LockAssumption`. `TypeCorrect`: no lease outlasts its time to live. `Exclusion`: `MutualExclusion` is not inductive; `LeaseCovers` is, which says that a node within its lease is the owner and the lock lasts as long as what is left of that lease. So a node can only acquire the lock when nobody is within a lease, and two nodes within theirs would both be the owner. Nothing is assumed of crashes, or of how long anybody works. `LeasesHonoured`: an action property, from the same actions.

**`JobScheduler`**, from `SchedulerAssumption`, whatever the horizon of the clock. `TypeCorrect`: types. `WakesInTime`: `NeverOversleeps` is inductive given the types: a sleep begins with the queue in sight, and whatever would make it too long (`schedule`, `stopScheduler`) notifies the sleeper in the same call. `DueOrder`: `RunsInDueOrder`, inductive as well; a later `schedule` cannot disturb the order of the jobs already started, since it changes the due time of no other job.

### Only model-checked

* Liveness, which is beyond the prover: `Termination`, `EventuallyWritten`, `CallsReturn`, `EveryJobRuns`, `StopEndsWorker`, `CrashNeverBlocks`, `NeverLocksOut`, `CompartmentsComeFree`.

## Plan

Every safety property of the runs is proved. What remains is to prove more about the models than the runs ask: that the exercises cannot all wait for one another, as an invariant on the counters (TLC checks it as the absence of deadlock); and that the thread-safe LRU cache, between two fetches, follows the recency order of `LRUPolicy`.
