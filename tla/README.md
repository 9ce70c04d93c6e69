# TLA+ models of libvsf

libvsf observes the virtual machines of a NUMA host (which VMs run, on which
threads, how busy they are and how they miss the cache) and moves their
threads.  This directory models its concurrent and stateful core in TLA+,
checks the models with TLC on small instances and proves some of the results
for all instances with TLAPS.  `PROJECT.json` lists the components, the runs,
the source lines each definition stands for, the hazards and the theorems.

## 1. The system

A program makes one `Vsf`, names options with `init()`, gets a `Host` with
`init_host()` and, as often as it likes, the set of VMs with `init_vms()`.
Everything behind these calls is a singleton.

| Component | State | Operations | Model |
|---|---|---|---|
| `Runnable` (utils/runnable) | `stop_` (atomic), `thread_` (not), the thread | `start`, `stop`, `joinable`, `run` | `Runnable`, `Service`, `RunnableProofs` |
| `VmBase` (sysinfo/vm/dynamic) | the VM list and tables, `has_data_`, command, callback | getters, setters, `refresh`, `run` | `VmBase`, `VmBaseProofs` |
| `VmId` | start time and pid | `==`, `<` | `VmId`, `VmIdTable`, `VmBaseProofs` |
| `VmSet`, `Vsf` (framework) | registered callback objects, which modules run | `set_param`, `clear_param`, `init_vms` | `VmSet`, `VmSetProofs` |
| `FuncOption` (utils) | option -> parameters | `enable_option`, `check_option`, `get_param` | in `VmSet`, `NodeDist` |
| `OptionParamVal`, conversions of `Host` | a tagged union with a string | constructors, `operator=`, getters, destructor; to and from `MicroParam` | `OptionParamVal`, `HostProofs` |
| `NodeTestDist`, `NodeSysDist`, `Host` parameters | cached matrices and the parameters they are of | getters, `set_param`, `clear_param`, `clear` | `NodeDist`, `HostProofs` |
| `VmCacheMiss`, `CacheMiss` | watched threads, perf events, sums per VM | getters, `refresh`, sampling, `clear_param`, `run` | `VmCacheMiss`, `VmCacheMissProofs` |
| `VmCpuUsage`, `CpuUsage` | counters of two refreshes, watched processes | getters, `refresh`, `run` | `VmCpuUsage`, `VmCpuUsageProofs` |
| `NodeCpu` | topology tables, `has_data_` | `refresh`, lookups, `clear` | `NodeCpu`, `NodeCpuProofs` |
| `CpuMig`, `Exec` | pending affinity masks | `set_cpu_mig`, `exec_cpu_mig` | `CpuMig`, `Affinity`, `HostProofs` |
| `hsUsedMemSize`, `hsCpuUsage`, `totalMemSize` | last values, a flag that says there are some | getters, `run` | `HostSamplers`, `HostSamplersProofs` |
| the three VM modules together | who holds and waits for which mutex | getters, callbacks, `init_vms()`, `exit()` | `VmLocks`, `VmSetProofs` |

The rest (log, strings, perf system call, benchmark program, compatibility
check, node sizes, static VM information) reads files or formats text, or is
not built; `PROJECT.json` lists each with its reason.  Most of the lines of the
repository are the vendored test framework under `src/tools/gtest`, which is
left aside.

How they interact:

* Every dynamic module *is a* `Runnable`.  A getter asks `joinable()`: if a
  worker runs, it polls `has_data_` until a refresh has happened; otherwise it
  refreshes itself.  Both ways end in a read under the module's shared lock.
* `VmCpuUsage` and `VmCacheMiss` call `VmBase`'s getters while they hold their
  own mutex; `CacheMiss` calls back `VmCacheMiss`, which calls `VmBase` again.
  The order of the mutexes is always (`CacheMiss` or `CpuUsage`), then `VmBase`.
* User callbacks run under the exclusive lock of the module that calls them.
* At `exit()` the singletons are destroyed in the reverse of the order in which
  they were made, and each dynamic module stops and joins its worker.
* `VmSet` owns the callback objects that the program allocates, hands their
  contents to the modules in `init_vms()`, and starts the modules.

What is hard in it: flags read before a lock and trusted after it; `thread_`
read without any lock; refreshes that look at a changing machine twice and
throw in between; refreshes of several threads that interleave between their
critical sections; ownership of callback objects through sequences of
`set_param`, `clear_param` and `init_vms`; caches keyed by parameters; an
order relation with a tolerance; usages that are quotients of two differences,
which must be of the same two rounds; a string that lives in a union.

## 2. Modules

**`Service`** promises what a user of a background service needs: a call to
start returns with a worker launched, a call to stop returns with none left,
and never two workers.  **`Runnable`** is the code: each access to `stop_` and
`thread_` is an action of its own (`StartCheck`, `StartReset`, `StartFlag`,
`StartSpawn`, `StartPublish`; `StopCheck`, `StopFlag`, `StopJoinable`,
`StopJoin`; `JoinableCheck`, `JoinableDeref`), and the worker goes through
`RunTest`, `RunRound`, `RunClear`, the common shape of all `run()` functions.
What `std::thread` and `unique_ptr` do to the process (destroying or joining a
thread wrongly, dereferencing null) sets `crashed`.  `Serialised` says that
callers take turns in `start()` and `stop()`; that is what `init_vms_mutex_`
and the single-threaded tests give the code, which has no lock of its own.
`ImplementsService` maps `Runnable` to `Service`.  `join()` is not modelled:
nothing in the library calls it.

**`VmBase`** extends `Runnable` with the tables and their mutex.  A refresh is
two actions (`RefreshMost`, then one of `RefreshVcpu`, `RefreshBlocks`,
`RefreshThrows`) between which VMs may boot and exit; the mutex is held from
the first to the second.  That ps does not start, or gives a line that the first
half throws on, is left out: no table would hold more than the second half's
exception leaves in them.  A getter is `Begin`, `GetterJoinable`, possibly a
refresh, `GetterPoll` and `GetterRead`.  A worker whose refresh throws ends the
process, since `run()` catches nothing.  Three history variables say when less is promised: `failed`,
that the last refresh threw and its half-filled tables are still there; `kept`,
that `clear_param()` changed the command under the data; `overtaken`, the
getters whose data was cleared between their poll and their lock.  The listing
of the volatile threads changes no table that the properties speak of: it is a
getter that may throw before it begins (`Scanned`).

**`VmId`** has the two comparisons, **`VmIdTable`** the ids that successive
refreshes compute for processes that start, end and reuse pids.  The start time
is "now minus elapsed", where "now" is read before `ps` reads the clock, and both
are cut to seconds: it comes out up to `Early` seconds early or `Late` seconds
late, for each process and refresh anew.  The tolerance of two seconds covers
`Early + Late <= 2`, which is assumed, and so is that a pid is not used again within
`Margin >= 5` seconds.  Then an id always finds its own VM (`IdsTellVmsApart`).  The
operators are still not an order on all ids (starts at 0, 2 and 4 seconds are near
in pairs only; with an error of a second either way, VMs that started one second
apart can be seen three apart), so that `KeysOrdered` speaks of the states in which
the VMs behind the keys have started `Together`, so close that no error parts them,
or `Apart`.

**`VmSet`** follows the callback objects through the registry: an address
stands for the object and for the function it holds; freed addresses are used
again.  `set_param` deletes, applies and registers in three steps;
`clear_param` walks the cases of its switch, which fall through; `init_vms`
applies and starts option by option.  A `CALLBACK` of `NULL`, as `clear_param`
registers it, is a value that is in the map and points to nothing.  `forgotten`
and `swept` remember what the fall-through did to other options: objects whose
only pointer was overwritten, and modules reset behind the registry's back.

**`NodeDist`** has the cached matrices.  A matrix is named by the parameters
and the number of its measurement.  `get` looks under the shared lock
(`GetCached`, `GetMisses`) and measures under the exclusive one
(`GetMeasures`), which may be cut short, or throw before the first measurement;
`Host` changes the registry and the module in two steps and takes no lock.
`overlap` says that the last parameter calls were made one inside another, and
`since` is forgotten while a caller that has looked is about to measure anew.
`changed` counts the parameter calls since the matrix was measured: after two,
`set_param()` has made the old matrix pass for the new parameters.

**`VmCacheMiss`** extends `Runnable` with the three critical sections of a
refresh: `RefreshList` (list the threads, note whom to watch and drop),
`StartSample` (act on the notes, first read), `StopSample` (second read and
sums), then `RaiseFlag`.  Threads come and go, perf events may fail to open or
to read, VmBase may throw, and `clear_param` takes the inner callback away for
a moment.  The samples themselves are abstracted to how often each is counted.

**`VmCpuUsage`** extends `Runnable` too.  A refresh is `RefreshList` (the notes
of which processes to watch and drop) and `RefreshCpu` (host, notes, threads),
two critical sections; either may throw, the second between its parts.  A
sample is named by the round it was taken in, so that a usage is the pair of
rounds of its thread next to the pair of the host; `has_data_cnt_` counts
refreshes up to two.  A process has one thread, and "idle" is one that has not
used any CPU time, which the code cannot tell from one never sampled.

**`NodeCpu`** has the topology: `Check` tests `has_data_` without the lock,
`Lock`, `RefreshNodes`, `RefreshCpus` and `RefreshOthers` fill the tables, each
of the first two possibly ending in an exception, `Read` stands for the getters
and `Clear` empties everything.  The lookups are operators on the tables.
`CpuList` writes what the kernel would, `Parsed` reads it as
`refresh_node_hpthread` does, the overlong cut of each part included.

**`OptionParamVal`** follows the string in the union of a parameter's value: it
is `"none"`, `"alive"`, or `"bad"` after any misuse, and each constructor,
assignment and destructor of the code is the sequence of beginnings, uses and
ends it performs.  Two operators convert between maps of such values and
`MicroParam`, as `Host` does.

**`Affinity`** is what a migration promises: a request stays until the thread is
moved or is replaced by a later one, and is given up only when the machine
refuses that very request.  **`CpuMig`** is the code: `SetCpuMig` under the
mutex, and `exec_cpu_mig()` as `ExecBegins`, an `ExecMoves` per entry and
`ExecEnds`, or `ExecFails` when there is no memory for the mask.  Threads end and
begin at any time, also in the middle of the loop, and ids are used again.
The kernel may refuse any request (`Refuses`): the thread is gone, its CPUs are
offline or outside its cpuset, or the program lacks the permission; `exec_cpu_mig()`
logs all that alike and forgets the entry.  `refused` remembers what was refused, so
that the properties can tell a request that the kernel had from one that got lost or
changed on the way.  CPU ids are those of the machine; `CPU_SET` with an id beyond
them would write outside the mask (cpu_mig.cpp:40).
`ImplementsAffinity` maps an entry that the loop has passed to "nothing wanted",
although the table is emptied only at the end.

**`HostSamplers`** extends `Runnable` with the three samplers of the host; `kind`
says which class the object is of.  What the machine shows is the number of its
changes, and a collection is named by what its first reading saw.
`hsUsedMemSize` collects under its lock and raises its flag in `run()` only;
`hsCpuUsage` reads twice without the lock and publishes under it, raising the
flag; `totalMemSize` has no worker.  `fds` counts the descriptors of
`/proc/stat`, which `hsCpuUsage` never closes, unless the process may have any
number of them (`endless`): what the samplers do in the long run can only be asked
of such a process.  A `/proc/stat` that opens and has no lines is left out.

**`VmLocks`** puts the three VM modules together without their tables.  What a
thread does is the sequence of steps it has left: to lock, to ask whether a
worker is joinable, to poll a flag, to run a callback, to join.  The calls of
the code are operators that give such sequences (`Getter`, `RefreshBase`,
`RefreshCpu`, `RefreshMiss`, `InitVms`, `SetParams`, `ClearParams`, `Exit`), with the
getters of `VmBase` in the middle of the refreshes above it, and callbacks that call
down again.  `uses` is the set of modules whose options are registered, one of
`Uses`; an option in `init_vms()` sets any of its parameters (`Settings`: a command
empties `VmBase`'s tables and lowers its flag, a callback takes the module's mutex)
and starts the worker.  An exception in a call of the program unwinds it (`Throw`), in
a worker it ends the process (`Terminate`).  A
mutex is locked by a `unique_lock`, which an exception unlocks, or by hand, which
it does not (`lost`).  `Held` reads off such a sequence which mutexes its thread
must hold: those that it unlocks before it locks them.

Definitions marked "Fault:" are wrong variants of the definition they precede:
putting one in its place must break the property that `PROJECT.json` pairs it
with.  They show that each property can tell a wrong program from this one.

## 3. Runs

| Run | Shows | Bounds, and why they are enough |
|---|---|---|
| `RunnableSerial` | one worker, `stop()` ends the worker, only `joinable()` crashes, `stop()` returns, `Service` is implemented | 3 callers: one in a call, one waiting, one in `joinable()`; 2 thread objects: a restart beside a thread that is still referred to |
| `VmBaseShared` | tables whole unless a refresh threw, VMs of the command in force, reads of what refreshes produced, `stop()` returns, waiting getters are served | 2 callers and the worker, 2 VMs of 2 commands, 2 parameter changes: enough to change and change back or clear; callbacks that call getters |
| `VmIdTable` | ids of any mix of refreshes tell VMs apart, keys of VMs that start together or apart are ordered | 2 pids, 7 instants, margin 5, an error of a second either way: room for two groups of starts, a reused pid, and ids kept from a refresh with other errors |
| `VmSetSerial` | callback objects are owned once, none dangles, what leaks is what `clear_param` forgot, modules hold what is registered | 3 options, 4 addresses: one per option and the new one; one call at a time, `clear_param` of any option |
| `NodeDistShared` | results are of the parameters in force and stay the same until something changes; registry and module agree | 2 callers, so that one changes parameters or measures between another's look and its measurement; 3 parameters, 4 measurements |
| `VmCacheMissOneThread` | no perf event leaks, no sample counts twice, what is watched follows what is listed | 1 caller and the worker, one stable and one volatile thread; every failure allowed |
| `VmCpuUsageOneThread` | old and new sample of a shown usage are of the host's last two rounds, what is shown is watched, what is watched follows what is listed, getters read after two refreshes | 1 caller and the worker, 2 processes, 3 rounds: one more than a usage needs; exceptions of VmBase and of `/proc` |
| `NodeCpuShared` | `has_data_` stands for complete tables and whoever fills them holds the lock; lookups agree; cpulists are read back | 2 callers that fill, read and clear, and files that fail; one node with any set of ten threads, which gives every cpulist of one-digit ids, and seven ways to spread threads over 2 nodes and 2 sockets (halves, alternating, two threads per core, a node over two sockets, two nodes in one) |
| `OptionParamValThree` | strings live as the tags say, conversions lose nothing | 3 objects: two assigned to each other and a third; 2 contents |
| `CpuMigShared` | no request is lost, the kernel is asked for what the program asked for, `Affinity` is implemented | 2 callers, so that one waits while the other executes; 2 thread ids, so that one comes and goes while the other is moved; 3 CPUs, one offline, so that a mask may be met in part or not at all |
| `HostSamplersShared` | getters read a sample, getters that collect read a fresh one, a running worker catches up with the machine | each class; 2 callers and the worker, 2 changes of the machine: one before and one within a collection; 5 descriptors, which is two collections and one reading more, or any number |
| `VmLocksTogether` | whoever waits holds only mutexes from above, an exception loses only mutexes locked by hand, every call comes back, `exit()` too | 1 program thread and the 3 workers, which is 4 threads for 4 mutexes; `VmCacheMiss`'s callback calls `VmCpuUsage`; the options of all three modules, of `VmCpuUsage` alone or of `VmCacheMiss` alone, as the tests of the repository have them (pairs of options are in the proofs, but not in the check of `CallsEnd`); no call after a mutex has been lost (`CallsOnLost`) |

Deadlock checking is off where the system may stop: where `crashed`, `fault`
or `lost` ends it, where a callback waits for its own thread ("stuck"), and where
the bounds on measurements, rounds and parameter changes do.

What the runs exclude, because the property does not hold beyond it:

* callers that do not take turns in `start()`/`stop()` (two threads pass the
  test of `stop_`; a second `stop()` returns while the worker runs);
* concurrent calls in `VmSetSerial` (`set_param()` frees what `init_vms()` copies);
* two callers in `VmCacheMissOneThread` (overlapping refreshes add twice) and in
  `VmCpuUsageOneThread` (overlapping refreshes count as the two that a usage needs);
* `/proc/stat` that does not open in `VmCpuUsageOneThread` (the notes to watch
  and to drop the same process may then meet in one refresh, and dropping wins);
* cpulists with a single thread before a later range in `NodeCpuShared`
  (`0-1,3,5-6` is read as `0-1,3-6`; `WellCut` says which lists are free of it),
  thread ids of several digits, and hot-plugging;
* callbacks in `VmLocksTogether` that call a getter of their own module or of one
  above it (they wait for a mutex that their own thread holds).

Faults of the code that the models reach, and that the properties therefore
leave out by name:

* `joinable()` reads `thread_` twice while `start()` resets it (runnable.cpp:31;
  `OnlyJoinableCrashes` says that nothing else crashes);
* a getter that saw the worker polls for ever when `stop()` lets the worker clear
  the data first (vm_base.cpp:80; `GetterServed` leaves out a raised `stop_`);
* a callback that calls a getter of its module blocks (vm_base.cpp:180; `Stuck`);
* a refresh that throws leaves half-filled tables, which getters go on reading
  (vm_base.cpp:335; `failed`), and `clear_param()` keeps the VMs of the other
  command (vm_base.cpp:68; `kept`);
* an exception between `lock()` and `unlock()` keeps the mutex locked
  (vm_cache_miss.cpp:121, vm_cpu_usage.cpp:96; `lost`);
* `clear_param()` registers a null callback, which the next `init_vms()` reads
  through (vm.cpp:176; `fault = "null_deref"`), and its switch falls through to
  the options after the one it was given (vm.cpp:46-96; `forgotten`, `swept`);
* two parameter calls in a row make the matrix of older parameters count for the
  new ones (node_test_dist.cpp:20; `changed`);
* a process that has lost its tasks divides by zero (cpu_usage.cpp:280;
  `DividesByZero`);
* `/proc/stat` is opened for each reading and never closed, until it does not open
  and a null `FILE` is read (hs_cpu_usage.cpp:49; `CollectCrashes`);
* the values of a worker that was stopped are returned for ever
  (hs_used_mem_size.cpp:46; `ran`);
* `set_vm_cmd()` empties `VmBase`'s tables between the refresh and the poll of another
  thread: if `VmBase` has no worker, as when only `VmCpuUsage`'s option is registered,
  that thread polls for ever, and `exit()` waits for it if it is a worker
  (vm_base.cpp:43; `Overtaken`);
* two parameter calls on two threads leave the registry and the module with different
  parameters (host.cpp:30-63; `overlap`);
* of VMs that start a second apart the keys may be seen three seconds apart in one
  refresh and near in another, so that the order of the tables breaks
  (vm_base.cpp:225-249, 404-410; `Spaced`);
* a migration is applied to whichever thread has the id by then (cpu_mig.cpp:24;
  `asked`).

## 4. Fairness

`RFairSpec` is weakly fair to each caller inside a call and to each worker: the
operating system runs threads that can run, and a round's sleep is finite.
`VmBase`'s `FairSpec` is strongly fair to the steps that wait for `data_mutex_`:
every holder lets go after one refresh and the worker sleeps between rounds, so
a waiter finds the mutex free again and again.  A getter that polls `has_data_`
gets weak fairness only: it looks every ten milliseconds and may miss a flag
that does not stay up.  `VmLocks` is strongly fair to each thread for the same
reason as `VmBase`; `shared_timed_mutex` alone does not promise it, and threads
that never sleep could break it.  `HostSamplers` is weakly fair to callers and
workers; a collection is never kept from its lock, which is held for a copy.
Nothing is assumed of the program or the machine: beginning a call, VMs that
boot or exit, and exceptions are never fair.

## 5. Proofs

Each proof is for every value of the constants that the `ASSUME`s of the modules
allow; what a theorem assumes beyond them stands in its statement and below.
The inductive invariants are defined at the end of the modules they are about
(`RInv`, `DataInv`, `SetInv`, ...).  Three premises come back:

* `Serialised = TRUE`: callers take turns in `start()` and `stop()`, as
  `init_vms_mutex_` makes them.
* `OneThread`: the program uses the object from one thread, next to
  the worker.  Several threads break the property, as section 3 says.
* Premises about the machine: `Margin >= 5` and `Early + Late <= 2` (`VmIdTable`), `/proc/stat` opens
  (`VmCpuUsage`), the threads of a core are of one node (`NodeCpu`).

### Runnable (`RunnableProofs`; `Serialised`)

* `Invariance`: `RInv`, with the types, is an invariant.  The property "one
  worker" is not inductive; `RInv` says what a caller inside `start()` or
  `stop()` knows at each step (nothing runs after `StartCheck` saw `stop_`; `thread_` is the
  worker to be joined after `StopFlag`), and that between calls the object is
  exactly stopped or running.
* `TypeCorrect`, `SingleWorker`, `FlagIsTruthful`: consequences of `RInv`.
* `StopIsDone`, `OnlyJoinableFaults`: action properties, from `RInv` and the
  steps it allows.  `Safe` adds: without `joinable()` calls nothing crashes.
* `Refinement`: `Runnable` implements `Service`, every step a step of it or a
  stutter.

### VmBase, VmId and the keys (`VmBaseProofs`)

For every set of callers, VMs, commands and callbacks, whether callers take turns
or not, `DataInv` is an invariant (`Invariance`), from which `TablesAgree`
(`DataWhole`), `ListIsOfCommand` (`DataOfCmd`) and `GettersRead`
(`ReadsSnapshot`) follow.  It strengthens the two properties by what holds while
somebody fills the tables (the list alone is of the command in force) and by
what a getter between poll and lock knows.  `TypeCorrect` is the type invariant,
`Runnable`'s included.

On every set of ids whose start times are clustered `==` is reflexive, symmetric and
transitive, and the equivalence of `<` (`EqIsEquivalence`), and `<` is a strict weak
order (`OrderedWhenClustered`).  `IdInvariance` says that every id in the
tables, or in an object the program has kept, was observed of a process that ran,
`Early` seconds early to `Late` seconds late, and that a pid was used again `Margin`
seconds later (`IdInv`).  `IdsAreOfTheirVm` (`IdsTellVmsApart`) follows from that
alone: two observations of one start are at most `Early + Late <= 2` seconds apart,
those of one pid used twice at least `Margin - 2 >= 3`.  `KeysAreOrdered`
(`KeysOrdered`) follows in the same way for VMs that are `Spaced`, whose keys are
clustered (`NearAsProcs`); it says nothing of VMs that are not.

### VmSet (`VmSetProofs`; `Serialised`, which here is one call at a time)

For any clients and addresses `SetInv` is an invariant: no two options are
registered with the same object (`Distinct`), a registered object is alive unless
the call under way has just freed it (`Alive`), and every object is registered,
about to be, or forgotten (`Owned`).  `NoDangling` (`PointersAlive`) and `NoLeak`
(`RegistryOwns`) are not inductive without these, since a call frees an object
two steps before it replaces the pointer to it.

`ModulesFollow` (`ModulesAgree`) adds `ModInv`: the module of an option that a
call has applied but not yet registered (`Between`) has what the call is going to
register; every other running module has what is registered.

### The VM modules together (`VmSetProofs`)

`LockInvariance` shows, for any threads, any options, any callbacks that call
getters of modules below, and exceptions wherever a file may be gone, that what a
thread has left to do is in order (`Orderly`): each step fits the mutexes held
when it is reached, each lock is of a mutex that is unlocked later, the loop of a
worker tests and ends with nothing held; and that the thread holds nothing but
what `Held` reads off its steps.  The proof has one lemma per call of the code
(`GoodGetter`, `GoodRefreshCpu`, `GoodRefreshMiss`, `GoodInitVms`, ...): put before
steps that are in order for the mutexes held, it gives steps that are in order.
`GoodSetting` and `GoodOption` do this for the parameters that an option may have.
A step of a thread takes the head of such a sequence off (`Acting`) or puts a call
before it.  `WaitersHoldFromAbove` (`LocksInOrder`) and `HandLocksOnlyLost`
(`LostByHandOnly`) follow.  Neither is inductive: both depend on what a thread
does many steps later.

The order of the mutexes says nothing yet of who waits for data or joins a worker.
`WorkerInv` adds that a worker waits for nothing above its module, polls no data
of its own and joins nobody (`WorkersWaitBelow`); a thread that joins holds nothing
(`Fits`).  `NobodyWaitsInARing` (`NoRing`) puts these together: in a set of threads
that all wait for each other, for mutexes, data or the end of a worker, for
everything waited for there would be something lower that is waited for too, and
levels are finite in number.  TLC finds `NoRing` and `WorkerInv` true within the
bounds of `VmLocksTogether`, and `NoRing` false when `refresh()` of `VmCacheMiss`
keeps its mutex over the call of `VmBase`; no run of the project lists the two, as
`LocksInOrder` stands for them there.  That every call comes back (`CallsEnd`) also
needs that each round of a worker ends and that somebody raises the flags which
`set_vm_cmd()` lowers: TLC checks it, and `Overtaken` names the case in which nobody does.

### Host (`HostProofs`)

`CpuMig`: `MigInv` says that the last request for a living thread is still to be
worked off as it was made, or met, or was refused as it was made (`Invariance`).
`NoRequestLost` follows, and
`Refinement` shows that every step of `CpuMig` is one of `Affinity` or a stutter,
for any clients, threads and CPUs.

`NodeDist`: `MatrixOfParam` (`CacheOfParam`) holds for any threads of the program.
Its invariant `MatrixInv` says that a matrix that counts is of `last_param_` while
parameters were changed at most once, and that `last_param_` lags behind `param_`
only after a change.  `CallerInv` adds what a call between the module and the registry
holds while no other such call surrounds it, and that what was returned last, with
nobody about to measure, is what the cache would return: `RegistryFollows`
(`RegistryAgrees`) and `ResultsAreStable` (`StableWhileUnchanged`), for any threads too.

`OptionParamVal`: for any objects and contents every operation takes sound objects
(`Sound`: the tag and the string agree) to sound objects, hence `NoBadString` and
`TagIsTruthful`, and the conversions of `Host` are a round trip on what the
benchmark was given (`RegistryGivesBack`).

### The samplers (`HostSamplersProofs`)

For any number of callers and threads, whether they take turns in `start()` and
`stop()` or not, the flag, and every position of a getter that reads without being
told that its collection failed, stand for a published collection (`SampleInv`);
`GettersReadSamples` (`ReadsSample`) follows.  `MemNeverOlder` (`MemFresh`) adds
`FreshInv` for `hsUsedMemSize`: it collects under its lock, so that what is shown
never goes back, and a getter that has collected reads nothing older than its call.

### VmCacheMiss (`VmCacheMissProofs`)

`EventsAreOfEntries` (`NoFdLeak`) holds for any callers and threads: events are
opened and closed in the same critical section as their entries.  With one thread
of the program (`Serialised`, `OneThread`), `CacheInvariance` shows that only one
refresh is under way (`TurnInv`: the program refreshes while no worker runs, and
`RInv` says when that is), what the notes say between the critical sections that
write and follow them (`Noted`) and otherwise (`Settled`), and that the sums are
zero until the second reading (`SumInv`).  `NotesLeadToListed` (`WatchAgrees`) and
`SamplesCountOnce` (`CountedOnce`) follow.

### VmCpuUsage (`VmCpuUsageProofs`)

`TableInvariance` holds for any callers, threads and failures, since the tables are
changed in one critical section; `UsagesDivideAlike` (`SameWindow`) and
`ValidAreWatched` (`ShownAreWatched`) follow, both but for rounds that an exception
ended (`broken`).  `CountInv` bounds `has_data_cnt_` by
the rounds that no exception ended.  With one thread of the program,
`GettersReadTwoRounds` (`ReadsTwoRounds`) needs `TurnInv` and that nobody clears
between a getter's poll and its read; `UsageNotesLeadToListed` (`WatchAgrees`)
needs, in addition, that `/proc/stat` opens, and `NoteInv`: between the halves of
a refresh the notes are the difference of what is listed and what is watched,
otherwise there are none.

### NodeCpu (`NodeCpuProofs`)

For every set of callers and machines and with any failures `FillInv` is an
invariant (`FlagStandsForTables`): the labels of the callers tell which tables are
complete, failed attempts leave subsets of what the files say, and `has_data_`
goes up behind the last table.  `GettersReadFilled` follows: a getter reads
complete tables unless a `clear()` overtook it.  `DerivedTables` adds the tables
that are derived (`DerivedInv`): they are always within, and with the flag up
equal to, what complete tables give.  `TablesAreTheMachine` (`FilledWhole`) and
`LookupsAreOfOneMachine` (`LookupsAgree`) rest on `CutsWell`, that a list which is
cut without harm is read back as it was written.  This is a closed fact about the
1024 sets of ten threads, which no prover here finds (it is about sorting and
folding sequences) and which the run `NodeCpuShared` goes through set by set, with
machines of one node; the theorems carry it to every machine and every
interleaving.  `LookupsAgree` also needs machines whose cores lie within nodes
(`CoresWithinNodes`), which TLC evaluates for the machines of the run.

### What is not proved

All liveness is only model-checked, since it needs fairness, which the prover does
not handle: `StopReturns`, `StopEnds`, `GetterServed`, `CallsEnd` and `UpToDate`.
`CutsWell` is, too, as said above.
The other properties of the runs are all stated by a theorem.

Where a module has proofs, the types of what they are about are proved with its
inductive invariant, and the runs do not check them again.  The inductive
invariants themselves were checked by TLC on the bounds of the runs; the runs keep
the properties that follow from them.

## 6. Not modelled

* `NodeSize`, `vmNodeInfo`, `vmStaticInfo`, `Compat`, `version`, `str_tools`,
  `log`: each reads a file or formats text once and keeps no state that a second
  step could disturb, but for `vmNodeInfo`, whose singleton keeps the first
  process asked about.  `vm_static_info.cpp`,
  `vm_numa_info.cpp` and `vm_used_mem_size.cpp` are not built.
* `MemMig` is empty and `Exec` forwards.  The accessors of `VM` and `Host` forward
  to the modules.  `lock_proxy.h` is used by nothing.
* `set_callback()` of `VmCacheMiss` and `VmCpuUsage` (the latter assigns the
  function without the mutex under which the worker calls it, vm_cpu_usage.cpp:40), and
  the workers of `CacheMiss` and `CpuUsage`, which nothing starts.
* Figures: sizes, percentages, miss rates and times are named by where they come
  from, so that the division by zero of two equal `/proc/stat` readings and the
  uninitialised `base_time` of `NodeTestDist` are outside the models.
* `microbench.c` is the program that `NodeTestDist` runs, and `src/tools/gtest` the
  vendored test framework.

## 7. Where to go on

The theorems with `OneThread` could say what several threads may still rely on
(`VmCacheMiss`: sums are off by whole refreshes only).  `CallsEnd` could be checked
for pairs of options, on a model of `VmLocks` whose state space is smaller.  An abstract
specification of a module of `VmBase`'s kind, a snapshot that getters read, would
let `VmBase`, `VmCpuUsage` and `VmCacheMiss` share a refinement.  The callbacks of
`VmCacheMiss` and `VmCpuUsage` are the operations still missing from modules that
are otherwise complete.
