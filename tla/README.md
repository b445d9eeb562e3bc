# Verification of lib_base

lib_base is the base library of the desktop-app toolkit: timers, a
single-instance guard, global shortcuts, power save blockers, options, clocks,
weak pointers, containers, and the glue to three desktop systems.  This
directory holds TLA+ models of the parts that keep state over several calls,
threads, processes or failures, TLC runs of small instances, and TLAPS proofs
for every instance.

## 1. Inventory

| Part | State | Operations | Interacts with |
|---|---|---|---|
| `ConcurrentTimer`, its `TimerObject` and `ConcurrentTimerEnvironment` (`concurrent_timer.*`, `binary_guard.h`) | `_running` and the other handle of each guard cell, `_next`, `_timeout`, `_adjusted`, `_repeat`; the object's Qt timer, method and posted events; whether the environment exists | `callOnce`, `callEach`, `cancel`, `timerEvent`, `adjust`, `callDelayed`, `callNow`, destruction, teardown of the environment | owner's queue (`_runner`), the environment's thread, `crl::adjust_time()` |
| `SingleInstance` over POSIX `FileLock` | lock file and its record lock, local socket's name, server, client; bytes read from each client | `start`, `handleError`, `closeExisting`, `lock`, `KillProcess`, `clearSocket`, `clearLock`; `send`, `readClient` | other processes through the file system, signals and the socket |
| `GlobalShortcutManagerGeneric` | `_down`, `_pressed`, `_watchlist`, `_recording*`, scheduled callbacks | `startWatching`, `stopWatching`, `startRecording`, `stopRecording`, `process`, `processRecording` | the platform's hook, callbacks that call it again |
| Shortcut hooks of X11, Windows and macOS | `ProcessCallback`, a recording connection, a hook thread or an event tap | `Start`, `Stop`, the hook itself | the system's events, the thread that reads them |
| `PowerSaveBlocker` | the set of blockers of one type with the description and window of the request | constructor, destructor | windows (QPointers), `crl::on_main`, the platform's calls |
| `PortalInhibit` (Linux) | proxies, request, lifetime | constructor, destructor, asynchronous callbacks, `Response` | D-Bus, the desktop portal |
| `base::options` and `call_delayed` | values, `LocalPath`, `WriteScheduled`, the file | `init`, `set`, `reset`, `deserialize`, `Read`, `Write` | delayed calls, the file, crashes and other versions of the program |
| `base::unixtime` | `ValueShift`, `HttpValueShift` and their flags, `MsgIdManager` | `update`, `http_update`, `http_invalidate`, `mtproto_msg_id` | any thread, subscribers on the main thread |
| `base::Timer`, `DelayedCallTimer` | `_next`, `_timerId`, `_adjusted`, map of callbacks | start, cancel, adjust, `timerEvent` | Qt timers, the adjust signal |
| `SingleQueuedInvokation` | `_pending` | `call`, the queued lambda | any thread, the object's queue |
| `has_weak_ptr`, `weak_ptr` | `_alive`, `alive_tracker::counter` and `value` | making, copying, moving, dropping, invalidation | any thread |
| `unique_qptr`, `object_ptr`, `weak_qptr` | a QPointer | construction, moves, `destroy`, `release` | parents and Qt, which delete the object too |
| Crash report writer | report file and its descriptor, `ReportingThreadId`, annotations, header buffer | `SignalHandler`, `AddAnnotation`, `openReport`, `closeReport`, `readPreviousReport` | crashing threads, the next start |
| `RuntimeComposer` | component indices and wraps, the layout of each mask, the components of each object | `Index`, construction, `UpdateComponents`, destruction | threads that register component types, constructors that throw |
| `virtual_method` | registrations, the table of a method | registration, `call` | static constructors in any order |
| `flat_map`, `flat_multi_map`, `flat_set`, `flat_multi_set` | a sorted vector | `insert` and its relatives, removals, `modify`, `merge`, lookups | - |
| `last_used_cache` | a list and a map of iterators to it | `up`, `remove`, `clear`, `take_lowest` | - |
| `openssl::BigNum` | an OpenSSL number, `_failed` | assignment, arithmetic, copies, `takeRaw` | OpenSSL, any call of which may fail |
| `zlib::FileToRead`, `FileToWrite` | a stream in memory, the first error | opening, reading, locating, writing, closing | minizip |
| System watchers | the last value told, watchers of D-Bus, checks in flight | signals, polls, posts from other threads | D-Bus, COM, macOS notifications |
| Media controls | MPRIS properties, the center's commands, what is displayed | setters, commands, posts | other programs, threads of WinRT |
| X11 connection, `XSettings` | shared connection, handlers, event masks, settings and callbacks | registering, dispatching, `GetTimestamp` | the X server, nested event loops |
| Files shown, url schemes | requests that wait for tokens, the handler of a scheme, registry keys | `ShowInFolder`, `RegisterUrlScheme`, `UnregisterUrlScheme` | file manager, portal, compositor, registry |
| Quitting (macOS), application icon (macOS), allocation tracer (Linux) | see the modules | | |
| Platform glue, pure functions, templates | - | - | see section 7 |

What is hard in this code: three event queues around one timer whose guard may
die at any of their steps; processes that kill each other for a file lock and
inherit a socket's name; sets, windows and posted calls that must agree after
any order of destruction; a request that is closed before it was made; statics
that any thread updates one atomic at a time; signal handlers that meet the
owner of what they write; files truncated before they are written; hook threads
that are stopped before they run; changes of the system's state that come
between a read and a subscription.  `PROJECT.json` lists these hazards at the
lines where they bite, with the properties that would catch each one.

What makes each part correct, in one line: a timer's callback answers exactly
one outstanding start, not early and not lost; one process is primary, is the
one the name leads to, and gets whole commands; a shortcut's callbacks
alternate and match the keys; the platform blocks exactly while a blocker
exists; no portal request that can be closed is left
behind; what the options are is what the file
says unless a write is scheduled; ids and subscribers end up with the clock in
force; a pointer is empty exactly from its object's end on, and an object has
one owner; a call is never swallowed; a container, cache or table finds what
was put there; a crash is reported once, as far as it can be written; what the
application was told
of the system is what the system has; what the user asked of it happens once.

## 2. Modules

Five modules are the core and have theorems or runs of their own.

| Module | Models | State and actions against the code |
|---|---|---|
| `ConcurrentTimer` | `concurrent_timer.*`, `binary_guard.h` | One action per handler of the owner queue (`Start`, `Cancel`, `RunFire`, `EndFire`, `RunAdjust`, `DestroyTimer`) and per event of the timer thread (`CallDelayed`, `CallNow`, `TakeAdjust`, `TakeDelete`). The method made by `cancelAndSchedule` is cut in `CheckGuard` and `PostFire`, because the owner may run between its test of the guard and its post; `start()` is cut in `DoStart`, which posts, and `SetNext`, which reads the clock for `_next`, because the timer thread may have posted the method back by then. Time is relative (`due` is `_next - crl::now()`, `early` what is left of the timeout since the post, a history variable), `CheckLocalTime` is a sleep, `EnvStep` the teardown. `owed` is a history variable: a start not yet answered or withdrawn. |
| `SingleInstance` | `single_instance.cpp`, `file_lock_posix.cpp` | One action per system call that other processes can see. The lock file is a path naming an inode, since `clearLock()` removes the path after it unlocks. |
| `PowerSaveBlocker` | `power_save_blocker.cpp` | `Add` is one step under the mutex; `Remove` is two, because a window may die between its two reads of window pointers. |
| `PowerSavePortal` | `base_power_save_blocker_linux.cpp`, and its composition with the blockers | One action per asynchronous callback of `PortalInhibit`, each of which may have failed: without an `InhibitProxy` nothing is sent, without a `RequestProxy`, which the code does not test, `Inhibit` is sent and cannot be closed (`Unclosable`). The portal and the bus are external. At its end the composition: performing a platform call that the blockers posted makes or destroys a `PortalInhibit`. |
| `WeakPtr` | `weak_ptr.h` | Each access to `_alive`, to a tracker's counter and to its value; memory may be reused. |

The others, by what makes them hard.

| Module | Models | State and actions against the code |
|---|---|---|
| `GlobalShortcuts` | `global_shortcuts_generic.cpp` | `process()` and `processRecording()` are one action per kind of event; the callbacks they schedule run one at a time in `RunCallback`, and the application may call the manager between them. |
| `X11Hook` | `base_global_shortcuts_linux.cpp` | The server's recording in replies of several events; `process()` of a reply as its loop with both returns. |
| `ThreadHooks` | `base_global_shortcuts_win.cpp`, `_mac.mm` | The thread of the Windows hook from its creation to its end, statement by statement where the owner waits for it; the event tap and its run loop, which can be stopped before it runs. |
| `XcbConnection` | `base_linux_xcb_utilities.cpp` | Holders of the shared connection, the vector of handlers as `Dispatch` walks it, the event mask of the root window, nested loops of `GetTimestamp()`. |
| `XSettings` | `base_linux_xsettings.cpp` | The property with its serials, the sorted vector of settings as a function from names to elements, callbacks and the element each lifetime remembers, which an insertion makes `stale`. |
| `SystemWatchers` | screen readers, portal settings, battery saving | Each watcher from the call that makes it over its first read to its signals; the Windows search on another thread with its generation. |
| `Reachability` | `network_reachability.*` | Notices, which are assigned on a thread of COM, between the subscription, the read and the assignment of `start()`; holders of the instance. |
| `MediaControls`, `PlayerControls` | `base_system_media_controls_*` | MPRIS properties as others set and see them, with ints below `Half`; the dictionary and command center of macOS; buttons and thumbnails of Windows on other threads. |
| `Options` | `options.cpp`, `call_delayed.cpp` | `Write()` truncates in one step and fills in another (`Fill`), with `Crash` between; files that do not open, files edited by hand or by another version. |
| `Timer` | `timer.cpp` | Start, cancel, the queued adjust signal and `timerEvent`; delayed calls by the ids of their Qt timers. |
| `Unixtime` | `unixtime.cpp` | One action per access to a static atomic; `pc` is the statement a thread is at. Times are distances from the local clock, which does not move during a call. |
| `MsgIds` | `MsgIdManager` | `next()` in its three accesses: counter, start, increment; `update()` between any of them, which moves the start on or back. A start newer than the counter makes the difference wrap, and its product too large for the conversion to `uint64`, which is undefined: a value of `OutOfRange`. |
| `SingleQueuedInvokation` | `invoke_queued.h` | `call()` in two steps, the lambda in two. |
| `InstanceCommands` | `single_instance.cpp` | Commands and replies as their parts; `readClient()` decodes all that was read so far. |
| `ConfirmQuit` | `base_confirm_quit.mm` | The nested loops that pump events, round by round, against two clocks. |
| `DesktopLaunch` | `base_file_utilities_linux.cpp`, activation tokens, url schemes | The chain of fallbacks of one launch; the handler of a scheme; the registry with keys that protocols share. |
| `CrashReport` | `crash_report_writer.cpp` | Several crashing threads statement by statement, two mutexes, the owner, several runs of the process. The report may not open or not be locked, `write()` may write a part or nothing, the text beside the dump may not open, the report may not be removed. |
| `RuntimeComposer` | `runtime_composer.*` | `Index` in its accesses; layouts from what was registered at that moment; construction and updates with constructors that throw. |
| `VirtualMethod` | `virtual_method.h` | Registrations in any order; the table of the method and the search of `call()`, loop by loop, as sets of what each loop has found; the parents of a class as a recursive function. |
| `FlatSet`, `FlatMap` | `flat_set.h`, `flat_map.h` | One action per operation on the vector, for the unique and the multi container (`unique`); `std::lower_bound`, `std::sort` and `std::unique` by their contracts; the loops of `modify()` turn by turn, as a recursive function. |
| `ItemBag`, `KeyedValues` | what these promise | The same operations on a bag of items, and on the sequence of values of every key: `Implements` relates each operation of the vector, with its arguments and its result, to the one of that name. |
| `Containers` | - | Both containers side by side, and the proofs about them. |
| `LastUsedCache` | `last_used_cache.h` | The list, and the map of its nodes. |
| `QtPointers` | `unique_qptr.h`, `object_ptr.h`, `weak_qptr.h` | Who points to which object, parents, deferred deletes. |
| `BigNum` | `openssl_help.h` | What a number was set to (`meant`) against what it holds and whether it failed. |
| `ZipFile` | `zlib_help.h` | The stream's position and error, which its own `write()` does not test (`ignored` is set when someone writes after an error); both file classes, whose first error sticks. |
| `CustomAppIcon` | `base_custom_app_icon_mac.mm` | Resource fork, FinderInfo bit, Dock and temporary files, one step each, with failures and deaths between. |
| `AllocationTracer` | `base_linux_allocation_tracer.cpp` | The buffer under its mutex, blocks handed to `fwrite()`, of which it may drop a part unseen (`missing`), `FinishAllocationTracer()`. |
| `MC*` | - | The five hosts, below. |
| `ConcurrentTimer_proofs`, `GlobalShortcuts_proofs`, `PowerSave_proofs`, `MainThread_proofs`, `Threads_proofs` | - | Theorems about the host they extend, with all its parts. `SingleInstance`, `Options` and `Containers` hold their theorems and lemmas themselves. |

Modules that share no state are checked side by side: a product of them would
say nothing more.  A host has a variable `subject` that chooses, per behaviour,
which of its modules moves while the others stand still, and instantiates each
with the constants of its run.  Its properties are conjunctions of those of its
modules, one per question, whose comments are in the modules.

| Host | Subjects |
|---|---|
| `MCConcurrentTimer` | `ConcurrentTimer`; the same with both loops faster than the clock ("urgent"); `QtPointers`, `LastUsedCache`, `VirtualMethod`, `BigNum`, `ZipFile`, `CustomAppIcon`, `AllocationTracer` |
| `MCGlobalShortcuts` | `GlobalShortcuts`, `X11Hook`, `XcbConnection` |
| `MCPowerSave` | `PowerSavePortal` with `PowerSaveBlocker`, `XSettings`, `SystemWatchers`, `MediaControls`, `PlayerControls` |
| `MCMainThread` | `Options`, `FlatSet` and `FlatMap` (by `Containers`), `SingleQueuedInvokation`, `Timer` (its timers, its delayed calls), `ConfirmQuit`, `InstanceCommands`, `DesktopLaunch`, `ThreadHooks` |
| `MCThreads` | `WeakPtr`, `Unixtime` (with calls that overlap, and without: "unixtime_alone"), `MsgIds`, `RuntimeComposer`, `CrashReport`, `Reachability` |

## 3. Runs

| Run | What it shows | Bounds, and why they are enough |
|---|---|---|
| `timer` | Callbacks answer one outstanding start (`FiresOnlyWhenOwed`), do not begin before their timeout has passed since they were posted (`NeverEarly`) and are not lost (`TimerIsServed`, which also says that they are not late if the loops are faster than the clock, and that the `TimerObject` of a destroyed timer is deleted); guard cells neither dangle nor leak (`GuardCellsSafe`). A QObject has one owner (`OneOwnerDeletes`); a cache, a virtual method and a number give what was put there (`LookupsFit`: of a method the override of the arguments' classes, and for `Alone` classes the nearest that fits, unless a cached entry answers); archives and the icon's digest are whole or their failure is known, and all of a trace is handed to `fwrite()` once, in order (`FilesAreWhole`) | 3 cells, 2 starts, timeouts 0 and 2, one jump of 1 or 2 (before and at `_next`). Two starts make one method stale while another runs; an adjust takes the third cell, without which it could not happen after two starts. 3 QObjects with 5 pointers, 3 entries, 4 classes with 3 overrides and 2 calls, 2 numbers, an archive of 2 files with 3 bytes, one death between two steps of an icon, 3 entries in a buffer of 4 |
| `timer_interval` | Violation: after `callEach()` the callback runs once, then the timer is inactive | one start suffices |
| `instance_crash` | The lock admits one process to cleaning the name, listening and being primary (`OnePrimary`), and all settle (`Converges`), with processes that crash or are killed; `listen()` under the lock fails only on the socket of a dead instance, which `CleanName()` does not remove (`OnlyTheDeadKeepTheName`) | 4 processes: a primary, two that race for its lock, one that comes late; 2 inodes, since nobody removes the file |
| `instance_exit` | The primary is the one its name leads to, also with clean exits, after which the lock is not enough (`PrimaryOwnsName`); every start calls one of its callbacks | 3 processes, one of another user; 4 inodes, one per process and one that was there |
| `shortcuts` | The two assertions of the source and the shape of a recording (`AssertsHold`), a shortcut that was told pressed is held (`PressedAreHeld`) and is told released, and a nested wait for a timestamp ends (`EndsAreTold`); the hook tells of keys what is so, handlers of X11 events are called while they live, and the root window keeps the bits each user added (`EventsReachUsers`) | 3 key presses, two shortcuts that share a key, limit 3; 2 replies of 2 events; 2 users, 2 bits, 2 masks |
| `power_save` | The request follows the blockers (`BlockedWhileNeeded`), has a living owner and is never doubled (`RequestSound`); the portal keeps no request but of the object that exists and of those whose request proxy failed (`NothingLeaks`); both end together (`Ends`). What the application was told is what the system has (`DesktopIsKnown`), and the player others see is the one that plays (`PlayerIsShown`) | 4 blockers that share a description, a window, both or none; 2 windows; 3 posted calls; 2 portal objects. 2 settings with serials up to 2; 2 signals in flight and 2 generations of a search; ints below 8, so that a length of 4 overflows and one of 1 does not; 2 posts, presses and inits, 3 stores |
| `power_threads` | Violation: with blockers destroyed off the main thread `BlockPowerSave()` is called while something is blocked | as above |
| `main_thread` | Nothing set, reset or imported is forgotten (`Saved`); containers stay sorted and do what `ItemBag` and `KeyedValues` say (`ContainersSorted`, `ContainersImplement`); timers of one thread are on time, only a confirmed gesture quits, commands come whole (`EventsAreTrue`); a folder opens once, schemes and the registry stay ours, hooks call nothing that is not set (`DesktopIsServed`); writes, calls, delayed calls, the question whether to quit, commands, launches and `Stop()` come to their end (`WorkEnds`) | one toggle, one number, a foreign key, json of three types; 4 items, 3 keys with 2 values, vectors up to 4, lists of 3. `modify()` moves an item past one other at most (`MaxPassed`), because of the violation below. 3 callers; one sleep, of 1 or 3 units; 2 senders with 2 commands each; 2 launches, of which one waits for a token; 2 protocols; 2 hook threads |
| `flat_set_modify` | Violation: `modify()` of an item that passes two others | `MaxPassed` is the size |
| `threads` | Trackers of weak pointers are counted, deleted once, not touched after (`TrackersSafe`), and say whether the object is there (`ValidIffCurrent`); message ids, subscribers and the network's availability follow the last change (`LatestPrevails`), a thread's ids grow, or fall behind by less than the start was moved back (`IdsIncrease`); components keep bits, places and contents (`LayoutsHold`); a report is of one crash and as whole as `write()` was, and each crash ends (`CrashIsReported`) | 3 pointers, 3 trackers: one per pointer that loses the exchange; 2 threads; 2 posted updates; 3 ids, with starts moved on and back by 9, which is more than the counter makes of its 2 nanoseconds; 2 component types registered by 2 threads, one throw; one thread that crashes beside the main thread, 2 signals, 2 runs of the process; 4 changes of the network |
| `unixtime_http`, `msgids_unique` | Violations of "All functions are thread-safe" by overlapping calls | 2 threads |

`CHECK_DEADLOCK FALSE` stands where the system may stop: an owner that never
calls again, a user who presses no more keys, processes that have all ended.

For every property of a run `PROJECT.json` names a mutant of a mapped definition
(a guard dropped, a reset missing, an order swapped) under which TLC finds that
property violated, so that none of them holds by the shape of its model.  A
mutant stands before the definition it changes, with the suffix `Mutant`.

### What the violations say

* `ConcurrentTimer::timerEvent()` never schedules an interval timer again
  unless it was adjusted: `callEach()` calls once.
* `PowerSaveBlocker`'s `Remove()` compares two window pointers read at different
  moments; a window that dies between them off its thread makes the request
  outlive its blocker.  For blockers that live on the main thread the property
  holds (`power_save`) and is proved.
* `http_update()` overlapping `update()` leaves a wrong http time marked valid.
* Two overlapping `next()` may return the same message id.
* `modify()` of `flat_set` and `flat_multi_set` exchanges an item with its
  neighbours but never follows it: an item that has to pass more than one other
  is left in the wrong place, or twice.

### Where a property names an exception

Some code has a window in which what it aims at fails, and nothing in the
repository promises otherwise.  The model has the window, a history variable or
a predicate says whether a behaviour was in it, and the property holds outside
of it: so each of these names states a limit of the code.

| Module | Name | The window |
|---|---|---|
| `GlobalShortcuts` | `careful` | stopping a shortcut that is not the last one pressed, or recording while one is pressed: `_pressed` falls out of step with the callbacks |
| `X11Hook` | `unseen` | a skipped mouse button drops the rest of its reply |
| `ThreadHooks` | `tooEarly` | `CFRunLoopStop()` before the run loop runs: `Stop()` joins for ever |
| `XSettings` | `stale` | a setting inserted while a callback lives moves the element its lifetime remembers |
| `SystemWatchers` | `missed`, `settingMissed`, `raced` | a change between the first read and the watcher, or between a read and its post |
| `Reachability` | `overtaken` | a notice assigned between the read of the connectivity and its assignment |
| `PowerSavePortal` | `Unclosable` | a request proxy that could not be made: `Inhibit` is sent, and nobody can close it |
| `MsgIds` | `lastBack`, `movedBack` | a start that `update()` moves back between two ids of a thread: the second may be behind the first by less than that |
| `MediaControls` | `Overflows` | a track of more than 35 minutes in microseconds in an int |
| `PlayerControls` | `lost`, `half`, `late`, `left`, `ruined` | commands set while off; an `init()` that failed halfway; a store overtaken; presses and stores that outlive the controls |
| `DesktopLaunch` | `stranded`, `doubtful`, `torn`, `bereft` | a window that dies before its token comes; an error that is only late; a registry write that failed halfway, or shared entries that the end of another protocol took away |
| `CrashReport` | `HoldsAnnotations`, `RemoveReport` | a crash inside of `AddAnnotation()` waits for its own mutex; a clean exit removes the report of a crash meanwhile |
| `AllocationTracer` | `missing` | what `fwrite()` does not write is dropped, and nobody is told |
| `ZipFile` | `ignored` | a write after an error of the stream |
| `RuntimeComposer` | `raced`, `throws` | a layout made between the publishing of an index and its description; a constructor that throws leaves components behind |
| `VirtualMethod` | `Alone` | the search for an override tests `index.current()` before the loop variable is assigned to it: it may find one for a class that is no parent, and dispatch to it |
| `BigNum` | `lost` | a copy for which there was no memory is not marked as failed |

Some facts that the models show, and that no run of their own states:

* `SingleInstance`: `CleanName()` removes the bare name, relative to the working
  directory, and not the socket.  So a primary that crashed leaves a name on
  which the next `listen()` fails.  If it did remove the socket, a clean exit
  could admit two primaries (a starter locks the file between `unlock()` and
  `remove()` of the leaving one, the next makes a new file).
* `VirtualMethod`: the entries that a call fills are found by the search of later
  calls, also those that hold the default.  With an override for (root, leaf), a
  first call of (leaf, root) stores the default, and a call of (leaf, leaf) after
  it stops there, although an override fits.  The comment at
  `virtual_method.h:633-634` speaks of the nearest parents only.  For the same
  reason, and because of the search over classes that are not `Alone`, `Fits` and
  `Nearest` are required only where the property says so.
* `MsgIds`: an `update()` after the server's time was set back moves the start
  back (`unixtime.cpp:103-106`), and the next id of a thread may be smaller than
  its last.
* `CrashReport`: a second fatal message does not replace the first (`emplace` at
  line 116), so that the report of a thread that dies of one may show another
  thread's.

## 4. Fairness

Event loops run what is queued for them, and threads that are inside a function
go on: weak fairness on the steps of loops, of the timer's thread, of a process
inside its own start or exit, of hook threads and those that join them, of
readers of a socket, of the portal, the compositor and the bus.  Nothing is
assumed of callers: nobody has to start a timer, press a key, create a blocker
or exit.  `SIGKILL` reaches a process of the same user (`Doomed`), as
`KillProcess()` sends it after its first attempts.  The clock ticks (`timer`,
delayed calls).

Strong fairness is assumed in three places: a crash handler that waits for the
mutex of the annotations gets it, however often others take it
(`CrashReport`); a user of `GetTimestamp()` whose loop is the inner one comes to
its end, although others may start a loop within it again and again
(`XcbConnection`); and a launch goes on whenever its answer is there, although
its window may come and go (`DesktopLaunch`).

## 5. Proofs

| Theorem | Assumes | Argument |
|---|---|---|
| `ConcurrentTimer_proofs!TypeCorrect` | `ConstantsAssumption` | `TypeOK` is inductive; a lemma per operator on cells |
| `ConcurrentTimer_proofs!CallbackOnlyWhenOwed` | same | the inductive invariant `IInv` says that a flag that is up belongs to the cell `_running` holds, and that such a cell means a callback is owed or being run |
| `ConcurrentTimer_proofs!GuardsCounted` | same | `HInv`: method handles are in five places (Qt timer, events, tasks, the method and the task being run), which share no cell and have each cell once, so that membership counts the handles; who runs nothing holds nothing, and an adjust task has no guard |
| `ConcurrentTimer_proofs!CallbackNeverEarly` | same | `HInv` and `Waits`: wherever the handle of the method in force is, what is still to be waited there is at least what is left of its timeout since the post, and, once `start()` has set it, of what is left until `_next`, and nothing is left once it has come out of the Qt timer; a start that replaces it puts its guard down before |
| `ConcurrentTimer_proofs!LookupsAlwaysFit` | `LookupsAssumption`, `MethodsAssumption` | `CacheIInv`: the list has each entry once and the map its node, in the order of use. `MethodsIInv`: an index is a place in the registered classes, children before parents; once a call was made, each override stands in the table where its classes are, and an override elsewhere in it is of parents; what a fresh call finds first in the order of the loops no other override comes nearer than. `NumbersIInv`: a number that lost its value was meant to be nothing |
| `ConcurrentTimer_proofs!OneOwnerAlwaysDeletes` | `FilesAssumption` | `PointersIInv`: two pointers that own hold different objects, and an object is of a parent, a pointer, a deferred delete or of nobody, and of one of them |
| `ConcurrentTimer_proofs!FilesAlwaysWhole` | same | `ZipIInv`: what minizip accepted is whole unless an error sticks; `IconIInv`: at each step of setting an icon, what the earlier steps have left in the file; `TracerIInv`: who holds the mutex is logging, and what was handed to `fwrite()` and what the buffer holds are the entries appended |
| `SingleInstance!LockersHaveTheFile` | `ConstantsAssumption` | `TypeOK` is inductive, with exits too |
| `SingleInstance!LockAdmitsOnePrimary` | no clean exits | who is past `Acquire` holds the lock of its descriptor's inode, and all descriptors are on the inode that the path names |
| `SingleInstance!LockedNameIsTheDeads` | no clean exits | a name belongs to a primary or to the dead (`NameInv`), and who holds the lock is the only one that may be primary |
| `SingleInstance!NameAdmitsOnePrimary` | clean exits allowed | a name is removed only by the process that made it, after it ceased to be primary |
| `GlobalShortcuts_proofs!ProcessAssertsHold`, `!PressedShortcutsAreHeld` | `ConstantsAssumption` | one inductive invariant: what is told pressed is `_pressed` with the queued callbacks applied, which for one shortcut are of one kind; what is recorded is down and was not let go of as a whole |
| `GlobalShortcuts_proofs!UsersGetTheirEvents`, `!HooksTypes` | `HooksAssumption` | `X11IInv`: the last event of a key that is in a reply says how the key is, and for a key without one so does what was told (`RepliesTrue`). `MasksIInv`: what a lifetime added to the root's event mask is in what each later one found there, so that putting that back takes nothing away. `HandlersIInv`: no handler is twice in the vector; `LoopsIInv`: nested loops have users of their own; `WireIInv`: the types of the wire |
| `PowerSave_proofs!RequestFollowsBlockers` | `MainOnly` | the last posted call follows the list, and posted calls alternate |
| `PowerSave_proofs!NoRequestLeaks` | `NAssumption` | each sent request is at one place of its way, and a closed one has a `Close` behind it or a `Response` to come, unless it is `Unclosable` |
| `PowerSave_proofs!PartsAreImplemented` | - | each step of the composition is one of the blockers and one of the portal, or a stutter of either: `PowerSaveSpec => Spec /\ PortalSpec` |
| `PowerSave_proofs!PowerSaveTypes`, `!ScreenIsKept` | both; `MainOnly` for the second | the invariants of the parts, which `PartsAreImplemented` carries over, and `Connected`: there is a portal object exactly while the last performed call blocks, and it is the last one made |
| `PowerSave_proofs!DesktopKnown` | `DesktopAssumption` | one invariant per watcher. `XSettingsIInv`: the settings are those of the copy, a callback is linked in the element it remembers, or `stale`. `ScreenIInv`, `SettingIInv`: what is known is what the service has, or a signal that will say so is on its way, or the change fell in the named window. `CheckIInv`: a check that counts is on its way exactly while one is awaited. `PowerIInv`: what a thread has read and not assigned is what there is, unless a signal waits |
| `PowerSave_proofs!PlayerAlwaysShown` | `PlayerAssumption` | `MediaIInv`: the length that others see is the duration that seeks are divided by. `MacIInv`: the last posted call is about the controls as they are, unless they were not told, and the states of the commands are what was asked for. `WinIInv`: there is one handler just while the controls are ready, unless `init()` failed halfway, and the newest store is of the thumbnail that is wanted |
| `Threads_proofs!WeakPtrsAreSafe`, `!WeakPtrsTellTruth` | finitely many weak_ptrs | counters equal the references, by cardinality of the set of holders; a tracker in use is allocated |
| `Threads_proofs!LatestIsKnown` | `ThreadsAssumption` | `ClockIInv`: who made the shift in force, and has not taken the lock since, will bring the ids up to it (`Renews`), unless another thread did; `HttpTrue` where calls do not overlap; `NetIInv`: the last notice on its way is of the network as it is |
| `Threads_proofs!IdsAlwaysIncrease` | same | `LastReached`: what a thread's last id is ahead of the id that the counter makes with the start in force is no more than the start was moved back since the thread read it, in whichever of its three steps it is; `StartMoves`: a start made anew goes on from the old one, but for what it is moved back |
| `Threads_proofs!LayoutsAreHeld` | same | `IndexesTaken`: an index belongs to the thread that won the exchange until it is published for a type, and to that type from then on; `Described`: a published index has its description unless its thread is about to write it, so that a mask laid out while nobody is has all its types |
| `Threads_proofs!ReportsAreKept` | same | `CrashKept`: who is in the handler holds the report's mutex and found the report open; an open report is empty; past the owner's test nobody finds it open; a thread that has a fatal message has put one among the annotations, and so has the header that it meets |
| `Threads_proofs!ThreadsTypes` | same | the conjunction of these invariants |
| `Options!NothingForgotten` | `ConstantsAssumption` | `SavedInv`: a scheduled write has a path and its call, and a file is truncated only by a write that will fill it; the lemma `RoundTrip` says that what `Serialize` writes `Read` reads back |
| `MainThread_proofs!EventsAlwaysTrue` | `EventsAssumption` | `TimerIInv`: the callback after those that ran is not due before the Qt timer goes off, nor before `_next`, so that neither a schedule that the Qt timer keeps nor one that is adjusted is early. `QuitIInv`: each state of the panel has the attempt that leads to it. `CommandsIInv`: the commands that were handed on, what is read in part and what is on its way are what the sender wrote, in order, and so with the replies |
| `MainThread_proofs!DesktopAlwaysServed` | same | `ShowIInv`: a launch that is not done has opened nothing, unless an error was only late; `SchemeIInv`: who is registered passes `Check`; `RegistryIInv`: keys are of protocols, whole but for the named windows. `WinIInv`, `TapIInv`: in each state of the hook's thread `ProcessCallback` is set while a hook can call it; `KeysIInv`: what was told is what is down, but for keys unseen |
| `MainThread_proofs!ContainersStaySorted` | `ContainersAssumption`, `MaxPassed <= 1` | `SetIInv`, `MapIInv`: elements are `Ordered`, with a gap of 1 between them if they are unique. `Bounds` says what bisections find in such a vector; `Ranks` that a finite ordered set has a sorted sequence, for `std::sort` and `std::unique`; `LoopEnds` that a loop of `modify()` ends after at most two turns |
| `MainThread_proofs!ContainersRefine` | same | each operation of `FlatSet` is that of `ItemBag`, by the number of occurrences of each item: a bijection between the places before and after shows that cuts, sorting and the exchanges of `modify()` keep it (`Renumbered`, `CutOccurs`, `SortOccurs`, `AsManyCopies`). Each of `FlatMap` is that of `KeyedValues`, by the values between the bounds of a key (`PutAppends`, `CutValues`, `Replaced`, `StoreTotal`) |
| `MainThread_proofs!MainThreadTypes` | both assumptions, `MaxPassed <= 1` | all these; `CallIInv`: while `_pending` is 1 one lambda is queued or one caller is about to queue it, and only then; `SavedInv` of `Options` |

All theorems hold for every value of the constants that the named assumption
allows; the assumptions say what the code's types do (an index is a number, no
thread is called "none") and TLC evaluates them on every run.  Three of the
hypotheses say more than that.  `MainOnly` is that blockers live on the main
thread, without which `power_threads` shows the violation.  `MaxPassed <= 1` is
that `modify()` moves an item past one other at most, without which
`flat_set_modify` shows it.  `MethodsAssumption` says of the recursive function
`Parents` what induction would show: that it is reflexive and transitive, that
the parents of a class are in one line, and that there are no cycles.

Almost none of the safety invariants is inductive by itself; the strengthening of
each stands before its proof.  In a host each step is one of the subject's and a
stutter of all other parts, so that the invariant of a part, proved of its own
actions, holds in the composition.  Every invariant and every action property
that a run finds to hold is stated by a theorem, but for `CrashEnds`, the
liveness in `CrashIsReported`, the rest of which is `ReportsAreKept`.

Only model-checked:

* liveness (`Converges`, `StartResolves`, `TimerIsServed`, `EndsAreTold`, `Ends`,
  `WorkEnds`, and `CrashEnds` of `CrashIsReported`): fairness and `ENABLED` are out
  of the prover's reach;
* what a recursive function computes over any number of turns, since that is
  induction over data: `modify()` beyond two turns of a loop, and `Parents` of
  `VirtualMethod`.  For the same reason `GlobalShortcuts` keeps the members of a
  sequence with `Only`, by their ranks, and not with `SelectSeq`, and the vectors
  are cut and sorted by what the result is, and not element by element: facts
  about folds need induction, and the library's theorems take an operator as
  parameter.

## 6. Abstractions

* Memory is sequentially consistent; the code uses sequentially consistent
  atomics, or a mutex, except in `SingleQueuedInvokation` (test-and-acquire and
  -release on one word).
* `ConcurrentTimer`: the Qt timer's type (it changes the precision), the limits
  of `int` and destroying a timer inside its own callback are left out.  The
  destruction of the environment while timers are destroyed on other threads
  (between `release()` and `wait()`) is in the model, but no property is about
  it: the code does not protect it.
* `Timer`: precise timers; a coarse one may be off by a twentieth.
* `WeakPtr`: destroying the object and making pointers to it are not done at
  the same time (`Exclusive`), which is the contract of a const method.
* `MsgIds`: nanoseconds and ids are small integers, their ratio is that of the
  code; `_randomPart` is constant and left out.  `update()` moves the start by
  any amount of `On` or `Back` from where the ids had grown to, since `now()`
  may be any time.
* `Options`: after a write that failed, which the code only logs, `Saved` says
  nothing; a file that does not parse is read as defaults.
* Containers: items and keys are integers compared by value; iterators,
  comparisons of whole containers and capacity are left out.  Of pairs with one
  key the constructors keep any order, or any one, as `std::sort` may.
* `MediaControls`: an `int` is one from `-Half` to `Half - 1`, and what a build does on overflow
  (`wraps`) is either wrapping or a wider register.
* `VirtualMethod`: two virtual arguments over one hierarchy, which is what the
  loops of the search need to differ from each other.
* `CrashReport`: lines of a report are the annotations and the thread it is
  about; the formatting of numbers and addresses is left out.  Of the annotations
  only whose fatal message is there is kept; a `write()` ends between lines, and
  the limit of the buffer (64 KB) is a write that was short.
* What other programs do (X server, D-Bus services, minizip, OpenSSL, the
  registry, the tools that write extended attributes) is any answer they may
  give, failures included; the map calls those definitions external.

## 7. Not modelled

`PROJECT.json` lists every part with the reason.

* The file lock of Windows asks the Restart Manager to end processes: what that
  does is not in this code.
* Power save blocking on Windows and macOS is one system call per operation.
* Several shortcut managers under `GlobalMutex`: `Start()` and `Stop()` of the
  hook run after it is released, and only the application's use on one thread
  keeps them in order.
* Options: change events, lookups and scopes.  Crash reports: the header's
  formatting.  macOS: seeking, and the panel that asks before quitting.
* Pure functions (hashing, random numbers, compression, parsing), templates
  without run-time state (variant, flags, type traits, overload sets), Qt and
  rpl adaptors that forward to one call, the virtual interface of the
  application, and wrappers of one foreign call (haptics, layouts, information
  about the system, dynamic libraries): a model would repeat the code.

## 8. Plan

1. Several managers of global shortcuts over one hook, on two threads.
2. `ConcurrentTimer` with its own destruction inside of a callback, and the
   pieces that timeouts beyond `INT_MAX` are cut into.
