# A verification project for pi_lib

pi_lib is a C and C++ library for small machines (Raspberry Pi with Linux, Pico with FreeRTOS): threads
and condition variables, GPIO and bus drivers, audio, a web server, and objects such as lights and
counters that have a thread of their own. This project models its concurrent core in TLA+, checks the
models with TLC and proves the safety of what is checked with TLAPS. Paths below are relative to the root of
the repository; every definition that stands for code is listed with its lines under "map" in
`PROJECT.json`.

To run it: `tlc -config X.cfg M` for a row of the table of runs, `tlapm M.tla` for a module of proofs.

## Inventory

| Component | State | Operations | Interacts with | What is hard |
|---|---|---|---|---|
| Threads on the Pico, `threads/pico/platform-threads.cpp` | one notification per task, the mutex of a condition, its list of waiting tasks | `pause`, `resume`, `resume_from_isr`, `wait`, `wait_until`, `signal`, `broadcast` | everything below on the Pico | gaps inside `wait_until`; timeouts racing signals; one notification for two purposes |
| Threads on the Pi, `threads/pi/platform-threads.cpp` | `resumed`, list of active threads | the same on POSIX threads; the end of the program | everything on the Pi | `resume` without the lock |
| HTTP server, `net/httpd-server.cpp` | connections, a response and a one-block buffer each, the loader's queue; handlers by path | requests, close, wake-up, poll; loader's read; finding and filling pages | mongoose callbacks, loader thread | destruction while the loader reads; a blocking event loop; end of file at a block boundary; the last prefix |
| Interrupt-driven input, `threads/include/irq-buffered-reader.h` | ring, condition | interrupt, thread, `getc` | PiCond | full ring without a further interrupt |
| Producer and consumer, `threads/producer-consumer.c` | ring, two sequence numbers | `produce`, `consume` | PiCond | the wait of a full ring is given the wrong pointer |
| Audio on the Pico, `audio/audio-pico.cpp` | three buffers, a pending one, a blocked thread | `play`, `disable`, DMA interrupt | DMA, `pause`/`resume` | interrupt against thread, on one core or two |
| Audio on the Pi, `audio/audio-pi.cpp` | a handle, a mixer | `configure` | ALSA | a handle that is kept though it was not ready |
| Audio player, `audio/audio-player.cpp` | buffer, active and stop flags | `play`, `stop`, two waits | Audio device, PiCond | signals before the thread waits; a failed `configure` |
| Audio data, `core/buffer.cpp`, `audio/` | positions in files and memory | read, seek, sub-buffers, chunks, frames | file system | ends and odd sizes; nested sub-buffers; frames across blocks |
| Talking skull, `audio/talking-skull.cpp` | a list of positions | `set_ops`, `play`, `wait_done` | PiCond, AudioBuffer | a wait without a predicate; two ways to count |
| Lights, digital counter, stepper, touchscreen, `threads/` | what the device is believed to do | a thread each, setters | outputs and inputs | writes and reads without the lock |
| Axis, `core/axis-stepper.cpp` | a position | `go`, `home` | outputs, an end stop | the position is reckoned |
| Repeated calls, `core/pi/call-every.c`, `core/pico/call-every.c` | a state; a timer | `start`, `stop`, `destroy` | a thread; an alarm | late calls; a state that is not initialised; a second start |
| Stop handshake, `threads/stop.c` | two flags | request, await | PiCond | the wrong pointer for the mutex |
| Sleep of the Pico, `threads/pico/deep-sleep.cpp` | the time of the last `prod` | `prod`, the look every tenth | the processor's clocks | a `prod` between decision and sleep |
| Fillable buffer, `core/include/fillable-buffer.h` | memory lent by `read` | `read`, `fill`, `set_is_eof` | AudioBuffer above, Bluetooth below | copying into memory that was given back |
| MQTT, `net/mqtt.cpp` | a connection, a timer | `publish`, `alert`, events | mongoose | queued pointers, a connection read twice |
| WiFi, listener, clock, `net/wifi.c`, `net/net-listener.cpp`, `net/sntp.c` | `is_connected` | a thread that connects, waiters | lwIP | flags without a lock, late joins, lost packets |
| Bluetooth, `net/bluetooth/` | stream and connection ids | btstack's events, commands, requests to send | btstack | events of several connections; a lock that is not held |
| I2C, GPIO and PWM, `core/pi/`, `core/pico/` | bus locks, the table of devices, slices, handlers | open, read, write, interrupts | everything that drives a device | locks kept on errors; pins that share a slice |
| Port expander, encoder, servos, `core/mcp23017.cpp`, `core/include/rotary-encoder.h`, `core/pi/maestro.c` | copies of what the device has | set, interrupts | I2C, USB | writes that race or fail; late interrupts |
| Consoles, files on the Pico, `core/consoles.cpp`, `threads/pico/file.cpp` | a list, a mounted card, their locks | add, write; the operations on files | core lock, FreeRTOS-FAT | the first use |
| Displays and images, `core/canvas*.cpp` | a window of dirty rows | pixels, `fill`, `import` | the display below | what the window collects |
| Simple drivers, memory, strings | none that outlives a call | register writes, copies | buses | nothing a model checker would reach |

What makes each of them correct is stated with the module that models it; `PROJECT.json` lists the
hazards of the code line by line, with the properties that watch them.

## Modules

`PicoThreads` is the layer below: a task is at a place (`pc`), and a wait is the four or five steps the
code makes, because other tasks run between them. The other modules take a condition for the set of
its sleepers, and a signal for the removal of one of them: that is what `SleepersAreListed` and
`SignalNotLost` justify while nobody is `resume()`d and no wait times out. (A module whose thread uses
both, as AudioPlayer's timed wait, has the timeout as a step, but not the notification it may leave
behind.) `PiThreads` is its counterpart on the Pi, where POSIX has the conditions and only `pause` and
`resume` are the library's own.

With a run of their own:

| Module | Models | Notes |
|---|---|---|
| `PicoThreads` | PiThread's pause and resume, PiMutex, PiCond on FreeRTOS notifications | `signal` is one step since the condition's lock is held throughout; `broadcast` is several |
| `HttpdServer` | event loop, `HttpdResponseLoader`, `HttpdConnection` | a body is a number of blocks and whether the last is short; mongoose is external: it delivers a request only when the last is answered, polls every connection, may fail to send or to wake up |
| `IrqBufferedReader` | the ring between interrupt and `getc` | implements `Fifo` |
| `ProducerConsumer` | the ring between threads | implements `Fifo`; a producer that meets a full ring keeps the mutex, as line 66 makes it |
| `Fifo` | the abstract queue: put at the end, get from the front | items are values, or a buffer and the number that `produce` returned for it (`returned`, a history variable of `ProducerConsumer`) |
| `AudioPico` | `play`, `disable`, `dma_start_transfer`, the handler | `SameCore`: the handler preempts the thread, or runs beside it; each reading of `dma_pending` is a step, and line 42 uses what line 36 found or what is there by now (a data race); `times` counts how often a block was handed over |
| `AudioPlayer` | the player thread and its clients | a monitor: what happens under the mutex is one step |

Side by side in `MCWorkers`, what has a thread, a timer or a lock of its own:

| Module | Models | Notes |
|---|---|---|
| `Lights`, `DigitalCounter`, `Stepper`, `Touchscreen` | the objects with a worker thread | steps split where the code is without its lock; any of a set of speeds is what accelerations and steps per mm amount to |
| `CallEvery` | the repeating timers: the thread of the Pi (`Pi…`), the alarms of the Pico (`Pico…`) | alarms are the pool's; a callback may run beside stop and destroy |
| `FillableBuffer` | `read` and `fill` | bytes are numbered, so that loss, repetition and order can be told |
| `PiThreads` | pause and resume; the list of active threads and the end of the program | `resume` in two steps, without the lock |
| `Stop` | `stop.c` | a wait with the wrong pointer ends in "stuck" |
| `TalkingSkull` | the skull's thread and its callers | `AudioData` has how positions are counted |
| `FilePico` | `init_once` and the lock around FreeRTOS-FAT | a lock is its number; `unlock` gives back the lock of the moment |
| `Consoles` | the list of consoles under a core lock | the lock is NULL when the list is used before `core_lock_init` |
| `DeepSleeper` | the thread that puts the Pico to sleep | time in ms up to a bound |

Side by side in `MCDevices`, drivers, data and lookups (mostly sequences of calls; threads where the
code has them):

| Module | Models | Notes |
|---|---|---|
| `GpioPico` | pins and a PWM slice of the Pico | three pins of one slice, two of which share a channel |
| `GpioPi` | the thread of edge events and the change of its handler | the kernel's queue is external |
| `Mcp23017`, `RotaryEncoder` | one bank of the expander; the decoding of the knob | writes fail and race; the knob turns on before the interrupt is handled |
| `I2c` | locks and transfers; the table of devices | a device answers from the register sent last; every transfer may fail |
| `Maestro` | range, inversion and target of a servo | commands are lost |
| `AxisStepper` | `go` and `home` | how many steps a move speeds up or slows down is left to chance |
| `AudioData` | file and memory buffers, the walk through the chunks, the frames | a MemoryBuffer, which has the bytes, is the reference a FileBuffer is compared with |
| `AudioPi` | `configure`: which device is opened or kept | devices come and go |
| `Canvas` | the dirty window, `fill`, `import` | a pixel is its place; transparent pixels are left out by `import` |
| `HttpdHandlers` | which handler answers; the `@@name@@` of a page | paths are sequences of names; a file handler may miss its file, a prefix handler may decline |

Side by side in `MCNet`:

| Module | Models | Notes |
|---|---|---|
| `Wifi` | the "wifi up" thread, the listener, `net_sntp_set_pico_rtc` | the link and the time server are external |
| `Mqtt` | `publish`, `alert`, the timer, the connection's events | the text an alert queues may be gone when it is sent |
| `Hid`, `BluetoothAudio` | the thread that asks for a turn to send; the sink's stream and decoder; the remote control's one connection id | btstack is modelled by the events it gives, in the order its profiles allow |

The parts of an `MC` module share nothing: the selector `part` makes the state space the sum of
theirs, and a property of the run is the conjunction of what the parts say about one question.
The constants of an `MC` module are those of its parts and get their values in the cfg; what the code
asks of them is in named ASSUMEs there: in `MCWorkers` `NumbersAssumption`, `NamesAssumption` and
`IdsAssumption` (an id must be left for a new touch while those of two reports are in use), in `MCNet`
`BoundsAssumption` and `NamesAssumption`, in `MCDevices` one for each part that needs one. Most only
say that numbers are numbers and that no thread is called "null" or "free". Those that say more: the
frequency of servos is one that can be asked for, a knob's range is not empty, the thread that makes
inputs is one of those that use the expander, headers, blocks and samples are at least a byte, the path
of a file has a name, a display buffers at least two rows (the displays buffer 16, core/st7796s.cpp:11),
and the frame of an axis lets the carriage go a step beyond either end.
`StdList` is `std::list::remove`, which two models need.

Where a function of the source is a loop over data, its definition is a recursive *function*
(`header_at`, `taken`, `Flatten`): an operator that is RECURSIVE could not be proved about. The header
that `wav_open` reads into is not initialised (audio/wav.cpp:44), so `WavInit` lets it be any.

The theorems are in seven modules, by what the proofs have in common: `PicoThreadsProofs`,
`InterruptProofs` (a handler against threads: `IrqBufferedReader`, `AudioPico`), `MonitorProofs` (a mutex
with a condition: `ProducerConsumer`, `AudioPlayer`), `NetworkProofs` (`HttpdServer`, `MCNet`),
`WorkersProofs` (`MCWorkers`), and for `MCDevices` `DataProofs` (the lemmas on buffers, files, frames,
lookups and pages) and `DevicesProofs` (those on the drivers and the canvas, and the theorems).
`SequenceLemmas` has what several of them need of rings and lists. Since two modules are extended
side by side, one of them has a prefix to its `Init`, `Next`, `Spec`, `TypeOK` and `vars`: `Reader` in
`IrqBufferedReader`, `Player` in `AudioPlayer`, `Net` in `MCNet`.

A definition with a suffix, as `Advance_asked`, says in its comment what mistake it stands for. It is
no part of a specification: put in the place of the definition whose name it has, it makes the run of
that part fail. `PROJECT.json` has one for each property of each run; in the `MC` modules, where
a property has many parts, the others show the same for their part.

## Runs

All exhaustive. Deadlock is checked unless a row says otherwise: there the code itself can come to a
standstill, or waits for calls that need not come.

| Run | Instance | Shows |
|---|---|---|
| `cond` | 3 tasks; one with timeouts, two that are resumed; list of at most 4 | nobody asleep is off the list; a broadcast wakes all; without timeouts and resumes a signal wakes a sleeper and each gets its turn. Standstill: all may sleep |
| `httpd` | 2 connections, bodies up to 2 blocks | the code's assertions hold; the loader never uses a destroyed connection; every response has somebody who will carry it on; what is sent is whole and in order |
| `httpd_live` | 2 connections, bodies up to 1 block, liveness of one | bodies with a short last block end, even if every wake-up fails |
| `httpd_uri` | `MCDevices` restricted to the handlers of `HttpdHandlers` (`UriSpec`) | *violated*: `/` is not searched for last, see Findings |
| `irq_reader` | 2 readers, ring of 2, device of 3, 2 characters | no character is stranded in the device or beside a sleeping reader; it is a queue |
| `producer_consumer` | sequence numbers modulo 3 | as far as the full ring, nobody sleeps beside a buffer, it is a queue, `consume` reports the number that `produce` returned, and buffers are consumed |
| `audio_pico` | 3 buffers as in the code, block numbers modulo 5, handler preempts | assertions of the code, blocks in order, none twice but for one race and none cut but after `disable`, no copy into a buffer in use, the player is always resumed |
| `audio_pico_smp` | the same, handler on the other core | *violated*: `assert(! blocked_thread)` of audio/audio-pico.cpp:67, see Findings |
| `audio_player` | 3 clients, 2 sounds | the device has one user; a buffer is not exchanged while played; sounds and stops are seen; sleepers wake. Standstill: a failed `configure` leaves the mutex locked |
| `workers` | 13 parts, see `MCWorkers` | what a device does is what its object believes (`DeviceIsAsBelieved`); a touch, a `resume`, a `play`, a stop is followed (`RequestsAreFollowed`); what was stopped stops (`CallsStop`); data that threads share is taken whole (`SharedDataIsWhole`). Standstill: the workers wait for calls |
| `devices` | 15 parts, see `MCDevices` | a device has the registers, the target, the frequency, the place that its object remembers (`DevicesAreAsRemembered`); what is read or shown is what was asked for (`DataAreAsAskedFor`). Standstill: sequences of calls end; the Pi's bus lock is never given back |
| `net` | 5 parts, see `MCNet` | what is remembered of a connection is what the stack says (`ConnectionsAreAsRemembered`); whoever waits for the network goes on (`RequestsAreAnswered`). Standstill: the HID thread may stop the program; brokers and phones need not come |

The bounds keep what matters: rings that wrap and fill (2 slots and 3 items in the device), two of
everything that can compete and three where the third makes a difference (who is woken of two, while
one acts; who inherits an entry of a table), numbers modulo a value larger than the window in which
they are compared (5 for three buffers and a pending block; 5 for reads of at most 3). `Unknown` of the
counter is 9 instead of 65535 so that a target exists for which counting seems cheaper than a reset.
The canvas is 3 by 3 with a window of 2 rows, so that windows fill before a rectangle ends; blocks of
5 bytes and sounds of 0, 7, 8 and 13 bytes put frames of 1 to 6 bytes across block ends in every way;
a file of 4 bytes has sub-buffers of sub-buffers; two cards of two devices give each preference its
order; a connection id up to 2 or 3 lets a later one replace an earlier one; positions of half a step
make distances that are no whole number of steps.

Several properties name an exception, which is then a statement about the code as well:

* `SignalNotLost`, `SignalsReachEveryone`: once a wait has timed out or a task has been resumed, a
  signal can be spent on a task that no longer waits (`threads/pico/platform-threads.cpp:181`).
* `ResponseInProgress`, `PartialBodiesFinish`: a body that fills its last block exactly (an empty one
  too) is found to be finished only by an empty read, after which nothing sends and nothing clears it.
* `AcceptedSoundIsSeen`, `SleepersWake` of the player: a call before the thread first waits is not
  seen; of two sleepers one may be passed over; a failed `configure` ends everything.
* `ItemsAreConsumed`: a full ring stops all.
* `BlocksInOrder` of `audio_pico`: the thread that starts the channel and the handler may both hand over
  the block that is pending (`Overtaken`: one comes between the other's test of `dma_pending`, line 36,
  and its reset, line 43), which plays it twice; never three times, and never a block out of turn.
* In `workers`: `AllAsTold` (no step of the old action fell between `set_all` and `set_action`),
  `WrongWayOnlyAtJerk` (at the jerk speed the motor may step the wrong way), `BytesInOrder` and
  `MemoryIsLent` (the end of the stream is not undone), `SleepsOnlyIfMissed` (a resume between test and
  wait is missed), `BackOnlyWhenStopped` (who waits in `stop_await_stop` is stuck), `PlayIsFollowed` (a
  `play` before the thread waits is lost), `OnlyDoubleStartsLeak` (an alarm started twice),
  `FilesAreExclusive`, `LockIsGivenBack` (as many tasks are inside as have raced for the first
  operation), `WritesToTheLiving` (a list of consoles used too early has no lock), `GoesBackToSleep` (a
  `prod` at the last moment).
* In `devices`: `OnlyStaleServosIntrude` (a disabled servo keeps its state), `HandlerGetsItsArg` (while
  it is replaced), `DeviceIsTheCopy` and `NotifyingIsEnabled` (writes that raced or failed; another
  object of the pin deleted), `CountsThePosition` (late interrupts), `ReadsOwnRegister` (a bus without a
  lock), `ReadsItsRegister` (opens or reads that overlap; an `i2c_read` that could not send the register
  and reads all the same), `TargetIsRemembered` and `RangeIsTheControllers` (a lost command; a range torn
  or widened by one), `PosIsTheCarriage` (homed from within the ramp), `LikeMemory` (a sub-buffer before
  its first `seek_abs`; a seek to the end of a sub-buffer or beyond any end; sub-buffers of sub-buffers),
  `FindsAudio` (chunks of odd size), `OpsAreCounted` (samples that are not two bytes, a buffer not at its
  start), `LongestPrefixAnswers` (a file handler that misses its file answers NULL, and no prefix is
  looked for), `YesMeansReady` (the preferred device), `ShowsWhatWasSet` and `StaysOnCanvas` (rows that
  begin right of the window; an import away from the corner), `PageIsSubstituted` (stray marks). And
  `FirstOperationIsTheLast` is itself the statement of a fault: a lock of the Pi's bus, once taken, is
  never free again (core/pi/i2c.cpp:31, 75, 98), and nobody gets past `i2c_lock` or `i2c_unlock`.
* In `net`: `DeniesOnlyLateLink` and `WaitersGoOn` (a link that comes up after the attempt has failed is
  never announced), `OnlyAlertsAreGarbled` (an alert's topic lies on its stack), `MessagesEnd` (a
  message may be lost with its connection), `LockIsHeldByWhoUsesIt` and `RequestsReachTheStack` (the
  HID thread's first unlock), `OnlyOthersEclipse` (events of another connection), `DataIsAsAnnounced`
  (late packets).

## Fairness

Threads are scheduled: FreeRTOS and Linux run every ready task of equal priority in turn, so each
thread's steps are weakly fair. Strong fairness is assumed of taking a mutex (both systems queue the
takers, so who keeps asking gets it), and of mongoose's poll and close events (each `mg_mgr_poll` goes
through all connections, whatever else happens). A peer of a *watched* connection takes its data; the
others need not. Nothing is assumed of callers, of interrupts or of the outcome of a wake-up.

In `MCNet`, by the same reasoning, the steps of the WiFi thread, of the listener and of the setting of
the clock are strongly fair (each takes a mutex or comes round again after a sleep), as are those of
the HID thread; MQTT's timer and the events that carry a message are weakly fair (the event loop goes
on by itself), and so are the users of the HID device once they have begun. Nothing is assumed of the
link, the broker, the time server, a phone or the Bluetooth stack: the properties have the link's
staying up in their premise, and give a lost connection as an outcome.

## Proofs

| Theorem | Module | Holds for |
|---|---|---|
| `TypeOKThm`, `SleepersAreListedThm`, `BroadcastWakesAllThm` | `PicoThreadsProofs` | any tasks and list bound, timeouts and resumes included |
| `ListIsExactThm`, `SignalNotLostThm` | `PicoThreadsProofs` | the same, until the first timeout or resume (the exception is in the property) |
| `TypeOKThm`, `LoaderNeverReadsDestroyedThm`, `AssertsHoldThm`, `ResponseInProgressThm`, `AnswersAreWholeThm` | `NetworkProofs` | `HttpdServer`: any connections, body lengths, send buffers |
| `NetInvThm`, `ConnectionsAreAsRememberedThm` | `NetworkProofs` | `MCNet`: any messages, alerts, users, configurations, notifications, numbers of connections |
| `ReaderInvariance`, `ReaderTypeCorrect`, `NothingIsStranded`, `ReaderRefinement` | `InterruptProofs` | `IrqBufferedReader`: any readers, ring, device and characters; the refinement is of `Fifo` |
| `TypeCorrect` | `InterruptProofs` | `AudioPico`: any numbering of the blocks, one core or two |
| `Invariance`, `BothAssertsHold`, `OnlyDisableCuts`, `NoCopyUnderTheDma`, `NumbersFollow` | `InterruptProofs` | the same, with the handler on the thread's core (`SameCore`) |
| `Invariance`, `TypeCorrect`, `SleepersHaveCause`, `Refinement` | `MonitorProofs` | `ProducerConsumer`: any producers, consumers, ring and range of sequence numbers; `Refinement` is of `Fifo` |
| `PlayerInvariance`, `PlayerTypeCorrect`, `DeviceIsExclusive`, `NoSoundIsMissed`, `PlayedBufferStays` | `MonitorProofs` | `AudioPlayer`: any clients and sounds |
| `IInvThm`, `TypeOKThm`, `DeviceIsAsBelievedThm`, `RequestsAreFollowedThm`, `CallsStopThm`, `SharedDataIsWholeThm` | `WorkersProofs` | any threads, lights, counters, speeds, places, lists, alarms and times |
| `IInvThm`, `TypeOKThm`, `DevicesAreAsRememberedThm`, `DataAreAsAskedForThm` | `DevicesProofs` | any pins, frequencies, queues, ranges, tables, sizes of buffers, chunks, blocks and samples, paths, pages, displays and axes |

They rest on the named ASSUMEs of the modules and nothing else, but for `SameCore`, which is a
hypothesis of the theorems that need it: `audio_pico_smp` shows that without it an assertion fails.
Each of these properties is also checked by a run, on an instance.

*SequenceLemmas.* The solvers know neither remainders of a division by a parameter nor sequences that
are made of a ring. So the module proves how remainders add and which are distinct (from the fact that
quotient and remainder exist and are unique), what the contents of a ring become when one end moves,
and what `Without` leaves of a list. The theorems on induction take an operator, which no backend
instantiates; `LeastNatural` (a set of natural numbers that is not empty has a least one, from the
well-foundedness of finite subsets) is used instead, on the set of numbers for which a claim fails.
That a recursive function exists at all is shown the same way (`KeptExists`, `TurnsExist`,
`MovedUpExists`).

*PicoThreads.* That sleepers are listed is inductive only with who the sleepers are: a task between
pushing itself and taking its notification, without one pending. `Sleepers` is that and the types, and
holds whatever times out: a task that gives up removes its own entries and those of nobody else
(`WithoutKeeps`). `Exact` adds, while nobody has timed out or been resumed, that the list holds
exactly the sleepers, each once, so that a signal cannot be spent elsewhere.

*HttpdServer.* The flag `enqueue_is_active` is what keeps the loader and the destructor apart, but the
property that says so is not inductive: one has to know who sets it. The invariant `IInv` adds that an
idle loader has no connection, that a connection that is not in `connections` has nothing set, that a
full buffer belongs to a response, and where the event loop stands inside a callback. A second layer,
`Progress`, takes `IInv` as given: a set flag means that a read is owed, by the queue, the loader or
the callback (`ReadIsOwed`), and buffer, loader and what was sent are consecutive blocks of one body
(`BodyInTurn`). Each action is a step of the proof, and each conjunct it can disturb a step below.

*IrqBufferedReader, ProducerConsumer.* The mutex has the owner that the places say; who is asleep is
who the condition lists; the two ends are as far apart as the ring has entries, and those are no
fillers. For the sequence numbers: both counters are `n_full` apart, and the
numbers that `produce` returned for the buffers in the ring go on from `seq_out`, one by one. That nothing sleeps beside an
item is inductive with these. In the refinements the abstract queue is the contents of the ring (and
of the device behind it), so a step of the code is one of `Fifo` or a stutter by the lemmas on rings.

*AudioPlayer.* The player has a buffer exactly while it is active, and nothing waits for a player that
sleeps but what came before its first wait.

*AudioPico.* The three buffers go round: which is next, which is pending and which is under the DMA
follow from how far thread and handler are (`BuffersInTurn`), and so do the block numbers
(`NumbersInTurn`), and how often the pending block has been handed over; what either has found in
`dma_pending` and not yet used is still that block (`TestsAreTrue`); whoever is blocked is woken when nothing is pending (`WakesWhenTaken`), and only
one of the two can start the channel (`OneStarter`). On one core the handler runs to its end before
the thread goes on, which is where `SameCore` is used.

*The workers.* One invariant for each part, which its own steps keep; `OneStepAtATime` has it that a
step of one is a stutter of the others. Beyond the properties they say: a caller of `Lights` that was
not disturbed has written what it should so far (`CallerInv`), and lights that were told off or on
have no worker in a step (`AsTold`); while a counter pulses, what it shows is as many pulses from what
it believes (`Believed`); no two touches have one id, and after k turns of the loop over a report
those announced are the old and the new (`SeenSoFar`); bytes in the memory of a read follow what the
reader expects (`FillableOrder`); who is inside FreeRTOS-FAT holds the lock it took, and locks and
tasks about to make one are together no more than there are tasks (`FileLocksAreHeld`, `FileInv`), so
that by counting no more are inside than there are locks; a writer still has to visit only consoles
that are alive (`ConsoleInv`). TLC has checked `IInv` on the instance of the run as well.

*The network.* Again one invariant for each part (`NetInv`). What they add: the mutex of the WiFi
thread is taken exactly where its holder's place says, the flag is set before the broadcast, and a link
that is up but denied came up late wherever the thread may be (`WifiInv`); what a message has tested is
a connection that there has been, and a new one has been acted on by nobody (`MqttInv`); a stream that
plays has a decoder with the stream's configuration, and one that is only open does not play
(`SinkInv`). For the HID device and the remote control the types and the properties together are
inductive.

*Devices and data.* `IInv` has fifteen parts. The hard ones are those about data:

* The walk through a file (`WavInv`, `OnTheWay`): in a file of even chunks `wav_at` is at the header of
  some chunk, or behind it with that header in the variable, and no data chunk is before it. Since a
  header is at least a byte, no two headers are at one place (`AtIncreases`), so the one that is read is
  that chunk's.
* The frames (`SoundInv`): bytes are taken one by one across blocks (`NextByteIsNext`, `FrameIsTaken`),
  so a frame is the next bytes in order (`FrameIsItsBytes`), and the frames so far and what the
  block and the buffer still hold are together the data, but for a broken frame at its end
  (`Accounted`). That `get_n_ops` and `set_ops` count the same number is a fact about two ways to
  divide (`DivTwice`, `OpsOfTheData`).
* A device's register on the Pico: a register's number that reaches the device spoils the reads of others
  at it and no more (`TableSend`), and one that does not is remembered by its reader (`TableSendFails`).
* A lookup (`SearchFinds`): the search stops at the longest prefix that has a handler; every longer one
  was tried before it.
* A page (`PageInv`): the text is the flattened sequence of its pieces (`Upto`, `PieceStandsThere`), the
  cursor stands at the end of some piece or behind the marks of an unknown name, and the payload is
  the same pieces with their values (`Reached`, `Made`, `ToMake`). The marks of names are the only ones,
  so that the search for an end finds the right one (`MarksOfName`, `EndsAre`).
* The canvas: places of the window are distinct and inside the buffer (`PlacesDiffer`, `PlaceIsInside`,
  by products of unknowns that the solvers have to be led through), what is stored is the pixel of
  its place while nothing strayed (`StoredInv`), and the call that is under way has set the row above
  or the columns to the left (`CallInv`). With a window of a single row, a pixel of the next row
  that is one column beyond the first row's end could be stored behind the end of the buffer: the
  proof needs `buffered_rows >= 2`, which is how that assumption was found.

That recursive functions exist and unfold is proved here too (`RecursionExists`, `AtUnfolds`,
`FlattenUnfolds`, `UptoUnfolds`), and that integer division is unique (`DivExists`, `DivUnique`): the
solvers have neither.

*What the proofs found.* The first conjunct of `DataIsAsAnnounced` was a state formula without its
box, and said something of the first state only, which TLC accepts: the proof of the action property
beside it asked for more than the theorem could use. It is boxed now, and the run still passes. Bounds
that stood in the modules as definitions (`MaxWalk` on the chunks a walk may visit) turned out not to
be needed once positions end at the end of the file, and are gone.

TLC has checked `NetInv` and the `IInv` of `DevicesProofs` on the instances of the runs as well.

Left to TLC: liveness and ENABLED, which are not in the prover's reach (`SignalsReachEveryone`,
`PartialBodiesFinish`, `ItemsAreConsumed`, `SleepersAreServed`, `PlayerIsResumed`, `SleepersWake`,
`RequestsAreAnswered`). Every invariant and every action property of the passing runs is proved.

## Findings

* `audio_pico_smp`: `dma_start_transfer` resumes the blocked thread before it clears `blocked_thread`
  (audio/audio-pico.cpp:47-48). FreeRTOS is configured for two cores
  (threads/pico/include/FreeRTOSConfig.h:111), so the thread can be in its next `dma_wait` before the
  handler clears the field, and the assertion at line 67 fails, or else the thread's name is erased
  and nobody resumes it.
* `httpd_uri`: the header says that a request for /aaa/bb/c "will search for prefix handlers /aaa/bb and
  then /aaa and finally /" (net/include/httpd-server.h:257-259). `get_uri` cuts the last slash with what
  follows it (net/httpd-server.cpp:297), so the last prefix it looks for is the empty string, and a
  handler of `/` answers nobody.

Met while modelling and named as exceptions above, not as findings: nothing in the repository promises
otherwise. Met in code that is not modelled: on the Pico, `vTaskDelete` comes before `delete t` in
`thread_entry` (threads/pico/platform-threads.cpp:106), so that no PiThread is ever deleted; on the Pi,
`trylock` says yes whatever the lock does (threads/pi/platform-threads.cpp:92; nobody calls it); the
fraction of the SNTP time is off by a factor of 10^6 (net/sntp.c:53); the maps of handlers gain an entry
for every path that is asked for (net/httpd-server.cpp:284, 299); `AxisStepper::set_jerk` does not store
the jerk; `import` samples an image from x0 rather than from its corner (core/canvas.cpp:86).

## Not modelled

The list of components in `PROJECT.json` gives a reason for each part. In short: drivers that are one
sequence of register writes, arithmetic on reals, formatting, and code that only forwards to a library
have no behaviour that an interleaving or a sequence of calls could spoil. Of the roughly 131,000
lines the repository counts, 113,000 are two tables of sound samples in examples
(examples/wav-play/fanfare-wav.h, examples/talking-skull/laugh.h); the library itself has about 15,000,
its unused parts (net/bluetooth/junk.cpp is in no build) and configuration headers included.

Left out of modules that model the rest of a component: destructors that free what a thread still uses
(`~DigitalCounter`, `producer_consumer_destroy`, `stop_destroy`: they are safe only when nothing runs,
and nobody calls them otherwise), setters that are called before anything runs (`Lights::add`,
`set_blink_ms`) or by nobody (`Stepper::set_jerk`, `reset_mm_moved`), the creation and end of tasks on
the Pico, debouncing (core/include/io.h, a loop over the clock), the encoder's switch, the speeds of
the Maestro.

Threads are taken for sequentially consistent; the only torn access modelled is the stepper's
`double`. Memory exhaustion stops the program (`core/mem.c`) and is left out.

## Plan

1. `HttpdStream`, the abstract specification of one answer (status, blocks in order, end or close),
   implemented by `HttpdServer`.
2. `PicoThreads` with the creation and end of tasks; debouncing; the encoder's switch.
3. Safety of `PicoThreads` as a refinement of the abstract condition that the other modules take for
   granted (a set of sleepers, a signal that removes one).

Parts that do not interact share a run, so that each run answers one question: what the workers, the
devices and data, the network keep true.
