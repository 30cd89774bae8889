# Robocooler: TLA+ verification project

Robocooler is the program of a vending cooler: it takes commands from a server
over a websocket, moves two doors through GPIO pins, reads RFID tags with a UHF
reader on a serial port, and tells the server which tags the cooler holds. This
directory holds TLA+ modules translated from the C++ source, TLC configurations
that check them on small instances, and TLAPS proofs. Paths below are relative
to the repository's `src/src` unless they say otherwise.

Run from this directory, for example: `tlc -config MCCooler.cfg Cooler.tla`,
`tlapm Cooler_proofs.tla`. `PROJECT.json` lists the components with their status,
the runs, the source lines of every definition (`map`), the mutants that show
that each property can fail, and under `hazards` each place where the code is
hard to test. Comments that say "Mutant" mark the definitions those use.

## 1. Inventory of the system

Threads: the websocket client's thread (commands, `onClose`, `onError`), the
serial thread (`runSerial`), the inventory thread (`_inv_thread`), a thread per
`Timer`, the GPIO interrupt thread, the main thread (which sleeps in
`SignalDispatcher`'s constructor and on which signals are handled), the log's
thread.

| Component | State it keeps | Operations | What is hard | What makes it correct |
|---|---|---|---|---|
| `RfidController`, waits (driver/RfidController.cpp 25-151) | `_mutex`, `_cmd_conditions`, `_notify_timer` | `extLockWaitCmdResult`, `notifyOneCmdResult`, `runSerial` | condition waits without predicate; one timer shared by all waits; lost requests and replies | only the last tags' notification can be missed, no callback outlives the frame it refers to, a wait ends |
| `RfidController`, inventory thread (503-634) | `_inv_thread`, `_is_inventory`, `_is_inventory_run` | `startInventory`, `stopInventory`, `inventory` | flags stored by the thread itself; a deleter that joins | one inventory at a time, quiet after a stop, no thread lost, calls return |
| `RfidController`, tag buffers (87-322, 503-612) | `_buffered_data`, `_cur_read_data`, `_read_data`, `_accumulate_data`, `_prob_read_data`, `_cur_tag_count` | a poll, `onReadData`, `compareBuffers`, `currentBuffer`, `verifyBuffer`, `accumulateBuffer` | two threads fill and empty them; stale counts; late tags | what is reported is what the reader saw |
| `Timer` (utils/Timer.hpp) | `_is_run`, `_is_restart`, `_start`, `_thread`, `_wait_condition` | constructor, `restart`, `executeNow`, `wait`, destructor | flags first stored by the thread; a restart during a run | runs once per (re)start, never after its destruction |
| `CommandHandler` (driver/CommandHandler.cpp) | `_close_inventory_timer`, `_stop_inventory_timer` | open/close commands, `getContent`, `findBrokenLabels`, alarm | four threads, timers that join each other | an open door is inventoried, a closing is reported, nobody waits for ever |
| `GpioController` (driver/GpioController.cpp) | `Door::_is_opened`, `_active_door`, `_deinit_timer`, `_open_timer` | door commands, `initSecuredDoor`, `onAlarm` | `_active_door` touched by four threads | the active door is always given up again, the handlers find it |
| `JsonExtractor` (driver/JsonExtractor.cpp) | `_buf`, `_stack` | `onMessage`, `clear` | text cut anywhere, garbage | each object once, in order |
| Packets (rfid/Message.cpp, rfid/CommandsHandler.cpp) | `_recv_buf` | `receivePacket`, `sendMessage`, `Message` | resynchronisation, check sums, lengths | no intact packet is lost |
| `RfidController`, settings (411-500, 636-680); reader commands (rfid/Commands.cpp) | `_ant_sets` | `execute`, `getAntSettings`, 40 encoders and decoders | late answers, answers of unexpected length, values out of range | what is configured is set, what is reported is current |
| `WsClientWorker`, `WsClient`, `SignalDispatcher`, `driver.cpp`, `scripts/driver.sh` | `_client`, connection, controllers, `_return_value` | connect, close, error, signal, restart loop | destruction from one's own thread; a signal before the wait or during a callback | the process ends, with the right status, and is started again |
| `Log` (utils/Log.cpp) | `_queue`, `_is_run` | `print`, `execute`, `stop` | full queue, a stop the thread does not hear, a signal handler that logs | order, loss is reported, all is written at the end |
| `ThreadPool` (utils/ThreadPool.*) | queues | `enqueue` | not used by the driver | a task runs once |
| `LogSender`, `TtyIo`, `FibonacciReduction`, `RoomController`, templates, tools, GPIO samples, tests, websocketpp and json | - | - | unused by the driver, pure I/O, stateless or third-party | - |

Interactions: the websocket thread gives text to `JsonExtractor`, whose objects
go to `CommandHandler::handle` (WsClientWorker.cpp 49-67); `CommandHandler`
calls `GpioController` and `RfidController` and owns two `Timer`s whose
callbacks call `RfidController` again; the interrupt thread calls
`GpioController::onAlarm`, which restarts a timer of `CommandHandler`
(CommandHandler.cpp 386) and then `ObstacleSensor::onAlarm`; the inventory
thread writes packets and waits on conditions the serial thread notifies.

The main thread builds the controllers and the client, which calls back on its
own thread; when the connection is lost that thread destroys the controllers and
its own client, the process aborts, and `driver.sh` starts the next one. All
threads print to the one `Log`.

## 2. Plan

Done, in this order: `ReplyWait`; `Inventory` and `InventoryControl`; `OneShot`
and `Timer`; `CommandHandler`; `GpioController`; `JsonExtractor`;
`PacketParser`; `TagBuffers`; `Cooler` (`CommandHandler` and `GpioController`
under one clock); `Settings` (over `PacketParser`); `LogQueue` and `Worker`, and
`Process` of both. Proof modules stand beside `ReplyWait`, `InventoryControl`,
`Timer`, `CommandHandler`, `TagBuffers`, `Cooler` (with `GpioController`) and
`Process` (with `LogQueue`); `Scanners_proofs` is about `JsonExtractor`,
`PacketParser` and `Settings`.

Left:

1. Proofs: every invariant and action property that a run checks is stated by a
   theorem; what is left are lemmas about the safety side of the liveness
   properties (that whoever waits has somebody left to wake it).
2. `InventoryControl` with two callers at once (websocket thread and timer
   callbacks) on the unguarded `_inv_thread`: what two concurrent assignments of
   a `shared_ptr` leave is undefined, so little can be asked beyond the fact.
3. The fields of a tag (`Command::onRead`) as operators against a reference
   encoding.

How the modules hang together: `InventoryControl` implements `Inventory` and
`Timer` implements `OneShot`; `CommandHandler` is written over those two
abstractions (its `mode` is the state of `Inventory`, its timers are
`OneShot`s); `Cooler` extends `GpioController`, instantiates `CommandHandler`
and implements both; `TagBuffers` is written over the waits of `ReplyWait` and
the single inventory of `InventoryControl`; `Settings` extends `PacketParser`;
`Process` extends `Worker` and `LogQueue`.

## 3. Modules and how they correspond to the code

`PROJECT.json` `map` names the source lines of every definition.

**ReplyWait** - A thread runs a script of steps: ask (write a request), await
(`extLockWaitCmdResult`), unlock. `mutex` is `_mutex`, `conds` the keys of
`_cmd_conditions`, `timer` the one `_notify_timer` with the wait it belongs to,
`wire` the replies under way, `notices` the `notifyOneCmdResult` calls the serial
thread still has to make for the packet in hand. Two history variables: `asked`
(the reader answers the last request in full; it outlives the lock scope of the
request) and `missed` (what a thread is to wait for next was notified while it was
between two lock scopes). A request or its answer may be lost (`Write`).
Simplifications: a wait's timer does not expire before its owner sleeps (10 s or
30 s against microseconds); the timer's own start-up race is left to `Timer`; the
second lock scope of `getAntSettings` (661-675) is merged into the first;
`execute()` (411-500), which sends and does not wait, and the constructor's wait
for the firmware version (335-396), which comes before any other thread, are left
out.

**InventoryControl** - The caller's steps (`Reset`, `Spawn`, `Assign`, the
deleter's `LowerInventory`, `Join`, `LowerRun`) and the thread's steps
(`RaiseRun`, `RaiseInventory`, `TestLoop`/`TestCount`, `Round`, `Report`,
`EndCount`) are the order of the loads and stores of the two atomic flags. The
loop variable of a counted inventory has the width of the code (`Wrap` stands
for 2^8). `prompt` is a history variable: no call has begun before the last
thread stored its flags. Calls are taken one at a time.

**Inventory** - What a user relies on: off, open-ended or counted; a start
replaces, a stop ends, a counted one is refused while another runs.

**Timer** - One action per load or store of `_is_run`, `_is_restart`, `_start`
in the thread, `restart`, `executeNow`, `wait` and the destructor, which after the
flags destroys the members declared behind `_thread` (`DestroyMembers`) and only
then joins. Flags are indeterminate until the thread stores them. Time is the bit
`due`.

**OneShot** - idle, armed, running, gone: runs only if started since its last
run, and never once destroyed.

**CommandHandler** - `ws` is the websocket thread's place in `handlePlantHub`,
`closeTimer` and `stopTimer` the two timers with the step of their callback.
`startInventory` and `stopInventory` are atomic once a counted inventory has
ended (they join it). Making a new timer joins the callback of the old one in
the same step. `_close_inventory_timer` is taken as atomic for the interrupt
thread's `if (timer) timer->restart()` (386-390), which arms a spent timer as well
as one that counts. History variables: `door`, `reported`, `patient` (no closing
was in progress when a command last opened a door), `alarmed` (an alarm has
restarted the close timer since).

**GpioController** - `ws`, `isr`, `deinit`, `open` are the places of the
websocket thread, the interrupt thread and the two timers in `initSecuredDoor`
and `onAlarm`; `active` is `_active_door`. Time passes only while nobody is at
work. With `_is_gpio_on` false the commands do nothing, so it is taken as true.
The branch of `initSecuredDoor` for a null door (128-133) has no caller; the
door-closing callbacks (211-232) are registered with no interrupt.

**Cooler** - a door command is a step of both modules, then goes on in
`GpioController` and, when that has returned, in `CommandHandler`
(CommandHandler.cpp 39-93); an alarm first restarts the close timer
(386-390) and then reaches the sensor. All four timers count down together.
History variables: `stale` (a door has been open since the server was last told
the content), `matched` (close commands named the open door).

**JsonExtractor** - `buf` and `stack` as in the code; a character is an
opening brace, a closing brace or any other. `text` and `whole` are history
variables.

**PacketParser** - `Request` and `Message` are the two constructors of
`Message`, `ReceivePacket` is `receivePacket`, fed by `OnByte` and followed by
the dispatch on the command id. The reader and the line are external: garbage
without a head byte before a packet, one corrupted byte in it, other than its
head and length (a corrupted length cannot be told from a right one).

**Settings** (with small values in `MCSettings`) - `Configure` is
`CommandHandler::setRfidConfig` with the two calls of `execute`; `Frequencies`
and `Powers` are the range checks of `Command::setFrequencyRegion` and
`setOutputPower`; `AskRegion`, `AskPower` and `Report` are `getAntSettings`,
whose waits end with any answer to the command or with `Timeout`. An answer is
read (`RunSerial`), then its fields are stored into `_ant_sets` one by one without
`_mutex` (`storing`), then the wait is notified (`Store`); a `Report` in between
copies any mix of the old fields and the new (`Copies`). The requests travel as the
bytes `Request` makes, and the external reader understands those bytes or none.
History variables: `wanted`, `kept`, `late`, `past` (the settings the reader has
had).

**TagBuffers** - `inv` is the inventory thread's place in a poll. The reader
(external) holds tags (`held`), answers a count and, when told to send and
forget, the tags one by one (`line`, a FIFO). The answer to the inventory
command carries no data and its wait is merged into `Inventory`. The serial
thread stores a count or a tag in one lock scope and notifies in the next
(`notice`, `NotifyOneCmdResult`), between which the inventory thread may go on.
A wait is assumed to keep its own timer and to have no spurious wakeup; what
becomes of one that does not is the matter of `ReplyWait`. `seen` and
`found` are what the reader really saw, `faults` counts lost messages and late
answers.

**LogQueue** - one action per lock scope of `Log::print`, `execute` and `stop`;
an entry is the number of a message, negative for the error that takes the place
of a full queue. Levels, formats and files are left out.

**Worker** - `main`, `sig` and `net` are the places of the main thread, of the
signal handler that interrupts it and of the client's thread; the controllers are
kept only as far as they use the client and the client's callbacks destroy them
(`rfid`, `inv`, `timer`). `ret` is `_return_value`, which `onError` sets after its
resets, and `status` what `main` read of it before the worker was destroyed. An
uncaught exception, a thread that joins itself and the use of a null or destroyed
object abort the process. `script` is `driver.sh`. History variables: `why`,
`quiet`.

**Process** - `Worker` whose threads hold the log's mutex while they print: a
signal handler that prints on a thread which holds it waits for ever. `~Log`
runs between the end of `main` and the exit status.

## 4. What each run checks

| Run | Question | Instance | Distinct states |
|---|---|---|---|
| `reply_wait` | With a read round and `getAntSettings` waiting at once on a lossy line: which notification can be missed (that of the last tags only), no callback into a dead frame, a wait that keeps its timer ends | 2 threads, 2 replies on the line | 292 000 |
| `reply_wait_hang` | Does every wait end? No: see below | same | violation |
| `inventory` | Threads owned, quiet after stop; and, while no call overtakes a thread's stores, one inventory, a true run flag, returning calls, the abstract interface | 2 thread slots, counts 0, 1, 3, wrap at 4 | 24 000 |
| `inventory_stop_hangs` | Does every call return? No | 3 slots | violation |
| `timer` | Destruction, restart, and the abstract one-shot | 3 calls in a life | 1 500 |
| `command` | Commands return, a closing is reported, the inventory of an open door runs on if it was opened after any closing was over and no alarm has come since; at any speed of the timers | 6 commands and alarms | 8 100 |
| `command_reopen` | ... and if a door is opened again at once? It is stopped | 4 commands | violation |
| `cooler` | The active door is given up, two doors are open only for an alarm, handlers find their door, a cooler at rest has reported its content, an open one only for a named reason | 2 doors, 3 commands, 1 alarm, the code's delays in seconds (3, 10, 3, 5) | 401 000 |
| `json` | Stack in buffer, order, completeness for texts whose objects are not cut | texts up to 8 characters, messages up to 4 | 171 000 |
| `serial` | No intact packet is lost, what is configured is set, each reported field was set, no report mixes more than two settings, and it is current | 3-bit bytes, 4 configurations (values out of range, different powers, look-alikes of heads and lengths), 3 requests | 3 700 000 |
| `tag` | What is reported is what was seen; a poll ends | 2 tags, 2 polls, 2 attempts, 1 fault | 216 000 |
| `process` | A lost connection leads to a new process, `driver.sh` stops only for a reason, a signal ends the driver, the log is written | 2 signals, 1 command, queue of 2, 6 messages | 227 000 |

Why the bounds are enough: two waiting threads are all the code has
(inventory thread and websocket thread); two thread slots suffice because
`ThreadsAreOwned` shows that at most the old and the new thread exist (a third
would have to be spawned with both slots taken, and deadlock is checked there);
three calls allow a restart during a run, another during the next, and a wait;
six commands and alarms allow closing, alarm, reopening, closing again and a
counted inventory in between; three door commands and an alarm in the cooler
allow a door opened, closed and commanded again while the alarm holds it, and
other mixes (two commands and two alarms; delays 1, 4, 1, 2 with three commands
and two alarms) were run as well, while the proofs need no bound; eight
characters hold an object split over three messages with a complete one before
it; three requests are a configuration, a question and another of either while
the first answers are late; two polls show what one leaves to the next, and one
fault is enough for any single loss or delay to meet the liveness property; a
second signal meets the handling of the first, and a queue of two is overrun by
the third message. Deadlock checking is off where a run ends because its bounded
calls or messages are used up, or because the process has ended.

Every property of a passing run is broken by a mutant of a mapped definition
(`PROJECT.json` `mutants`); the mutated definitions stand right before the ones
they replace.

### Fairness

- Threads are scheduled (weak fairness on each thread's next step).
- Timers expire and time passes (weak fairness of `Expire`, `Elapse`,
  `TimePasses`).
- `ReplyWait`: strong fairness of taking `_mutex` (threads release it while they
  sleep and between rounds, so a waiting thread meets it free again and again)
  and of the serial thread's notification. Spurious wakeups happen but are never
  relied on; replies need not arrive.
- `CommandHandler`: strong fairness of steps that wait for a counted inventory
  to end, since another may begin right after; counted inventories end
  (`PromptCallReturns` in `InventoryControl` rests on bounded rounds, which is
  `TimedWaitEnds` and `PollEnds`).
- `Process`: weak fairness of each thread; strong fairness of the steps that
  take the log's mutex (`LogStep`, `HandlerPrints`), which others hold again and
  again, and of the end of a print of the main thread, which a signal interrupts.
- Nothing obliges the server, the reader, an obstacle or the sender of a signal
  to do anything.

### Disagreements with the documentation

1. `reply_wait_hang`: all waits share `_notify_timer`. A wait that starts
   (RfidController.cpp:60) or ends (66) on one thread destroys the timer of the
   other; if that one's reply was lost it sleeps for ever. Bases.hpp:12 calls
   `UNLOCK_TIMEOUT` the limit of the waiting time.
2. `inventory_stop_hangs`: the thread stores `_is_inventory = true` itself (574);
   a `stopInventory` before that is overwritten and its `join` never returns.
   RfidController.hpp:180 says the method ends the polling.
3. `command_reopen`: opening a door resets only the stop timer
   (CommandHandler.cpp:51); the close timer of a closing less than 3 s old then
   restarts the inventory and has it stopped with the door open. The comment
   above says that the timer that ends the inventory on closing is stopped.

### Known departures, stated as conditions of the passing properties

- A timer destroyed before its thread stored `_is_run` never stops
  (Timer.hpp:56, 92): `InitialisedDestroyEnds` asks for initialised timers only.
- A counted inventory with a count above 255 never ends (`uint8_t`,
  RfidController.cpp:524): `PromptCallReturns` uses counts below the wrap.
- An alarm in the instant `_deinit_timer` expires dereferences the null
  `_active_door` (GpioController.cpp:139-144): `AlarmFindsItsDoor` excludes it
  by the history variable `spaced`.
- An object cut between two messages is never delivered: the scan starts again
  at the beginning of the buffer with the old stack (JsonExtractor.cpp:32-34).
  JsonExtractor.hpp:32 promises pieces; `WholeAreDelivered` asks for texts whose
  objects are not cut.
- An alarm restarts `_close_inventory_timer` though it has long run out
  (CommandHandler.cpp:388): with a door open its callback replaces the inventory,
  has it stopped 5 s later, and the content of the open cooler is sent. The comment
  at GpioController.cpp:236 says the timer that ends the inventory is reset.
  `PatientInventoryKeepsRunning` leaves the case out by `alarmed` (without that
  conjunct TLC finds it violated by opening, closing, opening and an alarm), and
  `OpenIsNotReported` names it as a reason.
- `Timer::wait` makes its condition and then locks and sleeps (Timer.hpp:106-109),
  without a predicate; the thread notifies without the lock (79). If the run passes
  in between, `wait` never returns. The model has the steps; no property is stated
  of them. Only a tool calls it (tools/rfid_reader.cpp:109).
- `_mutex`, `_start` and `_wait_condition` (Timer.hpp:36-38) are declared after
  `_thread` and so destroyed before its deleter joins the thread, which may be
  about to use them. The model has the order (`DestroyMembers`); what comes of it
  is undefined and not followed.
- `getAntSettings` copies `_ant_sets` (RfidController.cpp:664) while the serial
  thread stores a late answer's fields one by one without the lock
  (CommandsHandler.cpp:191-204): a region may be reported that the reader never
  had, the start of one with the end of another. `NothingIsInvented` bounds it:
  two settings at most, and each field of one of them.
- The notification of the last tags may come before the wait for it
  (RfidController.cpp:102-113): `NoLostWakeup` names it as the one exception. The
  wait then lasts until its timeout, and `AccumulatedIsFound` shows that no tag is
  lost by it.
- What `prompt`, `spaced` and `quiet` exclude is not shown harmless: a second
  start before the first thread has stored its flags lets two inventories
  overlap (`OneInventory`), the instant of `_deinit_timer`'s expiry may end in a
  null pointer (`AlarmFindsItsDoor`), and a signal during a callback or before
  the handler is registered aborts or restarts the driver (`QuietStopIsClean`).
- A second door closed while the first is active is not secured
  (GpioController.cpp:120), and `_is_active` is never true (101, 125, 145, 151).
- A request with data is written with as many zero bytes behind its check sum
  as it has data (Message.cpp:41-46). That the reader passes over them is assumed:
  requests are elements of a sequence in the model, and the reader looks at the
  packet in front of each only.
- The reader's answer with one power per antenna is taken for an error, because
  its length is not 1 (Commands.cpp:321), and the branch for it (335) is dead:
  `ReportIsCurrent` asks for the powers only if all antennas have the same.
- `_ant_sets` is not initialised: a report before the first answer holds what the
  memory held (`Blank` in `NothingIsInvented`).
- A late answer may be reported as the answer to the next question, and be stored
  under the copy: `ReportIsCurrent` excludes both by `late`;
  `NothingIsInvented` says what remains true.
- Values out of range are replaced, not refused (frequencies by 0 and 6, powers
  by 0): `ConfiguredIsSet` leaves them out by `kept`.
- A lost connection ends the process by a join of the client's thread with itself
  (WsClientWorker.cpp:90, 113): `std::terminate`, after which `driver.sh` starts
  the driver again. `LostConnectionIsRetried` therefore holds, by that accident.
- The wait for a signal has no predicate (SignalDispatcher.hpp:63): a spurious
  wakeup ends the driver with 0, and a signal just before the wait destroys the
  client and leaves the process; `SignalEndsProcess` begins with a main thread
  that waits, and `ZeroHasAReason` names the wakeup as a reason.
- The signal handler prints (SignalDispatcher.hpp:52) and so may wait for a mutex
  its own thread holds; `Log::stop` may not be heard by the log's thread
  (Log.cpp:215). `SignalEndsProcess` leaves both out, by `signals` and `missed`.
- On a line with losses or late answers a poll may hold tags of the one before,
  and a test's counts may exceed its polls: the buffer properties of
  `TagBuffers` are stated for `faults = 0`. Until then no count is stale when it
  is used: stale counts are in the model, but only `PollEnds` speaks of them.
- `PollEnds` assumes that each wait of a poll keeps its timer; finding 1 shows
  that a `getAntSettings` at the same time can take it.
- `compareBuffers` is always called with `false` (RfidController.cpp:536, 600):
  the difference is never sent.
- `findBrokenLabels` between the stop and `accumulateBuffer` suppresses the
  report of a closing; `ClosingIsReported` leaves that case out by `door`.
- Not modelled but seen: the answer of `getAntennasConfiguration` ends in `},}`
  (CommandHandler.cpp:124), braces in JSON strings are counted, an answer that
  reports an error also wakes its waiter, `~CommandHandler` resets only the stop
  timer.

## 5. What is proved

`ReplyWait_proofs` proves, for any sets of threads and any bound of the line,

- `TypeCorrect`: `Spec => []TypeOK`,
- `TimerInFrame`: `Spec => []CallbackFrameAlive`,
- `NoReplyMissed`: `Spec => []NoLostWakeup`,

from the assumptions `ThreadsAssumption` and `MaxWireAssumption` of `ReplyWait`.

The inductive invariant `IInv` adds four facts to `TypeOK` and
`CallbackFrameAlive`. `LockOwner`: the thread inside the lock is the one `mutex`
names. `AsleepInAwait`: a waiting or woken thread stands at an await step, and its
condition exists. `OutOfLock`: a thread outside the lock that is going to wait is
going to wait for the last tags. `AnswerUnderWay`: from the request to the sleep
the notification promised is on the line or in the serial thread's hands, or was
missed, and missed only by a thread on its way to the last tags. Why they are
needed: `NoLostWakeup` is about sleeping threads only, but the danger lies between
the request and the sleep. Where both share a lock scope `notifyOneCmdResult`,
which takes the lock too, cannot come in between; where they do not, it can, and
`missed` records it. The scripts enter the proof by one property (`GoodScript`:
after a request comes its own await, or the end of the scope and then the wait for
the last tags), proved of both scripts.

`InventoryControl_proofs` proves, for any slots, counts and width of the loop
variable, from `SlotsAssumption` and `WrapAssumption`,

- `TypeCorrect`, `NoThreadIsLost` and `StopIsQuiet`: `Spec => []TypeOK`,
  `[]ThreadsAreOwned` and `[]StoppedMeansQuiet`,
- `NeverTwo` and `FlagIsTrue`: `Spec => []OneInventory` and `[]RunFlagIsTrue`,
- `Refines`: `Spec => ImplementsInventory`.

There are two invariants. `IInv` is about ownership and needs no timing:
`CallerHolds` (a new thread is in the caller's hands only until it is stored, an
old one only while it is deleted), `HeldAreThreads` (what is held has not been
joined) and `StopResets` (after its reset `stopInventory` leaves `_inv_thread`
null). `StoppedMeansQuiet` follows: nobody holds a thread, so none lives. The
flags play no part, which is why hasty calls may make a stop hang but never make
it return early.

`PromptInv` is about the flags and holds while `prompt` does: a thread past its
start reads until its join (`LoopsUntilJoined`), the run flag is up while a
thread reads (`RunFlagFollows`), a spawn finds no thread alive (`OneAtATime`),
the thread being deleted has stored its flags (`StoppedHasStarted`), and each
step belongs to its kind of thread (`StepsOfKind`). `OneInventory` alone is not
inductive: that a spawn finds no thread alive depends on the flag read at the
beginning of the call being true, and that on the deleter's join.

The refinement maps `mode` to the kind of the only live thread, and to "off"
after a hasty call; a spawn is `Begin`, a thread's last step `End`, all other
steps stutter.

`Timer_proofs` proves, for any number of calls, `TimerTypeCorrect`,
`SilentWhenDestroyed` (`Spec => []NoCallbackAfterDestroy`) and `RefinesOneShot`
(`Spec => ImplementsOneShot`), from `MaxCallsAssumption`. The refinement takes
the timer to owe a run while `_is_restart` is up or the thread has yet to raise
it, so that the indeterminate flags of a new timer are harmless; a run is decided
upon at `Test` and begins at `Lower`, so a restart between the two is spent on
that run, as `OneShot` allows.

`CommandHandler_proofs` proves `HandlerTypeCorrect` and `PatientDoorsAreWatched`
(`Spec => []PatientInventoryKeepsRunning`) for any number of commands and alarms,
from `RequestsAssumption` and `MaxCommandsAssumption`. The property speaks of a
websocket thread at rest; the strengthening says whose command is in progress
(`DoorOfCommand`) and that while a door is open no closing is
(`OpenedAfterClosing`). It takes both conditions: opening a door leaves
`_close_inventory_timer` alone (`patient`), and an alarm arms it again (`alarmed`).
Without either the property is false (`command_reopen`, and section 4).

`Cooler_proofs` first proves of `GpioController` alone, for any doors and delays
(`DelaysAssumption`: `_open_mlscs` is shorter than `_deinit_mlscs`),
`GpioTypeCorrect`, `SensorGivesUp` (`ActiveIsBounded`), `OneDoorOrAlarm`
(`BothOpenOnlyForAlarm`) and `AlarmsFindTheirDoor` (`AlarmFindsItsDoor`). Without
a lock on `_active_door` the argument is one of time. `Timing`: whatever arms
`_deinit_timer` while `_open_timer` runs gives it longer than that has left, so it
cannot expire before the alarm's callback is over. From it follow `DoorIsKept`
(whoever goes on to dereference the active door has one) and `DoorsApart` (besides
the active door at most one is open, and the active one as a second only for an
alarm).

Of the composition it proves, for any doors, bounds and delays,

- `CoolerIsSensor` and `CoolerIsHandler`: it implements `GpioController`'s and
  `CommandHandler`'s specifications, so their theorems hold of it,
- `CoolerTypeCorrect`,
- `RestIsReported`: `CoolerSpec => []AtRestReported`,
- `OpenNotReported`: `CoolerSpec => OpenIsNotReported`,

from the assumptions of both modules, `TimeoutsAssumption` and
`ReportAssumption`: an alarm holds the door for less time than a closing takes to
report, `_open_mlscs` < `CLOSED_TIMEOUT` + `INVENTORY_TIMEOUT` (3 s < 3 s + 5 s in
the code). The heart is `AlarmOutlasted`: from the instant an alarm comes until
`_open_timer` has closed the door, a closing is in progress that reports strictly
later. An alarm restarts the close timer before it opens the door, which
establishes it; each timer that expires hands the promise on to the next. With
the two delays together no longer than `_open_mlscs` TLC finds that invariant
violated, and a report can be the last one and yet be that of an open cooler.
`ReportToCome` and `StopToCome` then say that what has changed will be told and
what runs will be stopped; at rest nothing is to come. `ClosedBut` (after a
closing in its turn a door is open only for an alarm) gives `OpenNotReported` for
the doors commands have closed, `OpenedAfterClosing` for those they hold open,
unless opened in a closing or met by an alarm.

`Process_proofs` proves, for any number of signals, commands and messages and any
length of the queue, `WorkerTypeCorrect`, `StopHasAReason` (`ZeroHasAReason`),
`QuietSignalIsClean` (`QuietStopIsClean`), `AllIsWritten` (`EndedIsWritten`) and
`NoSilentLoss` (`LossIsReported`). `ReasonIsKept` follows the main thread from
its wait to its end; `StatusIsClean` knows when `_return_value` has been set;
`NothingInUse` keeps the driver idle after a signal that found it so;
`LogIsEmptied` and `LogEndsFirst` order the end of the log's thread before that
of the process. For `NoSilentLoss` the file, the entry in the log thread's hands
and the queue are read as one sequence (`Kept`), which must tell of the messages
1 to `prints` (`Tale`): each is in it, or an error stands where it would be.
There are two ways for it to change, and a lemma for each: a message is appended
(`TaleGoesOn`), or everything from some place on is replaced by one error
(`TaleIsCut`); moving an entry from the queue to the file changes nothing.

`TagBuffers_proofs` proves, for any finite set of tags and any numbers of
attempts, polls and faults, `TagsTypeCorrect`, `NoTagIsMissed`
(`AccumulatedIsFound`), `NoTagOfAnotherPoll` (`PollsDoNotMix`) and
`EveryPollCounts` (`TestCountsPolls`). The invariant is a ledger, kept while the
line is without faults. `Turns`: the thread and the reader take turns, so at
most one answer is on the line, and it is the one the thread will wait for; an
answer with tags announces as many as came and are to come, which is why the
comparison of `_buffered_data`'s size with the count ends the wait with the last
of them and not before. `FoundIsOnItsWay`: a tag the reader saw is accumulated,
held by the reader or on the line. `CountsAreComplete`: in a test it is counted
as often as it was seen, less one while it is on its way. `ReadIsSeen`: what is
in the buffers or on its way to them was seen in this poll. `LooksAreCounted`
bounds the counts, for the types, and needs no reliable line. A notification may
come before its wait, or after the thread has gone on; the ledger shows that no
tag is lost by it as long as every answer comes. Of a line with faults, and so of
stale counts, nothing is proved.

`Scanners_proofs` is about the two components that cut messages out of a stream,
and the settings whose requests and answers pass the second; one module since
both rest on the same lemmas about sequences and numbers.

- `JsonExtractor`, for texts, messages and bounds of any length:
  `StackStaysInBuffer` (`StackIsInBuffer`), `TextIsCut`, `DeliveredInOrder`
  (`DeliversInOrder`) and `WholeObjectsArrive` (`WholeAreDelivered`). The
  invariant `Cut` says of a text whose braces pair that it is cut at a place `c`
  of depth 0: the buffer is what follows `c`, what was delivered are the objects
  that end up to `c`; if the stack is empty none ends later, and if no object was
  split the stack is empty. A message is scanned from the start of the buffer.
  With an empty stack the scan finds exactly the objects that end in it
  (`Aligned`: the stack is as high as the depth, its first position is where the
  open object began). With positions left on the stack it finds none (`Stuck`:
  the stack never comes down to its first position), so nothing is delivered
  twice or out of order, and nothing more is delivered until `clear()`: the
  known departure of section 4, now for every text.
- `PacketParser` and `Settings`, for any width of a byte above 7, any garbage
  without a head byte, any errors and configurations: `SettingsTypeCorrect`
  (`SettingsTypeOK`), `IntactPacketsArrive` (`DeliversIntact`), `ReportsAreReal`
  (`NothingIsInvented`), `ConfigurationsArrive` (`ConfiguredIsSet`) and
  `ReportsAreCurrent` (`ReportIsCurrent`, an action property). `LineInv`: the
  bytes on the line and in `_recv_buf` are those of one whole packet with, before
  its head byte, garbage of which the buffer keeps less than the shortest packet;
  what is due is that packet, if its check sum is right. Each byte keeps it
  (`receivePacket` either drops garbage, waits, or hands on the packet).
  `OrdersInv`: whatever is written to the port is one of four orders, and the
  reader takes it for that; it rests on the check sum `Request` computes being
  the one `Message` expects, and on the assumption that the reader does not look at
  the zero bytes behind it.
  `PastInv`: what an answer on its way tells the reader has had, and each of the
  two halves of `_ant_sets` is of one answer, or of none; a copy made under the
  stores therefore mixes two at most, which is `NothingIsInvented`.
  `ConfInv`: of the requests under way the last of each kind carries what
  the server wants, and if there is none the reader has it. `FreshInv`: unless an
  answer is late, at most one question is under way, behind all that was sent
  before it, and it is the one the thread waits for; so the answer that ends the
  wait is the answer to it, and nothing changes the reader's settings before the
  report.

  New assumptions, which hold in the code: the four command ids are distinct
  (`CommandsAssumption`; 0x76 to 0x79, rfid/Commands.hpp 37-40), and a byte can hold
  the length of the longest of these requests (`WidthAssumption`, `Width` > 7;
  256 in the code).

What the recursive functions of these modules compute (`Scan`, `Sum`) is proved
by induction on a length. The library's induction theorems take an operator,
which no installed prover can instantiate; `LeastNumber` (a non-empty set of
numbers has a least member, from the well-foundedness of finite sets) does as
well: the set of the lengths for which the claim fails has no least member.

TLC checks the same properties, on small instances, in the runs of section 4.
The inductive invariants were run as invariants before they were proved, with
two exceptions: `LineInv` quantifies over all packets, which TLC cannot
enumerate, and `Tale` is `LossIsReported` in other words.

Model-checked only: the liveness properties (`TimedWaitEnds`,
`PromptCallReturns`, `InitialisedDestroyEnds`, `RestartFires`,
`CommandReturns`, `ClosingIsReported`, `ActiveEnds`, `PollEnds`,
`LostConnectionIsRetried`, `SignalEndsProcess`). They rest on fairness, that is on
ENABLED, of which the provers can prove nothing. Every other property of a
passing run is proved as well.

## 6. Not modelled

- `LogSender` is compiled but no object of it is made; `ThreadPool`,
  `FibonacciReduction` and `RoomController` have no caller in the driver; the
  tools and GPIO samples are separate programs. Nothing relates their state to
  the system's.
- `TtyIo` and the pins are pure I/O; the external line and reader of `ReplyWait`,
  `TagBuffers` and `PacketParser` stand for them.
- websocketpp, json and pstream are third-party and make up most of the lines of
  the repository; the driver uses them by the callbacks `Worker` models.
- Of `RfidController::execute` the commands the tools alone send, the wait for
  the firmware version in the constructor, which comes before any other thread,
  and `CommandHandler::setRequestsSettings`, single stores of timeouts and counts.
- Two callers of `startInventory` and `stopInventory` at once (section 2): what
  two unsynchronised assignments of `_inv_thread` leave is undefined.
- The fields of a tag, the formatting of reports and log lines, `sendProducts`.
