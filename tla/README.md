# TLA+ verification of the ESPHome Duino-Coin miner

Specifications, model-checking runs and proofs for `components/duco/`: the
ESPHome component that mines Duino-Coin on an ESP32 (one FreeRTOS task per core)
or on an ESP8266 (inside the main loop). Both builds are covered: the miner with
its connection, the main loop and how they share the node, the sensors, timers,
web configuration and share events around them, and the algorithms of the hash
loop.

Module checks: `tlc -config <cfg> <module>`; proofs: `tlapm <name>_proofs.tla`.

## 1. Inventory

| Part | Source | State it keeps | Operations |
|---|---|---|---|
| Miner task | `mining.cpp`, `mining_esp32.cpp`, `mining.h` | per core: `client_buffer`, the job's hashes, `is_connected`, `client_sock`, `errors`, share counters | `mine`, `connectToNode`, `waitForClientData`, `askForJob`, `parse`, `submit`, `problem` |
| Shared configuration | `duco.h:42-57` | `is_ready` (atomic), `host`, `port`, `node_id`, user, key, rig identifier (plain strings) | read by every task without a lock, written by the main loop; `is_ready` is lowered by everybody and raised by `fetch_pool_node` alone |
| Main loop | `duco_esp32.cpp`, `duco.cpp` | `job[]`, `miner_handles[]`, three time stamps | `setup`, `start`, `loop`, `check_for_problem`, `fetch_pool_node`, `stop`, `on_ota_global_state`, `sync_web_config` |
| Sensors | `update_sensors` in `duco_esp32.cpp`, `duco_esp8266.cpp` | the sensors' last states | called on every pass of `loop` |
| Timers | `duco_esp32.cpp:19-49`, `duco_esp8266.cpp:17-51` | stamps of the last check, fetch and sensor update | compared with `millis()` in `loop` |
| Web configuration | `duco.cpp:16-28,67-104,131-136`, `packages/configuration.yaml` | the page's fields, the identity in use | `sync_web_config`, `generate_identifier` |
| Share event | `duco.cpp:138-143` | deferred calls | queued by a task, run by the main loop |
| Job texts | `mining.cpp:87-147`, `mining_esp32.cpp:134-151,197-235` | none | request, reply, parsing, difficulty |
| Nonce counter | `counter.h` | decimal string, value, length | `reset`, `++` |
| Hash | `dsha1.h` | digest state, block buffer, byte count | `write`, `finalize`, `reset` |
| ESP8266 build | `duco_esp8266.cpp`, `mining_esp8266.cpp` | as above, one job | the same operations, called from `loop` |
| Code generation | `__init__.py`, `sensor.py`, ... | none | sockets registered, defines, setters |
| Pool and Poolpicker | external | | a version on connect, one line per request; a node's address |

**How the parts interact.** A task connects to the node in the configuration,
reads the node's version, then in a cycle asks for a job, hashes, and submits the
share it finds; every exchange is one line each way over a blocking socket. The
main loop watches `is_ready`: as long as it is false, it fetches a node from the
Poolpicker, assigns `host`, `port` and `node_id`, and raises `is_ready`. Whoever
finds the node unusable lowers it: a task that loses its connection or cannot
dial, the main loop without a network or an identity, the web page with a new
configuration, a firmware update. The main loop reboots the device when a job has
55 errors with no accepted share between, and deletes tasks and jobs when a firmware update starts.

**What is hard.** `is_ready` can fall between any two statements of a task, also
between a request and the wait for its reply, which then stays in the stream. The
strings are assigned while tasks may read them. One task's failure has to stop
the other. A firmware update stops tasks in the middle of anything. Waits, dials
and retries end by clocks that are looked at in some places and not in others.
The list with lines is under `hazards` in `PROJECT.json`.

**What makes the parts correct.**

- Task: requests and replies stay paired or the lag is accounted for; it never
  waits for what nobody will send; it counts errors for a reason and shares
  consistently; each pass ends.
- Main loop and configuration: a node is whole when offered and is revoked before
  it is exchanged; a device without identity is offered none; a lost node is
  replaced; a failing miner recovers or the device reboots.
- `stop`: no job is freed under its task, and nothing is left running.
- Sensors: an accept rate of at most 100 %, totals that do not fall, a display
  that catches up with the node. Timers: what is due is done, also when the clock
  goes round. Web configuration: what the page shows is in use after a
  sync, and a node outlives an exchange of the identity no longer than the sync
  lasts. Events: one for each share.
- ESP8266: the same of requests and replies, counters and display, and every pass
  ends, for `loop()` waits for it.
- Hash loop: the text hashed is the number sent, the search ends and misses
  nothing. Hash: rounds as in the standard; for the hashes and nonces the miner
  meets, padding too; and nothing left of the job before. Request: its fields can be taken apart again.

## 2. Modules

| Module | What it is |
|---|---|
| `MiningESP32` | the tasks, step by step, and the main loop as far as they see it (`MainLoop`) |
| `DucoESP32` | the whole ESP32 component: extends `MiningESP32` with the main loop in full |
| `DucoESP8266` | the whole ESP8266 component, in one thread |
| `NodeLease` | abstract: a node is granted whole and revoked before the next |
| `ShareLedger` | abstract: a share is counted once and accepted at most once while it is open |
| `Sensors` | `update_sensors()` of the ESP32, read by read, beside the tasks |
| `LoopTimers` | the stamps of `loop()` over a clock that goes round, both builds |
| `WebConfig` | the identity: YAML, page, identifier, sync, node |
| `ShareEvents` | share events through the scheduler's queue |
| `JobRequest` | the text of a job request |
| `HashLoop` | the search for a nonce and the counter `Counter<10>` |
| `DSHA1` | the hash's buffering and padding, and the object's use by `mine()` |
| `Dsha1Rounds`, `Word32` | `transform()`, round by round, on 32-bit words (sets of places) |
| `FIPS180` | abstract: SHA-1's computation as the standard writes it |
| `DucoClaims` | claims of comments and logs that the ESP32 build does not keep |
| `MC*` | instances for TLC; `MCParts` runs the small modules, `MCMessages` holds SHA-1 vectors |
| `*_proofs` | the theorems about the module of that name; `MainLoop_proofs`: about `LoopTimers`, `ShareEvents` and `WebConfig` |

Both builds implement `ShareLedger`; `DucoESP32` implements `NodeLease` and
`MiningESP32`; `Dsha1Rounds` implements `FIPS180`. `Sensors` is built on what is
proved of the rest: its miners move by the actions of `ShareLedger`, and its node
is revoked before another is offered, as `NodeLease` says. The definitions named "Seeded fault" in a comment are
plausible errors that no action uses; each property is known to be violated when
one of them takes the place of the action before or after it.

### MiningESP32

A step of a task is the code between two accesses to state others can change.
`pc[c]` says where in `mine()` core `c` is:

| `pc` | in the code |
|---|---|
| `mine` | `mine()`, before its test of `is_ready` (`mining.cpp:32`) |
| `connect` | `connectToNode()`, before its own test (`mining_esp32.cpp:24`) |
| `open`, `dial`, `retry` | the dial loop: before `socket_ip`, before `connect`, in the 2 s sleep |
| `wait` | a request is sent (or a connection made), `waitForClientData()` not yet at its test (`:84`) |
| `read` | inside the read loop (`:89`); `want` says for whom |
| `lost` | `connectToNode()` after a wait that lost the connection (`:63`) |
| `ask`, `hash`, `submit` | before `askForJob`, in the hash loop, before `submit` |
| `none` | the task does not exist (creation failed, or deleted by `stop`) |

The connection is modelled as the pool sees it: `owed` is the sequence of replies
it has sent or will send and the task has not read. `skipped` counts the waits
given up on this connection; it is a history variable apart from its bound.

Abstractions: a line of text is one of six kinds, the ones the code distinguishes
(`Line`); the hashes held are none, a fresh job, or a job whose share was sent;
hashing is a choice between found and not found, where finding needs hashes (that
a digest equals an array no job ever filled is left out); `port` and `node_id` go
with `host`, which is `HalfWritten` while any of the three is assigned. `ping` and
`hashrate` only feed sensors. Time is left out: an action that needs a delay to
pass may happen at once.

`errors` stops at `ERROR_THRESHOLD` and the share counters at `ShareCap`. The
first loses nothing, since `problem()` is the only reader. The second makes
`AcceptedWithinFound` weaker once a counter reaches its cap, for which
`ShareUnderJudgement` makes an exception; the theorem holds for every cap.
`MaxSkipped` disables `WaitSkip` on a connection that has skipped that often; the
task then waits for `is_ready`. No property depends on the bound, and the theorems
hold for each.

### DucoESP32

The main loop is one more process. `main` is `idle` between two passes of
`loop()`; `resolve`, `request`, `commit`, `publish` inside `fetch_pool_node()`;
`stop` and `free` inside `stop()`, before and after a `vTaskDelete`; `reboot` in
the second before `safe_reboot()`; `stopped` once `stop()` has returned and the
loop is disabled. `sync_web_config` and the OTA callback run in the main loop's own
thread and hence only between passes. `CorePanic` is the null pointer of
`mining_esp32.cpp:34-35` when no socket is left: the device panics and reboots.

`DucoESP32` extends `MiningESP32` and shares its variables, so that the refinement
`ImplementsMining == Spec` needs no mapping: it says that the main loop never does
what `MainLoop` rules out. `ImplementsLease` maps the abstract `lease` to
`IF is_ready THEN host ELSE NoNode`.

The guard on the identity (`duco_esp32.cpp:27-33`) is compiled in with the web server
(`USE_WEBSERVER`), as in every package of the repository; that build is modelled.
The status warning of the component is not modelled, as nothing reads it.

### DucoESP8266

`pc` says where `loop()` and the `mine()` it calls are: `idle` between two passes,
`pass` behind the sensors, `connect`, `dial` and `retry` in `connectToNode()`,
`wait` (with `want`: for whom), `ask`, `hash`, `submit`, `after` when `mine()` is
back, and `stopped` once an update has begun. Nothing on the device
interleaves with a step; the pool and the network do: `link` may close at any
point, and of `owed` a tail may be lost. The differences to the ESP32 are in the
actions: a wait that times out stops the connection and leaves `is_ready` alone
(`WaitTimeout`), `readStringUntil` hands over half a line after a second's stall
(`WaitCut`, at most `MaxCut` times on one connection; that a pool may also trickle
bytes without an end of line, each within the second, and so hold the wait for ever,
is left out), a send that fails ends the
pass with the node kept. The display is part of the module, since it is written
in the same thread.

### Sensors

`main` is the place in `update_sensors()`: `idle`, `cores` (after the status was
published), `accepted` and `found` (before the two reads for core `i`), `publish`;
`stop` and `stopped` during and after an update. Between any two of them miners
find and judge shares and lower `is_ready`. `hashrate`, `ping` and `share_rate`
are published together and are one variable, `nan` or `numbers`; the accept rate
is kept as its two sums.

### LoopTimers

Time is true time, `millis()` its rest modulo `Millis`. A pass begins at most
`Gap` after the last one ended, and takes up to `MineTime` on the ESP8266 (0 on
the ESP32). `checked`, `fetched`, `updated` say in true time when something was
last done; `online` and `needy` since when it was possible and wanted. The
assumption `CHECK_INTERVAL + Gap + MineTime <= Millis` says that no pass is 49
days late. The initial state has the check done at 0, for `last_check_time_`
means boot.

### WebConfig, ShareEvents, JobRequest

`configuration` is what the program uses, `page` what the three text fields hold
(kept over reboots), `yaml` what was compiled in; names are model values besides
`Blank`, `AutoName` and `ChipName`. A sync runs in the main loop, but the ESP32's
tasks go on beside it and read `is_ready` and the identity: it is one step for each
field, one for the identifier and one for `is_ready`, which comes last (`sync` is
the place, `changed` the local variable). So `NodeIsForIdentity` says when a task may
meet a node with another identity, parts of one, or the name `Auto`: from the first
change of a sync to its end. On the ESP8266 nothing runs in between. `BootSync` comes
five seconds after boot, before or after `setup()`, which is last of all components
(`duco.cpp:69-72` drops a sync that comes first); `applied` is set by the first sync
that is carried out. That a task may read a string while it is assigned is not in
this module (see below).

`ShareEvents` counts: shares found, calls in the queue, calls of the automation.
`submit` and `call` are the places of a task between the count and the callback,
where `stop()` may delete it.

In `JobRequest` a text is a sequence of words and separators. Readings are
present or absent; a component's user and key are blank or not.

### HashLoop, DSHA1, Dsha1Rounds

The counter is its digits, its number and its length, as in the code, on words of
any size; a hash stands for the text it was computed from, so that the pool's
expected hash is a number's decimal or nothing (`NoResult`). `Toggle` is the main
loop changing `is_ready` inside the search.

In `DSHA1` a byte is a pair of origin and position, and the state the sequence of
blocks transformed: a byte hashed from the wrong place cannot look right.
`Write` is the code's `write()`, which differs from an ordinary SHA-1 in one place
(`dsha1.h:17-23`): after it has filled up the buffer it advances `data` and `bytes`,
but takes nothing off `len`, so that it goes on with as many bytes from behind the
data as it has just taken. Such bytes are marked `behind`. Where the size's eight bytes
just fill the block, nothing more is transformed, and what is left in the buffer and
counted too much is thrown away with the copy: the digest is right. It is wrong if the
nonce or the padding fills the buffer up, which needs a hash whose last block, with
the nonce, the 0x80 and the size, comes to more than 64 bytes. `DigestIsOfMessage`
claims the digest for all other lengths (`FitsTheBlock`), among them those of the
pool's hashes of 40 digits (`MinersDigestsFit`); the run also hashes lengths where it
is wrong, for `BufferHoldsRest` holds of those too. The byte count of a new object is
any of `Garbage`, as the constructor leaves it.
In `Dsha1Rounds` the five variables keep their places and the rounds rotate the
names, the schedule is 16 words that are overwritten, as in the code; `FIPS180`
moves the variables and has all 80 words. A word is the set of the places where it
has a 1 (`Word32`), so that the logical operations are those of sets; `Plus` says
place by place whether something is carried into it. The property
`ImplementsFIPS180` has two parts: the refinement (`RoundsAreStandard`) and the
published digests (`KnownDigests`), so that both modules cannot err together.

## 3. Runs

| Run | Instance | What it shows |
|---|---|---|
| `mining_core` | 1 core, 2 nodes, threshold 2, 3 shares, 2 skipped waits, any line as an answer | the inductive invariant, the share counts, the ledger |
| `duco2` | 2 cores, 1 node, threshold 1, 1 skipped wait | pairing, no mutual wait, loss withdraws the node, errors have a cause; both refinements, `stop()`, identity, the main loop's invariant |
| `duco_live` | 1 core, 1 node, threshold 2 | the three liveness properties |
| `esp8266` | 2 nodes, threshold 2, 2 shares, 2 cut lines | the inductive invariant (pairing and display in it), errors have a cause, ledger, and three liveness properties |
| `sensors` | 2 cores, 2 nodes, 1 share each | accept rate, totals, display |
| `parts` | the seven small modules, one at a time | see below |
| `share_once`, `reconnects`, `socket_budget`, `wait_times_out`, `configured_key`, `version_added` | | one claim each, violated |

Two cores are what the ESP32 and ESP32-S3 have, and tasks touch each other only
through `is_ready` and the node, so that a second core already is "another task".
No symmetry is used: `stop()` and `update_sensors()` visit the cores in order. One
node suffices where nodes are only told from none and half of one; `mining_core`,
`esp8266` and `sensors` have two, so that a connection or the display can lead to
an old one. A threshold of 1 or 2 stands for 55: the properties tell only below
from at the threshold. One skipped wait puts a connection out of step, two let it
lag by more than one reply; the same goes for cut lines. `duco2` counts no shares,
which none of its properties is about. In `sensors` one share per core is enough
for a sum of accepted shares to get ahead of one of found ones, if they were read
in the wrong order.

`parts` begins in one of seven modules and stays in it, which explores the sum of
their states:

- `HashLoop`: 10-bit words and four digits, so that all carries, the bound 1023
  and difficulties that wrap when multiplied by 100 occur; nonces at the carries,
  at the bounds and out of reach. The proofs have any width.
- `DSHA1`: hashes of 0, 40, 45, 46, 63, 104 and 119 bytes and nonces of 1, 9 and 10
  digits: 45 and 10 are the last that fit the block, 46 and 10 the first that do not, 63
  and 1 fill it with the nonce, 104 is 40 a block later; four byte counts of a new
  object, with which the warm-up's writes fill the buffer up and do not.
- `Dsha1Rounds`: three messages, one of two blocks, at full width.
- `LoopTimers`: a clock of 8 values that goes round twice, intervals 3 and 2, gaps
  up to 2, mining up to 1: stamps before and after the clock's turn, and stamps of
  0. The proof has any values.
- `WebConfig`: each YAML configuration and page of two users, a key and a name
  besides blank and `Auto`, every place in a sync; `JobRequest`: every set of readings, with and without
  user and key; `ShareEvents`: two cores, four shares.

`JobErrorHasCause` is about a pool that answers each request in kind
(`Garbled = FALSE`); the other safety properties hold for both. On the ESP8266
run the pool answers in kind too; the proofs allow both.

### What the violated claims show

- **`ShareOncePerJob`** (`mining.cpp:81`). `is_ready` falls after a share was sent
  and before its verdict is awaited; a node is fetched; the next job request reads
  the late verdict `GOOD`. `parse()` fails and the hashes stay, but the buffer is
  not empty, so `mine()` hashes the old job again, finds the same share and submits
  it once more.
- **`Reconnects`** (`duco.cpp:99`). After a new configuration the open connection is
  used again (`mining_esp32.cpp:26`). The history variable `outdated` holds
  connections older than the change; it may miss some (a change can also pass as a
  plain withdrawal) and never holds one too many.
- **`SocketBudget`** (`__init__.py:77`). The Poolpicker's socket comes on top.
- **`WaitTimesOut`** (`mining_esp32.cpp:119`). The wait of 120 s is checked after
  each byte; the blocking `read()` of a silent connection returns none. The run
  assumes the program's own fairness and nothing of the pool.

- **`ConfiguredKeyIsUsed`** (`docs/duco-component.md:56`). A blank user or worker
  of the page is skipped, a blank key is not (`duco.cpp:84`): five seconds after
  boot `on_boot` syncs the page, and a device whose page nobody has touched loses
  the key of its configuration.
- **`VersionIsAdded`** (`docs/duco-component.md:66`). With sensors and `esphome`
  both on, `job_req += job_req += ...` (`mining_esp32.cpp:224`,
  `mining_esp8266.cpp:168`) doubles the request: its fifth field holds the version
  with the begin of another request behind it.

Three more disagreements were read in the code and its models, and have no run of
their own: the sign `~` of a task problem needs a handle that is not null, while a
task that could not be created has a null one and shows `*`
(`duco_esp32.cpp:306`, `docs/duco-component.md:111`; `SignOf` in `Sensors` has
it); a worker field holding `Auto` differs from the identifier made of it, so that
every sync counts as a change and withdraws the node (`duco.cpp:91,99`; `SyncWorker` in
`WebConfig`); a name left blank does not become the default, only `Auto` does
(`duco.cpp:133`, `docs/duco-component.md:32`; `Identified`).

### Fairness

- `TaskFairness`: FreeRTOS runs every task again and again. Strong, because a step
  is enabled by `is_ready`, which others flip. `DialTimeout` is strong: a dial that
  keeps failing reaches the 100 s.
- `MainFairness`: `loop()` is called again and again by ESPHome and `stop()` and
  `fetch_pool_node()` run to their end (they have time limits of their own). Strong
  fairness of `LoopFetch`, `FetchConnect`, `FetchAnswered` is an assumption about
  the surroundings: the network comes back, and the Poolpicker does not fail for
  ever.
- `PoolFairness`: the pool answers what it owes. The code enforces no such thing,
  as `WaitTimesOut` shows without it; so `MineReturns` is relative to it.
- `DucoESP8266`: the thread runs on (weak fairness of `Mine` and `Loop`); nothing is
  asked of the pool. Strong fairness of `DialTimeout` says that dials which fail
  for ever reach the 100 s, of `PassRuns` that the network is up again and again,
  of `CheckReboot` that a check falls due among the passes (`TimersAreDue`).
- `Sensors`: `Update` is weakly fair, it is straight-line code. `UpdateStatus` is
  strongly fair: passes and `UPDATE_INTERVAL` recur (`TimersAreDue`) until an
  update stops the loop.
- `EventsFairness`: the main loop and the tasks run on; that `submit()` ends is relative to the pool on the
  ESP32 (`PoolFairness`) and given on the ESP8266 (`PassEnds`).

## 4. Proofs

`MiningESP32_proofs` proves `Spec => []IInv` for all constants allowed by
`ConstantsAssumption` (the special values differ from the nodes, the threshold is
positive). `IInv` is needed because the properties alone are not inductive: that a
task reading is owed a reply (`NeverWaitsForNothing`) follows from
`LagIsSkippedWaits` (the number owed is the number skipped plus one while waiting),
and that in turn needs to know where `want` is set and where a connection exists
(`SocketState`); `AnswersTheRequest` needs the same. `AcceptedWithinFound` needs
`ShareUnderJudgement`: a share on its way is found and not yet accepted. One lemma
per group of steps shows that the parts it touches are kept; the environment's
steps come last. The action properties `LossWithdrawsNode` and `JobErrorHasCause`
follow from the same invariant.

`DucoESP32_proofs` shows that under `DucoInv` each step of the main loop is a
`MainLoop` step or leaves the tasks' state alone (`DucoStepMining`), which carries
`IInv` over. With it `DucoInv` is inductive. Its parts: `FlagIsDown` (from the
begin of a fetch or of `stop()` to its end nobody raises `is_ready`),
`HandlesAreTasks` (handles, jobs and tasks agree, also between `vTaskDelete` and
`delete`, where exactly the core being stopped has a handle and no task), and
`FetchInOrder` (what one step of a fetch leaves for the next). The theorems
`Implements`, `LeaseKept`, `JobOutlivesTask`, `StopIsComplete` and `NobodyMines`
follow. The cores are numbers here (`CoresAssumption`), for `stop()` goes by their
order.

`LedgerKept` maps the ledger's open shares to the cores that are to submit or
whose verdict is to come (`Judged`). A core's step changes that core's share alone
(`LedgerFrame`), so each step is a step of the ledger for one core, or a stutter;
`IInv` gives that a verdict only comes where a share is open.

`DucoESP8266_proofs`: `ESP8266Inv` adds to pairing where flag, connection and
place in the code agree (`LinkState`): a `want` exactly in a wait, no replies
without a connection. The end of a wait is one lemma (`WaitStep`), since all four
ends deliver the same way. The ledger is the ESP32's, with one core.

`JobErrorHasCause` follows from `ESP8266Inv` for a pool that answers in kind
(`~Garbled`): with no line cut on an open connection the only line owed to a job
request is its job.

`Sensors_proofs`: `RateWithin100` follows from the partial sums. `SumsAgree`: up
to the core in hand, the accepted sum is at most the found sum, plus between the
two reads what the core in hand has found. A count between two reads keeps it, as
found only grows, and a core's accepted never passes its found (`SharesAgree`).
`TotalsNeverFall`: a total on display is a sum whose step for each core is at most
that core's counter (`Shown`; of the partial sums the proof only says that they
exist), and counters only grow, so that the next update catches up with it core by
core (`CatchesUp`).

`MainLoop_proofs`, timers: the difference of two stamps is the true difference modulo
the clock (`SinceIsRest`). An interval may be missed only if a stamp looks newer
than it is; the invariant says that it then looks old enough before the time
since which passes went on reaches the interval. `TimersAssumption` is what makes
a pass come before a stamp can look new again.

`HashLoop_proofs`: the bound never is the greatest word, for every word size that
is a multiple of four, for a multiple of 100 is one too, and so is its rest, while
the greatest word is not. Hence the counter never wraps at `counter <= difficulty`.
`TextIsNumber`: between two numbers `Increment` changes the nines at the end and the
digit before them, which is what a step from `Decimal[n]` to `Decimal[n + 1]` does;
that the digits suffice is the assumption `WordsFitDigits`
(`Len(Decimal[Words - 1]) <= max_digits`, 10 digits for 32 bits). `SearchIsRight`
needs that two numbers with one text are one number, and that every number below the
counter has been compared.

`DSHA1_proofs`: for every byte count the padding is 1 to 64 bytes and ends, with
the size, on a block (`PaddingCompletes`). No write leaves the buffer (`WriteInBounds`):
one that fills it up ends at its end, and what is kept after that is less than a block,
of whatever data. An object holds a message if its blocks are the
message's full blocks, its buffer begins with the rest, and its count is the length
(`Represents`). A write that does not fill up a buffer begun appends to what is held
(`WriteAppends`); the size's write, which just fills it up, completes the blocks
(`WriteCompletes`), and after it the object holds nothing of use. Where the nonce fits
the block (`FitsTheBlock`), `Finalize` meets these two cases only, and a message has
one padding (`PaddedIs`), so that what it has transformed is the padded message. For
other lengths the theorem claims nothing, and TLC shows the digest wrong when the
guard is taken away.

`MainLoop_proofs`, configuration: one lemma for the begin of a sync and one for each
of its steps. `ConfigInv` says what each place has assigned (`SyncedSoFar`), and that a
node of another identity needs a sync under way that has changed something, so that the
step that ends it withdraws the node. Events: `OneEventPerShare` counts the miners between a share and its
call; each step adds or removes one of a finite set.

`Dsha1Rounds_proofs`: `TransformIsStandard` holds for every message of 32-bit words.
The code computes choice and majority with fewer operations (`FunctionsAre`), adds
the five terms of a round in another order, which needs that addition is associative
(`PlusAssociates`: however three words are added, as much is carried in total into
every place, by induction on the place), has 16 words for a schedule of 80
(`WordIsScheduled`: before round `t` the array holds the last 16 words up to `t`),
and after five rounds the names are back (`NamesReturn`). `PlusAddsNumbers` says that
adding the sets is adding the numbers modulo 2^32.

Where these need an induction, it is the least counterexample of the order on the
natural numbers (`WFMin`), with the set of the numbers that have the property. That a
recursive function (`Decimal`, the schedule of `FIPS180`) has its defining equation
is shown too: the functions on the first `m` arguments exist for each `m`.

The proofs assume the named assumptions on the constants and nothing else.

Only model-checked:

- liveness (fairness and `ENABLED` are outside the prover's reach): `ProblemEnds`,
  `NodeReturns`, `MineReturns`, `PassEnds`, `NodeIsReached`, `DisplayFollowsNode`, and
  the second half of `SharesAreTold` (that each share is told);
- `ReadingsReadBack`: it relates a fold over the readings to a recursive split of the
  text, and both are parametrised by operators;
- `KnownDigests`, the part of `ImplementsFIPS180` that computes given digests; it also
  is what checks the constants of the rounds;
- the violations.

## 5. Not modelled

- Formatting, logging and layout; the texts of `submit()`, a fixed list of fields;
  the arithmetic of hash rate, ping and share rate, which only sensors show.
- A task deleted by `stop()` while it runs on the other core ends at that core's next
  switch, a moment after `vTaskDelete()` has returned; `KillTask` ends it at once
  (`duco_esp32.cpp:69`).
- Torn strings: `host`, user, key and worker are `std::string`s assigned in the
  main loop while tasks may read them. That the read of a host being assigned
  happens is in `MiningESP32` (`HalfWritten`); what comes of it is undefined, and
  its outcomes are not enumerable.
- An expected hash of fewer than 40 digits leaves bytes of the job before in place
  (`mining.cpp:89-101`): the search then looks for a digest nobody asked for, and
  fails as it would without one.
- The component's status warning, which nothing reads; the locks inside FreeRTOS
  and lwIP that a deleted task might hold.
- Code generation in Python (schema, defines, sockets) and the YAML packages: they
  have no behaviour at run time but the calls that are `WebConfig`'s inputs, and
  the number of sockets in `SocketBudget`.

## 6. What could follow

The algorithms are proved apart from each other: that the digest compared in
`HashLoop` is the one `DSHA1` and `Dsha1Rounds` compute is the reading of three
modules, and a composition could state it. A
model of the strings' torn reads would need a decision which outcomes to allow.
