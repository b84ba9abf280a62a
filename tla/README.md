# nodem-esp32 in TLA+

A verification project for the firmware in `src/src/*.rs`: an ESP32 device that
runs nodem pages on an OLED and an LED chain, is configured over UART or a
websocket, and takes pages ("pkg") and firmware ("ota") over both.

All of it runs as seven tasks on one cooperative, single-threaded executor
(`main.rs:104-114`), so a task is only interrupted where it awaits. Beside the
executor there are the thread of the websocket client, the I2C thread of the
OLED, and what no program controls: the radio, the flash, the power. Nearly
everything that can go wrong here is an order of such steps, and that is what
the modules model: **one action is what a task does between two awaits**, with a
program counter that names the await; a failing flash or NVS access, a restart
and a power loss are actions, each with a bound.

## 1. The system

| Part | State | Operations | Works with |
|---|---|---|---|
| Wi-Fi task (`wifi.rs`) | NVS `wifi` (SSID, password, two counters), `wifi_status`, `wifi_reconnect` | connect, back off 5 s, poll the link, disconnect on request | `#wifi`, `#factory` set NVS and the flag; closes the websocket before it disconnects |
| Cloud task (`websocket.rs`) | NVS `device` (code, name, id, secret, host), `cloud_status`, `reregister`, `ws_client` | wait for Wi-Fi, use or obtain credentials, open a client, 20 ms tick: message, ping, teardown | reads the Wi-Fi status; `#reg`, `#name`, `#host`, `#factory`, `#reset`; the client has a thread of its own |
| Command listener (`command_listener.rs`) | flags for its owner to take; loader fields | `#...` commands; `pkg` and `ota` uploads | one instance each for UART and websocket, both behind the VM's one command parser |
| UART task (`uart.rs`) | `command_buf`, `command_buf_pos` | read, hand to the parser, drop what was consumed, recover from errors | takes over the listener's flags |
| nodem task (`nodem.rs`, `VmClock` in `int_time.rs`) | framebuffer, live `Media`, `pkg_size`, `pkg_generation`, status popup, `connected_since`, `stat_events`, the VM's deadline and tick | 60 frames a second; load the package; hold or run the VM; count `#stat` events | `pkg_reload`; `display_buffer_dirty`; the statuses of all other tasks |
| OLED task (`oled.rs`) | `oled_config`, `oled_status`, hashes of what was sent, two buffers | initialise, flush changed pages, retry, reinitialise, switch off | I2C thread through a channel and a mutex-guarded completion |
| LED task (`iled.rs`) | NVS `drivers/iled`, `iled_config`, the I2S driver, `config`, `enabled` | load the configuration; rebuild the driver; sample, write a frame; blank the chain | `display_buffer_dirty`; `#iled`, `#nodem`, `#factory` |
| Heartbeat task (`heartbeat.rs`) | `rollback_pending` | look up the slot; mark it valid after 60 s | otadata, the bootloader |
| Display view (`driver.rs`, part of `global.rs`) | NVS `nodem/nodem`, `nodem_config`, framebuffer, the VM's `Surface` | map driver pixels to the framebuffer; resize | both display tasks, the VM |
| VM peripherals (`int_*.rs`) | drivers | wrappers called by the VM (`int_time`: see the nodem task) | — |
| Startup (`main.rs`), build files | — | create drivers, spawn tasks | — |

What is hard about them, and what makes each correct:

* **Wi-Fi** — commands, link loss and restarts arrive at any await. Correct: an
  acknowledged configuration is used; the counters count for the network they are
  about; the device gets back online.
* **Cloud** — five NVS keys written one at a time, a one-time code, two hosts,
  three parties that close the client. Correct: id and secret belong together
  and stay with their host; a code is not sent again and again; a client never
  outlives what it was opened with; registration is not lost.
* **pkg loader** — the flash is erased before it is written, two transports
  share one parser, uploads are given up midway, flash operations fail. Correct:
  a complete upload is loaded, and nothing else is.
* **ota loader, heartbeat, bootloader** — the same loader, plus a rollback phase
  across restarts. Correct: the device always has an image to boot, the fallback
  survives, a good update is booted and confirmed.
* **OLED** — two threads, skipped writes, a panel that can be unplugged.
  Correct: no lost buffer, no lost wake-up, and the panel shows the framebuffer.
* **UART** — a command buffer that is consumed from the front and can overflow.
  Correct: a client that waits for its answers stays in step.
* **LED chain and display** — the dirty flag is cleared after an await, a change of
  timing rebuilds the driver, `#nodem` swaps the framebuffer under its readers, a
  chain keeps what it was last sent, and its wiring is arithmetic on eight layouts
  and two wirings. Correct: every LED ends up showing its pixel, a chain that is
  switched off goes dark, and what is in force is what the next start reads.
* **nodem task** — everything it knows of the others it samples once a frame, and it
  holds programs by deadlines that programs replace. Correct: no change goes
  unreported, the popup tells the truth, a program waits for exactly its own wait.

`PROJECT.json` lists every hazard at its line with the property that covers it.

## 2. Modules

| Module | Models | Checked by |
|---|---|---|
| `Wifi` | `wifi_task`; the websocket is its environment | `MCWifi.cfg`, `VWifi.cfg` |
| `Cloud` | `websocket_task`, the settings commands, the registration service; Wi-Fi is its environment | `MCCloud.cfg`, `VReg.cfg`, `VHost.cfg` |
| `Connectivity` | both tasks on one executor, instances of the two modules above | `MCConnectivity.cfg`, `VDisconnect.cfg` |
| `Package` | the `pkg` loader and `load_pkg_partition` | `MCPackage.cfg`, `VPackage.cfg` |
| `Firmware` | the `ota` loader, the rollback phase, the bootloader | `MCFirmware.cfg` |
| `Update` | abstract: whole firmwares installed, tried out, confirmed or rolled back; `Firmware` implements it | `MCFirmware.cfg` |
| `Oled` | `oled_task`, `run_display`, the I2C thread, the panel | `MCOled.cfg` |
| `Uart` | `uart_task`'s drain loop; a client and the parser are its environment | `MCUart.cfg`, `VUart.cfg` |
| `Layout` | pure operators: the wiring of a chain, `DriverView::pixel`, the sizes of a frame | with `Iled` |
| `Iled` (values in `MCIled`) | `iled_task`, its NVS and driver, the chain; `#iled`, `#nodem`, `#factory`; the frames of `nodem_task` | `MCIled.cfg`, `VIled.cfg`, `VIledRestart.cfg` |
| `Nodem` | the frames of `nodem_task`: popup, VM hold, event count | `MCNodem.cfg` |
| `WifiProofs` (with `Connectivity`'s), `CloudProofs`, `PackageProofs`, `FirmwareProofs`, `OledProofs`, `UartProofs`, `IledProofs`, `NodemProofs` | theorems | TLAPS |

How state and actions correspond to the code:

* `Wifi.wpc` names the await (`boot`, `connecting`, `backoff`, `connected`,
  `disconnecting`, ...); `status`, `ip`, `wifi_reconnect` are fields of `Global`;
  `ssid`, `pass`, `conn_ok`, `conn_fail` are NVS keys. An access that fails is
  only logged by the code, so an action that makes several takes the set of
  those that worked; a counter that cannot be read is written as 1. `counted` (the
  networks whose attempts are in the counters) and `dropped` (a reset of theirs was lost)
  are history variables, as is `accepted`.
* `Cloud.pc` likewise. `Running` names points *inside* one stretch between
  awaits (`ensure_device_credentials` is one long blocking function): no task
  runs there, but the power may fail and the HTTP request takes place, so each
  is a step of its own. An id and a secret are modelled by the registration
  that issued them, which is what "belong together" is about.
* `Connectivity` has no actions of its own. It states the executor's rule
  (`ExecutorFree`), lets `#factory` and a restart hit both tasks in one step, and
  replaces each module's environment by the other module. `CloudSpec` is the
  refinement that licenses `Cloud`'s environment: the pair implements
  `Cloud!Spec` under `wifi_up <- status = "Connected"`.
* `Package` and `Firmware`: byte (or chunk) *j* of upload *n* is the pair
  `<<n, j>>`, so "in order", "complete" and "mixed up" can be told apart. The
  parser has one upload under way (`load`); while it has, whatever arrives over
  the other transport reaches the other listener as `Foreign` data.
* `Firmware` has otadata as `boot` and `state`, the two slots as `image`, and a
  set of open `esp_ota` handles. `esp_ota_*`, the bootloader and the parser are
  not in this repository; they are marked external and behave as the code and
  its comments rely on.
* `Oled.tpc` names the await, `jobs` the channel, `done` and `waker` the
  completion behind the mutex, `ready` whether the executor will poll the task.
  A page is compared by its image instead of by its 64-bit hash, which takes the
  hash to be collision-free. The panel has power, the configuration it was
  initialised with (`lit`), and display RAM.

* `Uart`: byte *i* of the client's *k*-th command is `<<k, i>>`, the last being the
  line end. `process_command` takes the first line, or nothing: that a call takes
  one command is what `websocket.rs:269-275` relies on. `Run`, `Collect` and
  `ReadError` are one turn of the drain loop each, by what the read and the parser
  returned. `rx` is the driver's buffer; that the UART's own FIFO overruns is left out.
* `Iled.tpc` names the await: the timer, the write of a frame, or of the off frame.
  `config`, `enabled` and `driver` are the task's locals, `leds` what the chain shows:
  LED *k* takes the frame's *k*-th packet, and a shorter frame leaves the rest
  of the chain alone. A timing is a model value with its resolution; a configuration's
  `csv` is the length of its text, which NVS stores up to 80 and reads back up to 79
  bytes of, and `Malformed` one of an older firmware that does not parse. `write_frame` awaits
  twice, the LEAD_GUARD and the frame, and reads nothing in between: this is one action. `buffer` is the set of the framebuffer's bits that are set, `content` what
  the page looks like, `Drawn` how the VM draws it. `Word` is the range of `usize`.
* `Nodem`: a frame is one action, because the task holds `Global` for all of it.
  An `Instant` is kept as its distance from now, negative once it is past, and `Elapse`
  moves all of them by one: this is exact for everything the code does with them
  (compare with now, add an interval), and keeps the state space finite. `asked` and
  `trouble` are history variables: when the program asked to go on, and how long ago a
  frame last saw a connection down. A `wait_until` whose frame came too late counts from
  now, and its period with it.

## 3. What the runs show

| Run | Question | Result |
|---|---|---|
| `wifi` | Does an acknowledged `#wifi` get used, do the counters speak of the right network, does the device get back online? | holds, 178,564 states |
| `cloud` | Do credentials, codes and the client stay consistent through any two faults? | holds, 608,896 states |
| `connectivity` | Do the two tasks together implement `Cloud`, and get back online? | holds, 59,321 states |
| `package` | Is a complete upload loaded, and nothing else? | holds, 2,199,076 states |
| `firmware` | Can the device always boot, fall back, and confirm an update? Does a firmware change in one step only? | holds, 1,190,725 states |
| `oled` | Do task and thread stay in step, and does the panel catch up? | holds, 193,824 states |
| `uart` | Does a client that waits for its answers stay in step with the device? | holds, 323,969 states |
| `iled` | Does every LED show its pixel in the end, and is what is in force what is stored? | holds, 398,534 states |
| `nodem` | Do the popup, the event count and the VM's waits keep their promises? | holds, 254,081 states |
| `disconnect_window` | Is no client opened while `disconnect()` is awaited? | violated |
| `uart_pipelined` | Does `command_buf` hold what came in, for a client that does not wait? | violated |
| `iled_overflow` | Is no chain accepted that is longer than `MAX_LEDS`? | violated |

The properties, by what they guard:

* *Wi-Fi.* `AppliedOrPending`: whatever await `#wifi` arrives at, it is applied or
  the flag is still up. `CountersCurrent`: once no reconnect is pending, the counters hold
  attempts at the configured network and no other, unless a failed write or a restart lost
  their reset, and without faults the present connection is counted. `EventuallyOnline`:
  liveness.
* *Cloud.* `StaleClientFlagged`: a client on a host or with credentials that are
  not the stored ones any more is marked for teardown. `RegisteredIsBacked`:
  what is shown is so. `CredentialsPaired`: id and secret of one
  registration, through two faults; three faults can break it (a
  power loss inside the wipe counts twice, as a restart inside a handler is
  itself a fault). `CredentialsStayHome`: to the issuing host only.
  `CodeSentOnce`: once, and once more per fault. `RegistrationKept`:
  only a command or an unspent code gives up a stored pair. `CodeActedOn`: a
  provisioned code gets sent.
* *Connectivity.* `CloudSpec`, `BackOnline`, `CodeGetsThrough`.
* *Package.* `WrittenInOrder`, `LoadedIsStored`, `StoredIsLoaded`,
  `UploadSucceeds`: flash, the reload flag and the live package, through
  uploads given up, refused, mixed up and cut off.
* *Firmware.* `Bootable`: at every moment, as power may fail then. `FallbackKept`.
  `HandlesHeld`: no `esp_ota` handle is leaked or used after its end.
  `UpdateBoots`: a good image is booted whatever went wrong
  before. `UpdateConfirmed`: the probation ends, unless the slot could not be
  looked up. `UpdateSpec`: `Firmware` implements `Update` under `runs` <- the firmware in
  the running slot, `boots` <- the one in the slot a reset at this moment would select,
  whatever the reason for it, and a phase read off `restarting` and the slot's state. So what
  would boot changes only at the end of a verified upload, at its restart, and at its
  confirmation or rollback: every other step, of an upload or of a failure, is a stutter.
* *OLED.* `Woken`: no lost wake-up. `SentIsShown`: a skipped page does show its image.
  `FrameWhole`: at rest the panel shows one whole frame, the last one, not parts of two.
  `PanelCatchesUp`: the panel ends up showing the framebuffer.
* *UART.* `InStep`: between a client that waits and the device nothing is left over,
  whatever was lost. `OnceInOrder`: its commands run whole, once and in order.
  Both until an error is reported to it (`uart.1`, `uart.2`): a response that could not be
  written leaves its command in the buffer, to be run again. `KeepsReading`.
* *LED.* `RateMatches`: a frame, the off frame included, goes out through a driver
  built for its timing, whatever was configured while it was written or while the
  chain was off. `SurfaceMatches`: surface, framebuffer and configuration are of one
  geometry, and no bit lies past the buffer. `Survives`: what is in force is what the
  next start reads; the exceptions (a default put in place of what could not be read or
  stored, and 80 bytes) are in the property. `LedsCatchUp`: when page and
  configuration come to rest every LED shows the pixel it is wired to, by a definition
  that goes along the wire (`Cell`) and over the page's scaled pixels (`Covers`)
  instead of through `led_index` and the division in `pixel`; only the centring, `Margin`,
  is the code's own. It holds although `iled_task` clears the dirty
  flag after awaiting the write, but only because `nodem_task` marks every frame dirty,
  changed or not: marking only changes (the mutant `MarkChanged`) breaks it. `GoesDark`.
* *nodem.* `ChangeReported`: once a frame has seen the reported state, no change that
  frames see leaves `stat_events` at 0; with a counter that wraps around it would.
  `HiddenWhenUp`, `EventuallyHidden`: the popup hides after a streak of frames, comes
  back with a drop, and does go. `HeldExactly`: a stopped program runs in a frame
  if and only if its own wait or tick is over; a deadline left behind by another program
  plays no part, as every path to a new one leaves `cycle_cnt` at 0. `PeriodKept`:
  a loop with `wait_until` wakes at multiples of its interval however late the frames come,
  and one that fell behind starts over from now instead of catching up in a burst.

Each module has one type invariant, `TypeOK`. All are theorems (section 4), as are `OneClient` and `NameOnDisplay` (`Cloud`), `RollbackShown`
(`Firmware`) and `OneWrite` (`Oled`: the buffer the code `expect`s is there), so no run
repeats them.

### What disagrees with its description

Three of these are runs of their own, with a finding in `PROJECT.json`:

* `wifi.rs:122-126` relies on `websocket_task` not opening a client during
  `disconnect()`. It can: the credential retry loop comes out of its own timer
  without looking at the Wi-Fi status again (`disconnect_window`).
* `global.rs:261` says bytes accumulate in `command_buf` until a full command has
  been consumed. The move after a command (`uart.rs:111-113`) copies as many bytes
  as were consumed, not as many as are left: a command that arrives together with
  the start of a longer one garbles it (`uart_pipelined`). For a command of more
  than half the buffer (512 bytes) the same loop reads past the end and panics,
  after the command has run; `uart` has that panic too, and shows that a client
  that waits loses nothing by it but its answer.
* `iled.rs:24-32` says a chain longer than `MAX_LEDS` is rejected. The product it
  is compared by wraps around in a release build: `#iled,65536:65536` is accepted and
  stored, and then indexes arrays of 128 entries, at every start again (`iled_overflow`).

Five lesser ones are invariants, or an action property, with a configuration for which
TLC prints the trace (`tlc -config VReg.cfg Cloud`, and so on):

| Configuration | Module | Refutes | Trace |
|---|---|---|---|
| `VReg.cfg` | `Cloud` | `RefusedCodeNotSent`: `#reg` is atomic (`command_listener.rs:340-341`) | the second of its two writes fails; the command is refused, the code stays, and is sent |
| `VHost.cfg` | `Cloud` | `HostOverrides`: a stored host overrides the default (`websocket.rs:62-64`) | one of exactly 128 bytes is accepted but cannot be read back |
| `VPackage.cfg` | `Package` | `MetadataPresent`: metadata is read "only while a pkg is actually loaded" (`command_listener.rs:196-199`) | an upload is given up; `pkg_size` still says so after the flash was erased |
| `VWifi.cfg` | `Wifi` | `CountersReset`: the counters are for the configured SSID, and reset for a new one (`wifi.rs:17-19`) | a restart between `#wifi` and the poll clears the flag that the reset hangs on |
| `VIledRestart.cfg` | `MCIled` | `SurvivesReboot`: an `#iled` configuration survives a reboot (`command_listener.rs:374-375`) | one of exactly 80 bytes is stored, and replaced by the default at the next start; it takes a `pattern_ns` of eight digits or more to get there |

No property of a passing run claims any of these; where one comes close, its comment
names the exception.

### Bounds, and why they are enough

Every counter that could grow is bounded by a constant in a guard
(`MaxCommands`, `MaxReboots`, `MaxDrops`, `MaxFaults`), each kept in a history
variable `env`. Two networks, two codes, two names, two hosts: one old, one new.
Three commands let a second one interrupt what the first caused, and a third
follow. `CounterMax` 2 reaches saturation. In `Package` a chunk of 3 bytes, erase
blocks of 2 and lengths 3, 5 and 7 in a partition of 6 give an exact chunk, a
remainder, a rounded-up erase and a refusal; in `Firmware` 3 and 5 in a slot of 4
give two sectors and a refusal, and three uploads let one that is given up meet
a refused and a good one. Two pages and two contents in `Oled` give a skipped
and a sent page, with writes overlapping preparation; two faults reach a failed
first attempt and a failed initialisation, and a panel without power reaches
three failed attempts and a failed reinitialisation, as its writes fail without
counting. In `Uart` a buffer of 4 bytes and lengths 1, 2, 3 and 5 give a command
that fits the move, one that just does, one that panics and one that overflows;
the client has one command unanswered in `uart` and two in `uart_pipelined`.
In `Iled` a chain of up to 6 LEDs, a single LED, a 3 by 2 panel in columns that run back and
forth and a strip, on framebuffers of 2 by 2 and 1 by 4, unmapped, mapped one to one, and
scaled with a negative offset, give both axes, centring, clipping and the fallback frame; the
requests include one that is too long, one that is not whole bytes, one of 81 bytes and an
accepted one of exactly 80. In `Nodem` an interval of 2 with frames at any time gives
waits that end in time, one late and several late (how long ago the last one was due is
kept up to twice the longest interval); the counters have two values each, so
that they saturate and wrap around. The theorems of section 4 do not depend on any of these values.

No symmetry is declared: the runs with liveness would not allow it, and the
others are small without.

Deadlock is checked, except in `wifi` (and `VWifi.cfg`), `firmware` and the two `Uart` runs, where the
device really may sit still: connected with nothing to do, or idle with no upload
or command coming.

### Fairness

* Weak fairness of a task: the executor polls every task whose timer or future
  is ready, and no task blocks for ever.
* Strong fairness of a successful connection attempt (`wifi`, `connectivity`):
  an access point that accepts the password does not refuse every attempt. No
  single attempt is assumed to succeed.
* `firmware`: the heartbeat's laps, and a restart that was requested. Marking the
  slot valid may fail as often as `MaxFaults` allows.
* `oled`: the I2C thread gets scheduled, and `nodem_task` marks the framebuffer
  dirty again whenever it was taken, as it does 60 times a second.
* `iled`: the executor polls the task when its timer is up or its write is over, and
  `nodem_task` renders, also when the page does not change.
* `nodem`: frames are rendered and time passes; neither waits for the other.
* `uart`: the task is polled again after its 1 ms timer, bytes sent arrive, and a
  client does not wait for an answer for ever.
* None for commands, link losses, restarts, faults, or a panel being plugged in.

## 4. What is proved

For every value of the constants (under the named assumptions in the modules:
bounds are natural numbers, `None` and the like are not values of the sets they
are added to, sizes are multiples of the block size):

* **Wi-Fi**: `TypeOK`, `AppliedOrPending`, `CountersCurrent`. The second is inductive
  together with `TypeOK`. The third also needs it, since an attempt is counted for the task's
  own copy of the configuration, and `AcceptedStored`: what the last `#wifi` stored is
  what is stored.
* **Cloud**: `TypeOK`, `CodeSentOnce`, `RegistrationKept`, `StaleClientFlagged`,
  `RegisteredIsBacked`, `OneClient`, `CredentialsStayHome`, `CredentialsPaired`,
  `NameOnDisplay`. The inductive invariants they follow from: `SentBound` (a code at hand was sent no more often
  than there were faults), `ClientInv` (the client was opened with what was
  stored when it was opened, or the flag is up), `HomeInv` (stored credentials come
  from the stored host), `PairInv` (what is left of a wiped pair, by the number
  of faults it takes to leave it), `NameInv` (the name on display is the stored one at
  every step, inside a handler too).
* **Connectivity**: the composition implements `Cloud!Spec`. Initial states map to
  initial states, and each action to an action of `Cloud` or a stutter; the only
  state invariant needed is `ConnectedShown`, that the status is `Connected`
  whenever `wifi_task` sits in its connected loop. The theorem is in `WifiProofs`.
* **Package**: `TypeOK` (including that `loader_buf`, filled without a bounds check,
  never overflows), `WrittenInOrder`, `UploadSucceeds`, `LoadedIsStored`, `StoredIsLoaded`.
  `OrderInv` ties the staged bytes to the upload's position; `LiveInv` the live
  package to flash and to the flag; `WholeInv` says that bytes in flash were
  sent in order, so that a package can only be complete once its last byte is.
* **Firmware**: `TypeOK`, `HandlesHeld`, `Bootable`, `FallbackKept`, `RollbackShown`,
  `UpdateBoots`, `UpdateSpec`. `HandleInv`:
  open handles are held by exactly one listener, and serials are fresh. `BootInv`:
  the running slot is whole; a slot is new only between the end of its
  upload and the restart; otadata names the running slot, that one, or one that was
  rolled back; on probation it names the running slot, no listener is active and the other
  slot is whole. `UploadInv`: while nothing went wrong with an upload, the other slot holds
  its chunks in order and the rest of the sector under way is erased; that a sector is erased
  just when its first chunk comes is arithmetic on remainders. For the refinement each
  action is mapped to one of `Update`'s or to a stutter. Three things carry it: an
  unfinished upload only writes the slot that would not be selected (`BootInv`), a slot that
  is not written keeps its firmware however many uploads are announced (their serials are fresh), and a
  reset on trial selects the slot that was left, for which `BootInv` had to say that otadata
  names the running one.
* **Oled**, for any number of pages: `TypeOK`, `OneWrite`, `Woken`, `SentIsShown`, `FrameWhole`. `AwaitInv`:
  what belongs to the await the task is at. `HandInv`: on the bus there is exactly one
  write, in the channel or answered, and it is the one the task awaits; elsewhere
  there is none; and no wake-up is lost. `PageInv`: `SentIsShown`, and once the write of a page
  is answered with success, it holds of that page too. That `flush` finds the
  *least* page that changed needs a minimum of a set of naturals, which comes from the
  library's well-foundedness. `FrameInv`: while no newer frame was rendered, every page `flush`
  has come past is as the framebuffer has it, and so is the prepared one.
* **Uart**: `TypeOK`, and for a client that waits for its answers (`Window = 1`)
  `InStep` and `OnceInOrder`, for every buffer size, all lengths and any number of faults and
  restarts. With a larger window they are not expected to hold, as bytes of the buffer can be
  garbled (`uart_pipelined`). `FlowInv`: until an error is reported, what is in the buffer, in the driver and on
  the wire are, in this order, consecutive bytes of the last command, up to its end, which
  has not been read yet. `RunInv`: what has been run are lines of ever later commands, whole
  or with bytes missing that are accounted for in `cut`; a command that is over and not cut is
  among them.
* **Iled**: `LedOfPixel` and `PixelOfLed`: for every layout, width and height, `led_index` is a
  bijection between the pixels and the chain, and its inverse is the walk along the
  wire. `PixelShown`: for every size, scale and offset, negative ones too, `DriverView`'s
  centring and Euclidean division give exactly the pixel whose scaled square covers the
  driver's. `FrameFits`: `FRAME_LEN` holds every configuration within the bounds with its
  reset; the arithmetic is symbolic (quotients and products are monotone), with the
  constants of the code put in only at the end. And of the state machine `TypeOK`, `RateMatches`,
  `SurfaceMatches`, `Survives`, by one inductive invariant with a part for the task, for the
  display, for what is stored and for the chain.
* **Nodem**: `TypeOK`, `ChangeReported`, `PeriodKept`, `HiddenWhenUp`, `HeldExactly`. `MachineInv`
  relates the clock to what the program asked for (`due` is the deadline, or it is over and
  the deadline gone; `phase` and the deadlines agree modulo the interval, from the last time
  a late wait counted from now), and `StreakInv`
  the streak to `trouble`; for all intervals, counters and generations.

Only model-checked: everything about liveness and fairness (`EventuallyOnline`,
`CodeActedOn`, `BackOnline`, `CodeGetsThrough`, `UpdateConfirmed`, `PanelCatchesUp`,
`KeepsReading`, `LedsCatchUp`, `GoesDark`, `EventuallyHidden`), which the proof system does not
cover. Every invariant and every action property of a passing run, and both refinements, are
theorems.

## 5. What is not modelled

* Layout, wording, logging, JSON and HTTP; TLS; the message payloads.
* `nodem_rs`, the VM and page language: a crate outside the repository. Its
  command parser appears only as far as the loader sees it.
* The VM peripherals other than `VmClock`: synchronous calls into drivers (`int_gpio`,
  `int_i2c`, `int_pwm`, `int_uart`, `int_periph`), and reading the clock.
* Timers as such: an await on a timer ends at any later moment, so nothing shown
  here depends on 20 ms being shorter than 5 s. The exceptions are what the code itself
  measures: the rollback phase (`phase_over`), and in `Nodem` the popup and the VM's waits.
* Restoring the last page at boot (`nodem.rs:183-194`), which runs a command in the VM.
* The text of configurations and its round trip (`to_csv`, `parse`); the bits of an
  LED's packet; the OLED's rotation and bytes.
* The channel between the websocket client's thread and the tick loop; the ping interval.
* Who reads `#stat`: over UART it resets the count that the cloud service goes by
  (`uart.rs:105`). `ChangeReported` is about the last reader, whoever it was.
* A full NVS partition, and wear.

## 6. Plan

Done, in this order: `Wifi`, `Cloud`, `Connectivity`, `Package`, `Firmware`, `Oled`,
`Uart`, `Layout` and `Iled`, `Nodem`, `Update`, and the proofs of all of them.

Next:

1. Messages: the channel between the client's thread and the tick loop, as part
   of `Cloud`, and the ping.
2. Pure algorithms as operators: the OLED's rotation and draw area, LED colour order,
   and the round trips of the configurations.
