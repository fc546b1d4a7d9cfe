# floodping: a TLA+ verification project

floodping is a collection of home-automation programs around AVR
microcontrollers: a bedroom lamp driven by gestures and a remote control, a word
clock with its Android remote, a network of radio sensors reporting to Nagios,
and a boot loader and small nodes. This directory holds TLA+ modules that model
the programs, TLC configurations that check them on small instances, and proofs
checked by TLAPS. All paths below are relative to the repository's `src/`.

| | |
|---|---|
| check a module | `tlc -workers 2 -config MCKeys.cfg MCKeys` |
| check the proofs | `tlapm SensorsProofs.tla` |
| machine-readable index | `PROJECT.json` |

## 1. Inventory

### 1.1 Bedroom lamp

```
  hand ──> distance sensor 1 ─┐                      ┌─> settings ─> LED colour
  hand ──> distance sensor 2 ─┼─ I2C ─ Schlafzimmer ─┤
  remote ─> infrared receiver ─┘        (master)     └─> RAM of the clock (DS1307)
```

Three programs on ATtiny85 are I2C slaves; `Schlafzimmer/main.c` is the only
master. There is no shared memory: a slave publishes bytes in `txbuffer`, the
master acknowledges by writing `0xaa` to `rxbuffer[3]`, and both sides poll.
None of the programs waits for another; the pace is set by `_delay_ms` calls.

| component | state | operations | what is hard | what makes it correct |
|---|---|---|---|---|
| I2C slave driver `usiTwiSlave.c` | `overflowState`, interrupt enable, `buffer_adr`, two buffers | start-condition and overflow interrupts; application reads and writes its buffers with interrupts off | interrupts and application interleave; a start, NACK or foreign address may come in any state | behaves as the I2C EEPROM its header describes |
| distance sensor `distancesensor-tiny85/main.c` | gesture state, timeout counter, command, temporary light, published bytes | one pass per 10 ms: measure, step the automaton, time out, take the acknowledgement, publish | an acknowledgement meant for one command arrives while the next gesture is made | only a full wave raises a command; its light goes out; no command lost or doubled |
| infrared receiver `ir-receiver-tiny85/main.c` | displayed key (four bytes), position in its loop | take the acknowledgement, poll IRMP, display a key for 500 ms | the four bytes change between two bytes of a read; an acknowledgement is taken late | each key is obeyed before it leaves the display, and obeyed as what it is |
| visits `read_distance`, `readIr` in `Schlafzimmer/main.c` | `uiLightCmd`, `uiTempLight`, the bytes read | address, read bytes, delay, acknowledge, execute | each part can fail; `uiLightCmd` is shared by both sensors; it is read before a delay and used after it | exactly-once execution of gestures |
| lamp settings (the switch in `readIr`, `SetColor` in the loop) | colour, brightness, light, function | 18 keys; scaling in 16-bit `int` | steps that do not divide the range, overflow of the product | ranges kept, arithmetic exact |
| controller `main` of `Schlafzimmer/main.c`, `i2c-rtc.c`, `i2c-master.c` | settings, saved copy in the clock's RAM, error counter, position in the loop | boot and restore, the endless loop, save, count errors, give up and blink until the watchdog resets | resets between two saves, ignored save errors, devices that die, restarts while gestures are made | saved settings never torn by more than the command in progress; the light switched by orders only; gives up only for cause; dark when off; no starvation |

### 1.2 Word clock and its remote control

```
  phone: WCRemote ─ WordClockRemoteService ─ Bluetooth ─ serial line ─┐
  light sensor ─ ADC ─ ldr.c ─────────────────────────────────────────┼─ wordclock/main.c ─ LEDs
  buttons ────────────────────────────────────────────────────────────┘        │ I2C
                                                             clock chip: time, and RAM for the settings
```

| component | state | operations | what is hard | what makes it correct |
|---|---|---|---|---|
| serial mailbox `wordclock/main.c` | one line, filled by an interrupt, and a flag | a character arrives; a line has been served | what arrives while a line is being worked on is dropped, character by character; both line ends end a line | what is obeyed is a command sent as a whole; a line sent to a free mailbox arrives |
| main program `wordclock/main.c` | brightness, three channels, mode; their copies in the chip's RAM | commands, waiting modes, saving cell by cell, restoring at boot, the automatic by the sun, buttons, watchdog | one colour is four transfers whose results are ignored; a reset strikes between two; the automatic changes what is shown and not what is kept | kept and shown is what was ordered; the clock moves by order; each line is served |
| calendar and local time `wordclock/i2c-rtc.c` | date, time, zone | steps of each field, BCD, weekday, summer time, sunrise | ends of months, years and the century; local day with universal weekday | agreement with a reference calendar and with the law |
| words `wordclock/main.c` | none | the words of a minute | the hour named changes within the hour | a reader finds the time |
| light sensor `wordclock/ldr.c` | ring, running sum | convert, read | one wrong slot would stay for ever | the sum is that of the last measurements |
| connection `WordClockRemoteService.java` | `mState`, three thread references | start, connect, connected, stop, write; the threads' own steps | decisions outside the critical section they act in; threads that were cancelled report late | one connection, which the state names; whole commands |

### 1.3 Radio sensors

```
  1-wire bus ─ rfm12-tiny2313 ─┐
  climate    ─ rh10hp03-tiny2313 ─ radio ─ gateway (netio, rfm12.c) ─ UDP ─ receiver-nagios ─ chat
  movement   ─ bma020-tiny2313 ─┘
```

| component | state | operations | what is hard | what makes it correct |
|---|---|---|---|---|
| search `1wire.c` in the node | last branch, address found | one pass per device, bit by bit | devices come and go; a pass depends on the one before | every sensor that stays is reported, the search ends |
| node, gateway, receiver | the frame, connections, the table of values | send twice, pad, forward, compare, put, answer | a frame cut or damaged; values put and read one by one | an answer holds what was measured |

### 1.4 Small programs

| component | state | operations | what is hard | what makes it correct |
|---|---|---|---|---|
| timer node `timer-tiny85/main.c` | two limits, tick counter, phase | tick, sleep, take an order byte by byte | multi-byte counter shared with an interrupt; orders that break off | times as ordered |
| boot loader `wordclock-bootloader/main.c` | parser, page buffer, flash | menu, one field of a line at a time | pages are programmed before a checksum is known; the last page | a file that arrives is loaded, a changed one stops |

### 1.5 Not modelled

The NagiosNotifier app and the Android activities (user interface);
MiniWordClock (an earlier, smaller word clock with the same mechanisms); the
single-loop lights and switches (`nachtlicht`, `kerze`, `klinke`,
`marderschreck`, `rfid-reader`, `serverraum`), which interleave with nothing; the
USB receivers built around V-USB; `wordclock-bloader`, a boot loader by a third
party; and third-party code (IRMP, can-lib, Ethersex and uIP, USB AVR-Lab,
librfm12), which is most of the repository's lines. It is modelled as far as
this code uses it.

## 2. Modules

| module | models | abstract / detailed |
|---|---|---|
| `TwiEeprom` | the memory device `usiTwiSlave.h` describes | abstract |
| `UsiTwiSlave` | both interrupt routines of `usiTwiSlave.c`, the application's accesses | implements `TwiEeprom` (`ActsLikeEeprom`) |
| `DistanceSensor` | one pass of the sensor's loop, as a function | operators |
| `Gesture` | that pass under every movement of the hand | |
| `LightChannel` | a gesture completed raises one command, executed once, and only then the next gesture completes | abstract |
| `SensorLink` | `read_distance` and the switch behind it, interleaved with passes | implements `LightChannel` (`ExactlyOnce`) |
| `IrReceiver`, `IrLink` | the receiver's loop; `readIr` byte by byte, interleaved with it | |
| `LampSettings`, `LampKeys` | what a key does, what colour is shown; every sequence of keys | |
| `Schlafzimmer` | the controller: two `SensorLink`s and one `IrLink` on one bus, settings, saving, errors, resets | composition |
| `LineMail` | commands arrive whole, at most once, or not at all; of one that reads fixed places, one of the things it can be taken for | abstract |
| `UartMailbox` | the serial interrupt and the flag it shares with the loop | implements `LineMail` (`ActsLikeMail`) |
| `WordClock` | the main program, which gets its lines from `LineMail`'s box | |
| `Calendar`, `Adjusting`, `LocalTime` | steps of the date and the reference calendar; sequences of steps; local time, summer time, sunrise | operators; machines |
| `Words` | the words of a minute, and how they are read | |
| `LightSensor` | ring and sum of `ldr.c` | |
| `RemoteService` | the connection service, one action per critical section or blocking call | |
| `WireSearch` | the search on the 1-wire bus | |
| `RadioChain` | nodes, gateway and receiver over a lossy channel | composition |
| `TimerNode`, `HexLoader` | timer node, boot loader | |
| `LampProofs` | lemmas on the operators of `LampSettings` and `DistanceSensor`, which three modules share | theorems |
| `SensorsProofs` | `SensorLink`, `Gesture`, `WireSearch` | theorems |
| `KeysProofs` | `IrLink`, `LampKeys` | theorems |
| `SchlafzimmerProofs` | `Schlafzimmer` | theorems |
| `WordClockProofs` | `WordClock` | theorems |
| `ClockPartsProofs` | `UartMailbox`, `LightSensor`, `Words`, `Calendar`, `Adjusting`, `LocalTime` | theorems |
| `RemoteServiceProofs` | `RemoteService` | theorems |
| `DevicesProofs` | `UsiTwiSlave`, `TimerNode`, `RadioChain`, `HexLoader` | theorems |
| `MCSensors`, `MCKeys`, `MCSchlafzimmer`, `MCClockParts`, `MCDevices` | instances for TLC | |

Parts that share no state are checked in one run: the MC module has a variable
`part` (or `case`) that is chosen at the beginning and never changes, and the
parts not chosen rest in an initial state. Such a run is the disjoint union of
the parts' own state graphs.

Correspondence with the code:

* **`UsiTwiSlave`.** One action per case of `switch (overflowState)`, plus the
  start-condition interrupt. `usioie` is the enable bit of the overflow
  interrupt; `buffer_adr` keeps its name and its "undefined" value 255. A stop
  condition raises no interrupt and is no action. Accesses of the main program
  are between `cli()` and `sei()`, so they interleave with whole routines.
* **`DistanceSensor`.** `Pass` is the composition of the pass's four parts in
  their order: `Sense` (the two bands, the others only age the gesture),
  `Expire` (the timeout raises the command), `TakeAck`, `Publish`. Since the
  buffers are touched only in the section with interrupts off, a pass is one
  step for the master. The analogue reading is one of three zones.
* **`SensorLink`.** The steps of `read_distance`: address, first byte
  (command), second byte (temporary light) and delay, acknowledgement, the
  caller's switch. `away` counts sensor passes since the last completed visit.
  The refinement ties `LightChannel` to the hand: `Ripe(dev)` is the
  command of a gesture of three bands after which the whole timeout has passed,
  which the next pass raises if the hand stays away. So only such a gesture
  raises a command, and only one: a published command that is executed a second
  time is no step of the channel.
  `Elsewhere` is the visit to the other sensor, which uses the same
  `uiLightCmd`; in `Schlafzimmer` it is the real other visit.
* **`IrLink`.** The receiver takes an acknowledgement in one section
  (`CheckMark`) and displays a key in another; in between and while it sleeps
  the master reads byte after byte. `visits`, `began` and `served` are history.
* **`Schlafzimmer`.** `pc` is the part of `main` the controller is in and
  `queue` the transfers to the clock it has still to make, in the code's order,
  so that devices run and a reset strikes between any two. Its visits are the
  actions of the link modules by `INSTANCE`, with what the loop adds: errors
  noted in `bHasError`, the switch over `uiLightCmd`, saving, `uiErrorCount`.
  `Restart` forgets what is in the controller's own RAM; the sensors, the
  receiver and the clock live on.
* **`UartMailbox`.** `Receive` is `SIG_UART_RECV`: a character is stored while
  there is room and the flag is clear, a line end (either) completes the line,
  and while the flag is set everything is dropped. `Line` is what the loop's
  string functions see, up to the first zero byte. The command that shows a
  given pattern (`q`, `main.c:552`) does not look for it: it converts fixed
  places, 2 to 9, and a shorter line makes it show digits of an earlier one.
  `Obeyed` keeps this, and `Found` in `LineMail` says that of such a command
  only the part that was sent is sure. In the code `PatternLength` is 9 (the
  letter and eight digits) and `UART_MAXSTRLEN` 100.
* **`WordClock`.** One action is one transfer to or from the clock chip, or one
  part of the loop without any. `saves` lists the cells a command has still to
  write; `due`, `lost` and `auto` are history. `ServePlain` is every command
  that sets something, `ServeWait`/`EndMode` the commands that wait for another
  line inside the command (which is thereby swallowed), `ServeAdjust` and
  `Button` read, step and write back the clock (byte after byte: a refused
  write may have set the hour already), `Second` is the 1 s tier with the
  automatic colour, whose whole sunrise or sunset is one shade,
  `Starve` the unbounded wait for an acknowledged address, and `Boot` what
  follows a watchdog reset or a power failure. The zone is a cell like the
  others, with 0 where it cannot be read. The clock's time is kept as the number
  of hours it is wrong by; the date is left out.
* **`Calendar`, `Adjusting`, `LocalTime`.** The steps keep the code's
  expressions: 2000 is taken for a common year, the year is an `unsigned char`,
  so that `Y-` from 2000 stores 95. `DayNumber` and `HourNumber` count days and
  hours and are the reference. The chip counts its own days, 29 February 2000
  included.
* **`LightSensor`.** `curr_sum` wraps at 16 bits, as it does in C. `since` is
  history, for each slot everything measured from it on.
* **`RemoteService`.** A thread is where it is in its `run` (`at`), and its
  socket. The `synchronized` methods are one action each; what `run` does
  between two of them (`Forget`, then `Connected`) are two. The state read
  without the lock (`Test`) is a step of its own. `Accept` fails when its socket
  was closed, and for other reasons, too. `cancel` only closes a socket;
  the thread notices later (`Lost`, `ConnectFails`). `Write` sends one of the
  three parts of a message.
* **`WireSearch`.** `Begin` is reset and presence, `Bit` one turn of the loop:
  the bit and its complement are what the devices still `active` answer
  together. The bits come in the order in which they are sent.
* **`RadioChain`.** `Send` puts both copies on the air, whole, with one byte of
  the measurement changed, or with its end lost (which the gateway replaces by
  zeros); the bytes for node and kind of frame arrive (section 5);
  `Forward` is the gateway, `Reinit` its `rfm12_init` after an overflow, which
  opens one more UDP connection; `Receive` decodes and compares, `PutValue`
  and `GetValue` are the receiver's synchronised accesses to the table. The
  decoding keeps the receiver's mistakes: of an acceleration's high byte only the
  sign survives, movements are not compared.
* **`TimerNode`.** `WriteByte` is a byte of an order (any byte wakes the loop),
  `ReadLow`/`ReadHigh` the two parts of reading the tick counter, `Switch` and
  `Reset` those of clearing it, `DoI2c` taking an order. A restart marker leaves
  interrupts off until the watchdog bites.
* **`HexLoader`.** A step is one field of a line; `ParseData` programs a full
  page at once, `ParseChecksum` of an end record what is left.

## 3. Runs

| run | what it asks | properties | states |
|---|---|---|---|
| `sensors` | Does every wave of the hand raise one command, executed exactly once, whatever the interleaving and however often an acknowledgement fails? What do the gesture's seven states remember? Does the search find every sensor while a device comes or goes? | `ExactlyOnce` (refinement), `LinkInv` (inductive), `CommandsServed`; `StateIsHistory`, `CommandMeansWave`, `LightGoesOut`; `SearchFindsAll`, `MeasurementEnds` | 86 000 |
| `keys` | Is every key obeyed before it disappears, and never misread? Do settings stay in range, is the colour exact? | `NoKeyLost`, `ObeysDisplay`, `KeysServed`; `SettingsExact` | 50 000 |
| `lamp_faults` | The whole lamp with broken visits, devices that miss a visit or an acknowledgement, resets and refused saves at any moment: what is kept, why does it give up, what can switch the light? | `OneCommandBehind`, `ResetsForCause`, `SwitchedByOrder`, `CommandsOnce` | 2 300 000 |
| `lamp_lives` | Are keys still obeyed beside a dead sensor, with the controller restarting over and over? Does a lamp switched off get dark? | `TypeOK`, `NoKeyWaits`, `GetsDark` | 93 000 |
| `wordclock` | Two faults at any moment: does the clock keep and show what was ordered, move only by order, serve every line? | `KeptAsOrdered`, `ShownAsOrdered`, `ClockMovesByOrder`, `LinesServed` | 1 820 000 |
| `clock_parts` | Is the light's sum exact? Do the words say the time? Does the mailbox make up commands? Do the steps agree with a calendar, and local time with the law? | `WindowInv`, `Settles`; `SaysTheTime`; `ActsLikeMail` (refinement), `FreeLineArrives`; `StepsAreExact`, `SummerTimeByLaw`; `PartsInv` (types, weekday, shift) | 320 000 |
| `remote_service` | Threads that overlap, fail late and are cancelled: does the state name the connection? | `ConnectedHasThread`, `OneConnection`, `WholeCommands`, `KnownLasts`, `AttemptsEnd` | 611 000 |
| `devices` | Is the I2C driver the memory device of its header? Are the timer's times as ordered? Is a file loaded, or the loader stopped? Does an answer hold what was measured? | `ActsLikeEeprom` (refinement); `TimesAsOrdered`; `LoadsOrStops`; `AnswersAreMeasured` | 2 120 000 |
| `usi_position`, `sunrise_table`, `remote_listens`, `loader_tail` | four statements of comments the code does not keep (section 6) | `PositionIsChecked`, `SunriseAsTabulated`, `ListensInListen`, `EndWritesTheRest` | counterexamples |

Deadlock is checked everywhere but in `remote_service` and `remote_listens`,
where the activity may end, and in `usi_position`, which is about one step.

### What the properties had to allow

The properties say what the code does where this is not what one would expect:

* **Summer time** changes an hour late, and in some nights the hour after
  midnight is taken for the other time, since the local day is compared with the
  universal weekday. `SummerTimeByLaw` names exactly these hours.
* **The automatic** by day brings back a light put out by `o`, and the colour
  shown when it is left is not saved (`ShownAsOrdered` excepts `auto`).
* **A refused read** before an adjusting command makes local time be written
  back as universal time (`ClockMovesByOrder`). A refused write may set the
  hour and leave the day; the property speaks of the hour.
* **A line that ends a waiting mode** is not looked at; `LinesServed` counts it
  as served.
* **The steps of months and years** leave days that do not exist;
  `StepsAreExact` says what they make of them.
* **A connect attempt that was cancelled** and fails late starts the service
  anew and so ends a connection accepted meanwhile; and a thread that reports
  late, that its attempt failed or its connection was lost, says LISTEN over a
  connection that lives (hazard at `WordClockRemoteService.java:404`). So
  `KnownLasts` says who may close a connection that is in use (the user, or an
  attempt to connect) and who may make the service forget that it has one (such
  a late report and nothing else), and `ConnectedHasThread` that while a
  connection lives the state is CONNECTED or, after such a report, LISTEN, and
  that no accept thread stands beside it. An attempt forgotten
  by another's `Forget` can no longer be cancelled, and `stop` does not stop a
  connect thread past its success.
* **Zeros** that replace a lost end of a frame pass the comparison of the two
  copies (`KeptWasMeasured`), as do signs of accelerations.
* **Two devices that leave** the 1-wire bus in one measurement can hide one that
  stays: `SearchFindsAll` is stated for one change.
* **Two orders that overlap** in the timer node mix; `TimesAsOrdered` excepts
  them, and allows a phase to be short by what two torn accesses of the counter
  can pretend.

### Bounds, and why they are enough

* **Buffers of 2 bytes, 4 byte values** (`devices`). Positions in range, at the
  end, one past it and far past it all occur; the driver compares positions
  and moves by one, nothing else depends on the size. The theorems hold for
  all sizes from 2 to 254.
* **Timeout** (100 passes in the code): 3 in `Gesture`, 5 in `SensorLink`, 1
  in the composition. The automaton does not look at the counter before it
  exceeds the limit; what matters is how the limit relates to the controller's
  pace, which `PaceAssumption` states and the proofs treat in general.
  The run takes the slowest pace that the assumption allows,
  2 * 4 <= 5 + 3.
* **`MaxVisits` = 4** bands remembered in `Gesture`: the automaton distinguishes
  one, two, and three or more; the fourth shows that longer paths stay there.
* **`SleepVisits` = 1**: the weakest assumption on the pace; a larger one only
  restricts the receiver.
* **Keys**: one that changes only the light, one that changes it back, a full
  colour, and a key of another remote with one of our command numbers. For
  the settings nine commands cover brightness, light, both function keys and one
  colour channel; the two other channels run through the same text, and the
  proof covers all of them.
* **Faults**: `MaxFaults` of the listed kinds, at any place. In `lamp_faults` one
  broken visit, or one missed visit or acknowledgement, or two of resets,
  refused transfers and silences: an error during the recovery from another is
  the case of interest. In `wordclock` two for the same reason. The proofs of
  `SchlafzimmerProofs` and `WordClockProofs` hold for any number.
* **`ErrorLimit`** is 1 instead of 10: more only repeats loops in which the
  same device is silent.
* **A hand at one sensor at a time**: the sensors share nothing but the
  controller's variables, and the other sensor is visited, published and
  acknowledged in the same runs; one case of `lamp_faults` waves at the first
  and one at the second, so that both orders of the visits occur. Where resets
  are the question nothing is in front of the sensors, whose passes then only
  matter while the controller waits for them.
* **Word clock**: two colours, and in one behaviour either the commands for
  settings or those that set clock and zone, which meet in nothing but the pc and the
  faults. Five hours and five zones, -2 to 2, distinguish a step, a shift by the
  zone and the two together, and the zones' turn from the last to the first.
* **Mailbox**: five characters for lines of at most three letters and noise of six
  letters: lines shorter than the last, of equal length and beyond the buffer;
  a pattern of three places, which shorter lines leave to earlier ones.
* **Dates**: the first two and last five days of each month of the years 0, 3, 4,
  5 and 99, two steps (the second finds what the first left). Local time runs
  through each hour of eight years, in the zones -12, 1 and 12; the theorems
  hold for every zone from -12 to 12 and all years.
* **Ring** of four slots and three readings, the extremes among them; the proof
  covers every size.
* **`N` = 5** threads: an attempt being replaced, its replacement, one accepted
  connection, one that reports late, and a spare. The proof covers every number.
* **1-wire**: addresses of three bits, any set of devices, one change per
  measurement. The theorem holds for every length of an address.
* **Radio**: two frames of one node (`MaxNodes` = 1), one of which
  (`MaxDamaged` = 1) arrives with any one byte of its measurement changed by 1
  (`Changes`; of an acceleration's high byte, of which only the sign survives,
  this goes unnoticed), or cut anywhere; values that tell signed from unsigned and small from
  large. Frames of different nodes go to different names. The theorem is for
  every number of nodes, of damaged and cut frames, and every change of a byte.
* **Timer**: a byte of the counter holds two numbers, so that four ticks carry;
  limits below, at and above the carry, and one more than an `int` holds.
* **Loader**: pages of four bytes, seven files with a rest, a full last page, a
  line across a page, a gap, another first page, a beginning within a page, and
  another record; one byte changed to 1, the type of the end record, or to 4,
  the address of the next page. The theorem holds for every
  page size and every byte.

### Fairness

* `Gesture`: the sensor's endless loop makes passes.
* `SensorLink`, `IrLink`: both endless loops run (weak fairness on passes and
  visits). A device that is asked again and again answers in the end (strong
  fairness of `Acknowledge`, and of the first byte in `IrLink`); without it a
  device that never answers is a dead device, which `lamp_lives` treats.
  Nothing is assumed about hands and keys. The receiver's own loop is not
  assumed to be fair: a key on display is obeyed also when the receiver stands
  still.
* `Schlafzimmer`: the controller and both sensors run. The watchdog is part of
  the controller, since it is what ends the blinking loop. No fairness on
  faults.
* `WordClock`: the loop runs and the watchdog ends a loop that hangs. Lines,
  buttons and the sun need not come; a line that waits is served in every mode
  but one that waits for the next.
* `UartMailbox`: characters on the wire arrive and the loop serves; nothing on
  the sender.
* `LightSensor`: the converter finishes and the loop calls `ldr_read`.
* `WireSearch`: the program runs; nothing on devices coming or going.
* `RemoteService`: threads that connect get on, `connect()` returning one way
  or the other. Nothing on the user, the peer or the accept thread.
* `TimerNode`, `HexLoader`, `RadioChain`, `UsiTwiSlave`, `Calendar` and its users:
  only safety is stated, and no fairness.

### Assumptions about the environment

* `PaceAssumption`, `2 * MaxAway <= TimeoutLimit + 3`. With the delays in the
  code the controller completes a visit to each sensor every 40 to 60 ms, about
  6 sensor passes of 10 ms, and the limit is 100: the assumption leaves room for
  visits that fail for half a second.
* In `lamp_faults` and `lamp_lives` the controller's start outlasts a pass of
  each sensor: its delays before the loop are longer than 10 ms.
* `LineAssumption`: no letter of a command is a marker or a line end, and the
  buffer of the serial mailbox holds a command with its marker and its zero
  byte, and the places of the pattern. `DateAssumption`: years have two digits,
  as in the chip. `ZoneAssumption`: zones are -12 to 12 hours, as `z+` and `z-`
  keep them. `ClockAssumption`: so are those of the main program, for any
  furthest zone.
* `TimerAssumption`, `MeasurementAssumption`: orders are bytes, measurements are
  16-bit numbers, one or three to a frame as the kind of node sends them.
* `AddressAssumption`: an address is shorter than the numbers 254 and 255, which stand for
  an error and a first pass (64 bits in the code).
* `AloneAssumption`: of the hand's path at least four bands are remembered, one
  more than the automaton tells apart.
* `SleepAssumption`: a complete visit to the receiver fits in its 500 ms delay.
* Data bytes that follow an acknowledged address arrive. The code ignores the
  result of writing the acknowledgement's data byte.
* The two operands of each 16-bit value in `readIr` are read left to right. C
  leaves the order open; the mutant that reads them the other way violates
  `ObeysDisplay` and `KeysServed`.
* The clock's RAM holds settings when the model starts. After a power failure
  of the clock it holds anything, and the code uses what it reads.
* `CommandsOnce` is stated for visits that do not break between address and
  data, and for hands that rest while the controller restarts. Both conditions
  are needed: `read_distance` returns 1 after a broken visit, so that the
  command of an earlier visit is executed again (`SwitchedByOrder` shows that
  this is the only additional cause of a switched light), and while the
  controller is down for seconds a second gesture can overwrite the first.
* The word clock's RAM holds settings when its model starts; a boot that cannot
  read a cell is a fault, and the cell is then excepted until it is saved again.
* `u` sets the clock to the right time. (The code accepts any hexadecimal
  digits.)
* The peer of the remote control takes what is written while its socket is open,
  and nothing after.
* One byte of a file may arrive changed, and never a length: this would shift all
  that follows.
* `FilesAssumption`: a file has lines with 1 to 255 bytes of data, and the end
  record, which has none. `PageAssumption`: a page has bytes, and what a changed
  byte becomes is a byte.

## 4. Theorems

The theorems hold for every value of the constants within the assumptions named
in the modules. All state a property that a run checks but three: `TypeCorrect`
(the types of the I2C driver), `Nothing` (that an acknowledgement swallows no
gesture) and `KeysProofs!LinkInvariant` (what two theorems about keys rest on).

| theorem | states | argument |
|---|---|---|
| `DevicesProofs!TypeCorrect` | `TypeOK` | directly inductive, one step per case of the switch |
| `DevicesProofs!ImplementsEeprom` | `ActsLikeEeprom` | every interrupt is a step of the memory device or a stutter under the mapping `Mode`; needs `TypeOK` for the range of `buffer_adr` |
| `DevicesProofs!SwitchesOnTime` | `[]TimesAsOrdered` | see below |
| `DevicesProofs!KeepsWhatWasMeasured` | `[]AnswersAreMeasured`, for any number of nodes and of damaged or cut frames | see below |
| `DevicesProofs!LoadsWholeFiles` | `[]LoadsOrStops` | see below |
| `SensorsProofs!LinkInvariant` | `[]LinkInv` | see below |
| `SensorsProofs!Nothing` | `[]NothingSwallowed` | from `LinkInv`: while an acknowledgement waits, the gesture has not come far enough to end |
| `SensorsProofs!CommandsExactlyOnce` | `ExactlyOnce` | refinement of `LightChannel` from `LinkInv`; a command raised is that of the gesture just complete (`Ripe`) |
| `SensorsProofs!AutomatonRemembers`, `WaveTakesThree` | `[]StateIsHistory`, `CommandMeansWave` | see below |
| `SensorsProofs!FindsAll` | `[]SearchFindsAll` | see below |
| `KeysProofs!LinkInvariant` | `[]LinkInv` | see below |
| `KeysProofs!DisplayObeyed`, `NoneLost` | `ObeysDisplay`, `NoKeyLost` | from `LinkInv` |
| `KeysProofs!SettingsStayExact` | `[]SettingsExact` | each command keeps every field in its range; 255 * 100 = 25500 fits in 16 bits, and the quotient is at most the colour |
| `SchlafzimmerProofs!LampTyped` | `[]TypeOK` | inductive; the only long part is that each step of a visit keeps the shape of its device |
| `SchlafzimmerProofs!KeptOneBehind` | `[]OneCommandBehind` | see below |
| `SchlafzimmerProofs!GivesUpForCause` | `[]ResetsForCause` | `CountInv`: silences since the last good loop bound the error counter, with `bHasError` while a loop is under way |
| `SchlafzimmerProofs!SwitchesAsOrdered` | `SwitchedByOrder` | from `TypeOK`: each step that touches the light is a visit's last, a key's, or a restart |
| `SchlafzimmerProofs!ExecutesOnce` | `CommandsOnce`: in the whole lamp, too, a wave raises one command, executed once | see below |
| `WordClockProofs!Kept`, `Shows` | `[]KeptAsOrdered`, `[]ShownAsOrdered` | see below |
| `WordClockProofs!MovesByOrder` | `ClockMovesByOrder` | see below |
| `ClockPartsProofs!SumExact` | `[]WindowInv` | `Telescope`, a difference of neighbouring windows per slot, makes it inductive; it bounds the sum below 2^16 |
| `ClockPartsProofs!ObeysWholeCommands` | `ActsLikeMail` | see below |
| `ClockPartsProofs!WordsSayTheTime` | `[]SaysTheTime` | see below |
| `ClockPartsProofs!AdjustsExactly`, `PartsHold`, `SummerTimeKept` | `StepsAreExact`, `[]PartsInv`, `[]SummerTimeByLaw`: for every zone from -12 to 12 hours; the shift of the local day excepts the first three months of 2000, whose leap day the steps do not know | see below |
| `RemoteServiceProofs!WriteFindsThread`, `OneAlive`, `CommandsWhole` | `ConnectedHasThread`, `OneConnection`, `WholeCommands` | see below |
| `RemoteServiceProofs!Lasts` | `KnownLasts` | each step that closes the live connection cancels it, and each that sets another state is looked at; from the invariant the canceller is the user or an attempt, and the state is overwritten by a late report only |

**Sensor link.** That commands are executed exactly once is not inductive: it
depends on why a new gesture cannot complete in the wrong moment. `LinkInv`
adds two parts. `CopiesAgree` says that from the first byte to the
acknowledgement the controller's copy of a command equals the sensor's.
`GestureBehind` says why: the gesture begun since a command was raised has made
no more passes than the controller let happen, `Progress(dev) + 1 <= MaxAway +
away` before the acknowledgement and `<= 2 * MaxAway` after it. A gesture needs
`TimeoutLimit + 4` passes from one command to the next (three bands and the
timeout), which `PaceAssumption` puts out of reach. The lemmas `SenseEffect`,
`ExpireEffect` and `PassEffect` say what a pass can do to a command, a mark and
a gesture's progress, and are all the invariant needs to know of it.

**Infrared link.** `ReadRight` says that the bytes read so far are those on
display, unless a key was pressed since the visit began; `ServedInTime` that
the receiver does not leave its sleep before a visit that began after the key
has been completed, and that such a visit has obeyed it.

**Connection service.** That whoever finds the service connected finds a live
thread is not inductive, because the state, the references and the threads'
places are changed by different steps. `IInv` is `Types`, `HasThread` (a
connected state names a thread that reads), `OneConnection` (live threads are
the referenced ones), `Alone` (while a connection lives the state is CONNECTED or
LISTEN and there is no accept thread beside it), `Fits` (what the connection has got of a line fits what is
still to be written of the message: a part is missing only when it was written
before the connection was made) and `Quiet` (before the activity is shown there
are no threads). `AppendPair` is about the sequences of
`WholeCommands`.

**Kept settings of the lamp.** `OneCommandBehind` lets a cell be the one before
or after the last command, but does not say which the queue will still write.
`Stored` adds it: a cell that differs is in the queue, or its transfer was
refused. Then a command, which begins with an empty queue, finds everything kept,
and each transfer brings one cell up to date. Resets empty the queue together
with the controller's memory, and the settings restored are what is kept.

**Commands in the whole lamp.** `ExecutesOnce` carries the sensor link's invariant into
the composed lamp. What is new there is that both visits share `uiLightCmd`, and that
the controller stops visiting when it gives up. `Paced` is `LinkInv` for one sensor
and a controller that reads 0 from its neighbour's visit; `AwayPaced` says that a
sensor that is not being visited does not mind the other's command. Before the
controller has started, `Resting` says that nothing has moved. `OnceInv` counts
silences against faults, so that the controller never gives up. The theorem is under
`Undisturbed`, the conditions named at the property: hands rest while the controller
is down, the only faults are visits not answered, and no more of them than the error
limit.

**Kept and shown settings of the word clock.** `SavesInv` says that a cell to be
saved shows what was ordered, and that the loop begins a command with nothing to
save; `KeptAsOrdered` then passes through each transfer. `ShownInv` passes
through `Boot` because of `KeptAsOrdered`: what is read back is what is due, but
for `lost` cells, among which the cut command's are. `AlikeInv` says that the
channels of a colour agree unless one of them is lost: they are ordered together
(`CommandSaves`), set together by the automatic, and only a boot can mix them.

**Clock moves by order.** `HeldInv` says that as long as no transfer was refused
the loop holds either the chip's time or the local time; a step changes it by
an hour and writes it back, so that one refused read moves the chip by the zone
(`Ahead`, the zone as ordered, around the day) and an hour. The arithmetic modulo the number of hours is in `Remainder`.

**Gesture.** The history is a sequence without a bound on the path, and still
needs no induction: `StateOf` is the automaton's state as a function of the
number of bands entered and of the last one, `StateIsHistory` says the two
agree, and one pass appends one band at most. That a command means a wave
(`WaveTakesThree`) follows from what a pass that raises a command finds
(`PassEffect` in `LampProofs`, for any timeout).

**1-wire search.** A pass follows the path of the pass before up to the last conflict
where it took 1 (`Turn`), takes 0 there and 1 at every conflict after it. A sensor that
was there all the time is therefore reported or still ahead (`Ahead`): it leaves the path
downwards before the turn, or at it. `FoundInv` says so, and `WireInv` what keeps
it true within a pass: the devices that still answer are those of the path so far, every
stayed one that has been left below is at or before the conflict noted (`PathInv`), and
every one that has been left above has been reported. With one change of the bus the path cannot be
lost before the turn, since a device that agrees with it up to there is still on the bus;
this holds because without a change there are two of them, on both sides of the turn
(`OnceInv`), and one can leave at most. `OnceInv` also says that no device reported is
ahead, so that none is found twice. That two addresses that differ have a first bit in which
they do is `FirstDifference`, from the well-foundedness of `<`.

**Serial mailbox.** `MailInv` says at each moment which part of the line on the
wire is in the buffer: from the marker on everything, or something that does not
begin with the marker (`Marked`, `NoMarker`), with the rest of the line still on
the wire. The mapping's `Box` is what the loop makes of the line in the
buffer (`Obeyed`, which for a pattern reads fixed places); a character received leaves it as it is or, at a line's end, turns it
into the command sent or into nonsense. The second of the two line ends, and
whatever was dropped, complete an empty or headless line.

**Words.** The time is taken apart into fives, points and the hour named (`PartsOfTime`).
No hour's word is another's or one of the other words (`HoursAreTwelve`), so that the
reader finds the hour, the phrase and the points that were lit: `HourRead`,
`PhraseRead`, `DotsRead`. What is read is then off by a multiple of 720 minutes.

**Calendar.** `Number` is the number of a day without the sums of the reference
definition, `Minute` that of a minute. Each step of the code is shown to move
`Minute` by its amount from any day that exists, including across the end of
months, years and the century (`Reached`: one day past it is allowed). Around the
29th of February 2000, which the day steps do not know, days are followed one
by one (`InSpring`). A shift by a zone is up to twelve hour steps and one more for
summer time: `WalkExists` cuts it into thirteen steps, and the steps that
cannot meet that leap day (`Far`) simply add up. The weekday's formula is compared with the
day's number in `WeekdayHolds`.

**Summer time.** The last Sunday of March and of October is a day from 25 to 31;
with `d - s = w + 7 * j` (day, last Sunday, weekday) the code's `DD - wd >= 25`
becomes arithmetic on four small numbers (`SwitchHours`), which names exactly the
hours of `FirstHour` and `AfterMidnight`.

**Timer node.** `OrderInv` says that without an overlap the last marker stands only
behind a whole order (`Underway`: what of an order is in the buffer, what still
to come), so that the limits are the defaults or ordered. `PaceInv` bounds the
torn counter: a reset cut in two leaves one carry behind at most, and a
comparison cut in two is ahead by less than another.

**Radio chain.** `AirInv` says of every datagram and frame under way which entry of the log it
carries and whether whole, with a changed byte, or cut (`Heard`); the decoding of
two copies that agree gives what `Fits` allows. `KeptInv` carries this into the
values waiting to be put and the table. `PutsInv` counts the values put:
temperature first, the others in turn, so that at any moment they differ by one;
`AnswerInv` then says that what an answer shows of one node and kind is as put,
and never more than one frame behind a value it shows beside it (movements are
put with nothing to compare them).

**Boot loader.** `LoaderInv` has two parts. `Following` says that the parser is where
the sender is (`Stage`): its state is that of the field to come, `hex_check` the sum of
the fields heard of the line (`Summed`), and off by less than 256 but not by nothing
once a byte has been changed, so that the checksum decides (`ModuloSum`). It loses
the sender only where `LoadsOrStops` says: stopped for good, or misled by a changed
type. `Buffered` says that of a plain file what has been heard is in the flash up to the
page of the next byte (`At`), and the rest of it in the buffer; and that a page has its
address when a line has begun in it. A full page then always has one, since a line is
no longer than a page, and the end record writes to page 0 when the last page has
none. Two facts need induction: that the sums of a line's bytes are what their recursive
definition says (`SumsAre`), and that the lines of a plain file do not overlap
(`Ordered`). Both are about sets of numbers, for which `SetInduction` follows from the
well-foundedness of `<`.

### Only model-checked

Every safety property and action property of the passing runs is proved. What the runs
alone show is liveness, whose proofs under fairness are beyond the prover:
`LightGoesOut`, `CommandsServed`, `KeysServed`, `NoKeyWaits`, `GetsDark`,
`LinesServed`, `FreeLineArrives`, `Settles`, `AttemptsEnd` and `MeasurementEnds`.

## 5. Not modelled in the modelled parts

* Transfers past the end of a slave's buffer: no master in the repository makes
  them, and what the driver would touch is undefined.
* A device that holds the clock line: the master's unbounded busy waits then
  end in the watchdog; to the other devices that looks like a reset.
* The serial mailbox of `Schlafzimmer/main.c`: its interrupt fills it, nothing
  reads it. The output on the serial line has no effect on anything.
* The date and time the clock keeps; only its RAM is used by the lamp. The
  time-zone offset is read at boot from the cell of a colour's high byte (0x11,
  `i2c-rtc.c:498` and `main.c:134`), which is always zero, and the lamp does not
  use it.
* PWM, timers and the analogue measurement.
* Word clock: the date beside the hour (the adjusting of dates is in `Adjusting`,
  but a write refused behind the hour, which leaves the day as it was, is seen
  only in the hour), the scrolling light of `t`, the brightness made from the
  light sensor, the bit patterns and the timing of the LEDs, the texts that answer
  a command, the debouncing of the buttons. Both buttons `Minute` and the third
  one are read from the same pin, so that one action stands for them.
* The remote control: a server socket that could not be made
  (`WordClockRemoteService.java:237`), on which the accept thread ends the
  application with a null pointer; what the activities show, and what the clock answers. The
  answer's buffer is handed to the interface and read into again, and
  `WCRemote` looks for the end of a line with `indexOf("\r") > 0`, so that a line
  end in first place stops it for good; neither is covered.
* Radio: changed bytes for the node or the kind of a frame. Nothing in the code
  checks them: a changed node files a value under another name, and a changed kind
  gives it another scale or drops it, which no property could exclude. Further the registers of the chip, collisions (a collision is a damaged or a
  lost frame), the arithmetic of the measurements, and what the gateway does
  without a connection, where the code dereferences a null pointer: a loss or a
  restart in the model.
* Boot loader: the bytes of its answers, the timing of the flash, lengths that
  arrive changed. Gaps between addresses are ignored by the code, and an
  extended-address record's bytes land in the page; both are in the model, and
  `LoadsOrStops` speaks of files without them. It speaks of lines no longer than a
  page (16 bytes as the tool chain writes them, 128 in a page): a longer
  one could fill a page whose address it does not give.
* Timer node: bytes 6 and 7 of an order, which the code's 16-bit arithmetic
  loses.

## 6. Findings

* `usiTwiSlave.c:347` says of a position received from the master "Check if
  address within buffer size". The code tests `data <= buffer_size` and so also
  accepts `buffer_size`, which is one past the last index of the buffers
  (`usiTwiSlave.h:67`). The run `usi_position` shows the position being taken
  over. In the abstract `TwiEeprom` the position is therefore allowed, and a
  store there is left out (section 5).
* `wordclock/i2c-rtc.c:324` calls its tables local times of sunrise in hours and
  minutes; `XY2CL` turns minutes into hundredths by `y*6/10`, which is the
  conversion back. `sunrise_table`: on the first of January 7:07 instead of 7:22.
* `WordClockRemoteService.java:61` says that in the state LISTEN the service is
  "now listening for incoming connections". `remote_listens`: the service
  accepts a connection, by which `connected` cancels the accept thread and forgets
  it (line 150); the peer leaves, `connectionLost` (line 212) sets LISTEN and
  starts nothing; all threads have ended and there is no server socket. `onResume`
  starts the service in the state NONE only.
* `wordclock-bootloader/main.c:247` says that the end record writes the rest of
  the data; it is written to the page of the end record's own address, 0, when no
  line has begun in the last page (`loader_tail`).

## 7. Plan

What is modelled is the programs' own logic. What remains:

1. **The clock's answers** to the remote control, with the interface's queue.
2. **The gateway** beyond its last connection, once the behaviour of the network
   stack there is pinned down.
