# Models and proofs of cooboc

cooboc is the software of a small control system.  The program that is built and
started today moves a motorised head rest and shows its distance sensors in a
browser; a flight-control side (IMU, servos, radio) is compiled into the same
program but its set-up is commented out (`chicken/chicken.cpp:65-66`).

```
 browser(s) --socket.io-- web server --web socket-- host program --serial-- firmware --- motor,
 index.html               server/index.js           chicken/*.cpp           hr.ino       switches

 pilot's switch -- SerialServoDriver -- StatusController -- navigators -- AttitudeController -- servos
 radio -- VirtualImu --\                                       |                |
 I2C chips -- Imu ------ ADI ------------ attitude ------------+----------------+
```

On the head-rest side texts travel left to right as commands (`moveUp`, `moveDown`,
`stopMove`, `reset`), measurements right to left.  On the flight side every object that has a
period is a thread of its own and nothing but the I2C port and the serial port has a lock.

## 1. The parts of the system

| Part | State it keeps | Operations | Hard behaviour | Modelled in |
|---|---|---|---|---|
| Firmware `arduino/hr/hr.ino` | `hrMovingStatus`, `hrPosition`, the serial buffer, the carriage itself | drain commands, home, one motor step, report | power cycles, commands during homing, limit switches | `HeadRest`, `HeadRestBench`, `HrLink` |
| `SaModem` `utils/sa_modem.cpp` | lock flag, index into the packet, size, buffer | `demodulateByte`, `getLastPayload`, `resetStatus` | lost, damaged, late bytes; finding the packets again | `SaModem`, `SaModemStream`, `PacketReceiver`, `HrLink` |
| `HrDriver` on `SerialHandler` | `mDist`, `mHrPosition`, `mHasNewData`, the port's mutex | read thread, getters, commands | unlocked fields shared by two threads, blocking read with the lock held | `HrDriver`, `HrHost`, `HrLink` |
| Application loop `setupDeviceForFaurecia` | locals, the text last put out | poll the sensor, poll the mailbox, send commands | every interleaving with the read thread and the network | `Chicken`, `HrHost`, `HrSystem` |
| `WsHandler` | status, table of contexts, send buffer, one-message mailbox | daemon loop, callbacks, `sendText` | two threads drive one connection; refused, broken and closed connections; the end of a connection reported in three unlocked writes | `WsHandler`; the mailbox in `Chicken` |
| Web server `server/index.js` | list of browsers, the host's connection | connect, disconnect, broadcast, forward | any order of comings and goings | `HrServer` |
| `StatusController`, navigators, `AttitudeController` | flight status, `mIsEnabled` of each object, targets | change mode, navigate, control | four threads without a lock; late writes, lost updates | `FlightMode` |
| `PID` | window of errors and its index | `updateError`, `reset` | `reset` of one thread within `updateError` of another | `Pid` |
| `SerialServoDriver`, `ServoController` | pilot's signal, signal to put out, mode | read and write threads, setters, `emitSignal` | signals of eight words copied without a lock | `SerialServo` |
| `Radio`, `VirtualImu`, `ADI` | attitude, its time, the in-service flag | `updateAttitude`, `isInService`, `getAttitude` | check and use in two steps, an unsigned clock difference | `AttitudeSource` |
| `IIntervalThread` | none but time | `intervalThreadStart` | sleeps that end late | `IntervalThread` |
| `IicHandler` | mutex, buffer, remembered address | five transfers | each kernel call may fail; one address for all threads | `IicHandler` |
| `Imu`, BMX055, ADS7828 | raw readings | `readData`, `readSingleChannel` | results ignored, readings of several transfers | `SensorBus` |
| MAVLink's parser | state, message, checksum | `mavlink_parse_char` | any stream of bytes | `Mavlink` |
| Infra-red sketch | `irparams` | interrupt, `decode`, `resume` | an interrupt between any two accesses | `IrReceiver` |
| `GPIOManager`, `GpioHandler` | list of exported pins | export, unexport, `clean` | a list shortened while walked, pins the kernel refuses, pins left by an earlier process | `Gpio` |
| Browser page, `DeviceManager`, `Io`, the rest | | | | section 7 |

What makes each part correct, in a sentence:

- **demodulator, parser**: a message is delivered exactly when the bytes of a whole one were
  received, the buffer is never left, and a fault is got over;
- **firmware**: the position it reports is the height of the carriage once the bottom has been
  seen; a reset is not followed by commands given before it was over; the motor stops;
- **host**: nothing is forgotten for good in either direction, although readings and messages
  overwrite each other and no field has a lock;
- **connection**: there is one at a time, and another one after it;
- **server**: a text reaches the browsers that are connected, a control the host that is;
- **flight mode**: one writer is in charge of the servos, and it is the one the pilot asked for;
- **flight parts, I2C**: values may be mixed or missed only in the ways the absence of locks and
  a failed transfer allow, and these are named.

## 2. The modules

| Module | Stands for |
|---|---|
| `SaModem` | one action per branch of `demodulateByte`. The clock is a Boolean input: "this byte came more than 500 ms after the last". |
| `PacketReceiver` | the abstract specification of a demodulator: the bytes of one candidate packet and the packet grammar, no indices and no choice of its own. |
| `SaModemStream` | `SaModem` on any stream of bytes, with the history `heard`; the refinement mapping to `PacketReceiver`. |
| `HeadRest`, `HeadRestBench` | the firmware and its mechanism, one action per step of `loop()`; the same with any commands and power cycles. |
| `HrLink` | one direction of the line, byte by byte: packets as `loop()` writes them, faults, `SaModem`, the decoding in `readData`. |
| `HrDriver` | the read thread, the port's lock and the unlocked fields; one action per access to a shared word. |
| `Chicken` | the application's loop and the mailbox, on top of `HrDriver`. |
| `HrHost` | `Chicken` between a sensor that numbers its reports and an operator that numbers messages. |
| `HrSystem` | `Chicken` and `HeadRest` on one serial line, with fairness. |
| `HrServer` | the web server's two lists. |
| `WsHandler` | daemon and `sendText`, each with a place of its own and one unlocked access per step: the writes of status, flag and table that report an end, both reads of `mIsGood`, the writing of a text. What `libwebsocket_service` finds is one step, with one of the outcomes the phase of the connection allows. |
| `Web` | `WsHandler` and `HrServer` side by side. |
| `FlightMode` | `StatusController`, the two navigators and the controller, wired as `setupController()` does. |
| `Pid`, `AttitudeSource`, `SerialServo`, `IntervalThread` | see the table above. |
| `FlightParts` | these four side by side. |
| `IicHandler`, `SensorBus` | the port step by step, failures of each kernel call included; the drivers' threads on it. |
| `Mavlink`, `IrReceiver`, `Gpio`, `Peripherals` | see the table above; the three side by side. |
| `*Proofs` | theorems and proofs: `SaModemProofs` of `SaModemStream` and `HrLink`, `HeadRestProofs` of `HeadRestBench`, `HrHostProofs` of `HrHost`, `WebProofs` of `WsHandler`, `HrServer` and `Web`, `SensorBusProofs` of `IicHandler` and `SensorBus`, `FlightModeProofs` of `FlightMode`, `FlightPartsProofs` of `FlightParts` and its four parts, `PeripheralsProofs` of `Peripherals` and its three. |
| `MC*` | instances for TLC where a constant needs a definition or a choice needs a reason. |

How they are cut:

- A *component* module declares the state and one action per step of the code.  `SaModem`,
  `HeadRest`, `HrDriver` and `Chicken` leave the environment open; a *composition*
  (`SaModemStream`, `HeadRestBench`, `HrLink`, `HrHost`, `HrSystem`, `SensorBus`) adds it.
  History variables are marked as such; no action of a component reads one, except to be cut
  off by a named bound.
- Two grains of atomicity.  On the host every access to a word that two threads share is a
  step, because nothing protects them.  In the firmware (one thread, no interrupts of its own)
  a step of `loop()` is an action and bytes may arrive between any two.  In the server an event
  handler is an action, since Node runs them one at a time.
- Bytes are modelled where they matter (`SaModem`, `HrLink`, `Mavlink`), with fewer bits than
  eight; one level up a report or a signal is a record or a number saying which one it is.  The
  justification is `WholePacketPublished` and `DamagedPacketRejected` of `HrLink`, and
  `ReturnsMessages` of `Mavlink`.
- Values of the flight side are reduced to where they come from: an angle to the takeover it
  was taken at, an error of the PID likewise, a byte on the bus to its device and register, a
  servo channel to the call that stored it.
- `FlightParts`, `Peripherals` and `Web` put parts side by side that share no state.  A variable `part`
  chosen at the start says which of them moves; the others rest.  Nothing is lost: no part
  waits for another, so each behaviour of a part is a behaviour of the bundle, and the bundle's
  states are the sum, not the product, of the parts'.  The properties of a part are defined and
  commented in its own module.
- Operators introduced by a comment "Bug:" or "An error the invariants exclude:" are plausible
  mistakes in the operator that follows them.  Nothing uses them; they document what each
  property would notice.

Modelling decisions a reader might question:

- `case (1)` of `demodulateByte` falls through into `case (2)` and so does the model:
  `ReadPayloadSize` is enabled in both.
- The payload buffer is not initialised by the constructor; `ModemInit` allows any contents.
- `HrDriver`'s constructor starts the thread before it zeroes `mDist` (`hr_driver.cpp:26-29`):
  `ConstructDist0`, `ConstructDist1` interleave with the thread.
- `getReceivedMessage` returns a pointer, so each `strcmp` compares the mailbox as it then is;
  a mailbox being overwritten equals no known text (`Torn`).  The loop calls it twice, and each
  call clears the flag.
- `read()` returns any non-empty part of what the kernel holds.
- The web-socket connection of `Chicken` is taken to be up; `WsHandler` is about the rest.
- Opening the serial port resets the board: `PowerCycle`, at any time, in `HeadRestBench`.
- `libwebsocket_service` returns 0 for some failed handshakes, for which nothing but the ignored
  CLIENT_CONNECTION_ERROR is heard: phase "lost" of `WsHandler`.
- A callback runs on the thread whose service call met the event; its first step, the lookup of
  the handler, belongs to the event.  `setWsStatus` then writes the status, reads it again for its
  `switch`, writes `mIsGood` and calls `removeHandler(mWsContext)` with the context of that moment
  (`websocket_handler.cpp:214-220`): four steps, between any two of which the other thread may act.
  Once the two threads can be inside the table at the same time, what `lookupHandler` finds is
  anybody's guess (`Finds`).  `libwebsocket_write` may fail, which the code does not look at (`:249`).
- `GPIOManager` does not look at its streams after writing (`gpio_manager.cpp:54-57`), so `Gpio`'s
  kernel may refuse either call and the list changes all the same; `refused` remembers for which pins.
- Time passes within `updateAttitude` as anywhere else, by at most `Late` steps; `took` measures it.
- `IicHandler` remembers an address before `ioctl` and does not look at its result
  (`iic_handler.cpp:44-50`); `slave` is the address the kernel has, and `Busy` the set of devices
  whose selection can fail.
- `Imu::readData` uses what the drivers return whether it was read or not; a failed `readMag`
  leaves the field of before, which is scaled once more.
- The order in which a compiler copies the channels of a servo signal is not fixed, so
  `SerialServo` takes them in any order.
- The wall clock of `AttitudeSource` wraps, as the 32-bit `millis()` does; the difference is taken modulo.

## 3. The runs

`tlc -config X.cfg M` for each line; the longest takes two and a half minutes.

| Run | Module, configuration | Question |
|---|---|---|
| `modem` | `MCSaModemStream`, `SaModemStream.cfg` | Does the demodulator deliver exactly the packets of its grammar, and stay within its buffer, on every stream? |
| `modem_comment` | `MCSaModemStream`, `SaModemComment.cfg` | Does it require the check byte, as its comment says?  **No**, see section 6. |
| `firmware` | `MCHeadRest`, `HeadRest.cfg` | Is the position true, do resets discard, does the motor come to rest? |
| `link` | `MCHrLink`, `HrLink.cfg` | Are whole packets published and damaged ones not, and does the link recover? |
| `host` | `MCHrHost`, `HrHost.cfg` | What can display and operator count on under every interleaving? |
| `system` | `MCHrSystem`, `HrSystem.cfg` | Is every message dealt with, and does the host learn the position? |
| `web` | `MCWeb`, `Web.cfg` | Who receives texts and controls as browsers and hosts come and go?  Has the host one connection, is its table accounted for, what does the result of `sendText` mean? |
| `sensors` | `MCSensorBus`, `SensorBus.cfg` | Do two threads on one I2C port get their own bytes, whichever transfers fail? |
| `flight_mode` | `FlightMode`, `FlightMode.cfg` | Who steers while the pilot flips the switch? |
| `flight_parts` | `FlightParts`, `FlightParts.cfg` | What can a window, an attitude, a servo signal and a period count on without locks? |
| `peripherals` | `MCPeripherals`, `Peripherals.cfg` | Does the parser return exactly the messages, the receiver whole codes, and does the list of pins stay true? |
| `gpio_comment` | `MCPeripherals`, `GpioComment.cfg` | Does `clean()` unexport all pins, as its comment says?  **No**, see section 6. |

What they show:

- **modem.** `DeliversWhatWasHeard` is the abstract specification `PacketReceiver` under a
  refinement mapping.  It leaves the demodulator no way to pass over a packet: the call (`arrived`:
  the byte, and whether it is late) and the bytes held decide whether the candidate is extended,
  delivered, discarded or, when a late byte meets one that is open, abandoned.  `PayloadFits` matters because the end of a payload is tested by
  equality: overshot once, the index would run on.
- **firmware.** Before homing the position is relative to where power came on (and may be
  negative); from the first sight of the bottom switch it is the height.
- **link.** A packet that begins while the demodulator is between packets and arrives whole is
  published, with none of the bytes of an earlier one; with one payload byte or the checksum
  changed it is not.  After the last fault the link recovers *once the readings hold no byte
  'S'*.  This condition is needed: a constant reading whose bytes look like a packet's
  beginning (`d2 = 0x0353`) can keep the demodulator out of step for as long as it is sent.
- **host.** The display never goes back in time, though its three words may come from three
  reports: the first distance is at most one report ahead of the second, and the position is
  ahead of neither, but a word read early may be any number of reports old.  It ends with the
  newest reading; the operator's last message is the last one obeyed, and none is obeyed more than
  three times.  Three times is possible because the loop compares the live buffer: a message
  can be met while an earlier one is being compared, by the flag of that one, and by its own.
  `BoundedTear` and `NewestReadingShown` except the constructor's wipe, which the code permits.
- **system.** A message raised in the mailbox is always taken out again, though the command in
  hand may wait for the lock while the firmware homes.
- **web**, the server.  Broadcasts always end.  They reach exactly the connected browsers *until one with
  a neighbour on both sides has left*: the disconnect handler then writes `this.previousClient`,
  where `this` is the socket (`index.js:70,75`), and connected browsers can be cut off.  Controls
  go to an open connection only, and always to the connected host *if it never reconnects before
  its old connection is closed* (`index.js:147`).
- **web**, the host.  There is never more than one connection (`OneConnection`), wherever the other
  thread stands between the writes that report an end.  The rest holds *until `connectServer` begins
  during a `sendText`*: for that the daemon's look at the status, once a second, has to fall between
  the end of the connection and the return of a `sendText` that was under way or begun by a stale flag.
  Until then the table holds exactly the contexts whose end was not reported (`TableAccounts`), so
  attempts refused at once fill its 1024 entries; and every end the handler is told of is followed by
  another attempt (`Reconnects`).  From then on `removeHandler(mWsContext)` can take out the *new*
  context instead of the dead one (`websocket_handler.cpp:214-220`): its callbacks find no handler and
  the status says "connecting" for good, as it does after a handshake that fails with only
  CLIENT_CONNECTION_ERROR (`:57`).
  `mIsGood` implies an open connection *except while a thread is reporting its end*; on a socket that
  can be written (`SocketBlocks = FALSE`) a frame is one text until a `sendText` begins while the
  daemon is in `doSendText`, otherwise it can mix two (`Consistent`).
  A `sendText` that found `mIsGood` true returns true only if its whole text was given to
  `libwebsocket_write`, is being given to it, or the daemon is reporting the connection's end
  (`TrueMeansOffered`).  True does not mean sent: a failed write is not noticed (`:249`), and a
  `sendText` that found the flag false at `:237` and true at `:244` returns true and has done nothing.
- **sensors.** A call that reports success moved the bytes of its own device and register *unless
  the last selection failed* (`GoodCallMovedItsRegister`).  `ReadingsSound` follows the bytes to the
  drivers: an axis has its own two bytes in its own order or what a failed call left undefined,
  never a byte another thread asked for; what is reported good is whole.
- **flight_mode.** At most one writer is in charge, a released one writes at most once more, the
  attitude held is that of the takeover *unless the takeover fell between the read and the write of
  a `navigate()`*, and a switch left alone has its way.
- **flight_parts.** `reset()` never drives the index out of the window, and leaves at most one error
  of the flight before.  No attitude is handed out later than the timeout and the time of the call
  after its update ended.  It is older than that by what the update took: the stamp is read after the
  attitude was written (`virtual_imu.cpp:26-27`), and a radio thread held up in between stamps an old
  attitude as new, for which the code has no limit;
  a fresh one is out of service only when its update fell within an `isInService()`; when the radio
  falls silent the board's IMU takes over.  A copy of the pilot's signal can mix messages but is not
  older than the last one published whole; a frame of a call that met no other is that call's, and
  the last call in manual mode that met no other has the last frame.  With a `work()` of at most
  3.3 ms in an interval of 5 ms and sleeps late by at most 0.7 ms no round is missed; one tenth more
  of either and one is.
- **peripherals.** The parser returns 1 exactly on the last byte of a message received in one piece,
  with its payload.  `heard` splits the stream into messages by the format alone, without looking at
  the parser; a message whose STX came in place of a checksum byte of the one before is not missed.  A recording of the infra-red receiver begins after a gap, is decoded whole and
  in the length `decode()` copied beforehand, unless it began within the two steps of `resume()`.
  List and kernel agree about the pins but for those whose last call the kernel refused, which goes
  unnoticed; `clean()` leaves no more than half of the list.

### Bounds

| Constant | Value | Why it is enough |
|---|---|---|
| `ByteBits` | 2 (`modem`), 3 (`link`) | With 2 bits the stream run is exhaustive over *all* streams, with payloads of 0 to 3 bytes; the theorems hold for every width. With 3 bits there is room for 'S', 'A', a length, CR and LF beside data. |
| `BufferSize` | 3, 7 | the largest size a byte can announce, as 1024 exceeds 255 |
| `PayloadLength` | 3 | a first, an inner and a last byte; 6 in the code |
| `Reading` | three | one without an 'S', one that begins and ends with it, one that has it for a checksum |
| `MaxFaults` | 2 | two faults in one packet, or a fault in the packet that recovers from the first |
| `Travel` | 2, 1 | a limit at either end and, with 2, a height between them |
| `RxSize` | 2 | a command behind another, and a third one lost |
| `MaxCommands`, `MaxPowerCycles` | 4, 1 | a move, a reset and two commands queued behind it; a restart at any point |
| `TtySize`, `MaxReports` | 2, 4 (`host`) | two reports in one read, a third one lost, and others behind them |
| `MaxMessages` | 4 (`host`), 2 (`system`) | three messages are needed for one to be obeyed three times, so a fourth shows that this is the most |
| `FewOfOne` (`host`, a CONSTRAINT) | | many reports with one message, or many messages with one report: the two sides share only the port's lock |
| `MaxClients`, `MaxConnections` | 5, 3 | a departure from the middle, a later one behind it, and a newcomer; two overlapping connections and a third |
| `MaxContexts` | 4 | an entry left behind with contexts before and after it; texts are two by turns |
| `SilentFailure`, `SocketBlocks` | TRUE, FALSE | handshakes may fail unheard; see **web** for a socket that blocks |
| `Client`, `Device`, `Register` | 2, 4, 2 | the threads and devices there are; the two bytes of an axis |
| `Busy` | the converter | a failed selection between any two calls of the other thread, which then reads another device; the theorems have any set |
| `MaxShifts` | 2 | a field scaled again is told from one that was not |
| `mIntegralWindowSize` | 4 | a first, inner and last cell; the theorems hold for every length |
| `Timeout`, `ClockWrap`, `Slack`, `Late`, `Silence` | 2, 8, 1, 2, 2 | a look at the clock before, at and after the timeout, an update held up for as long as the timeout, and a clock that goes round between a message and the look at it; the theorem has any values with the sum of the others below `ClockWrap` |
| `Channel`, `Writer` | 2, 2 | one channel stored and another not yet; the old and the new writer besides the write thread |
| `MaxMessages`, `MaxWrites` (`flight_parts`) | 4, 3 | a call overtaken by one of the other thread, and a third that comes last and alone |
| `Interval`, `WorkTime`, `Delay` | 5, 33, 7 | tenths of a millisecond; the largest values for which no round is missed |
| `Byte` of `Mavlink` | 0 .. 2 | payloads of 0 to 2 bytes, and checksums of two bytes that any single change of a byte changes; every stream |
| `RAWBUF`, `GAP_TICKS`, `TimerWrap` | 8, 3, 10 | codes that fit and codes that overflow, silences longer than the timer |
| `Key`, `MaxPins` | 4, 5 | two keys that are not in the table and so share pin 0; a pin listed twice |

`FlightMode` has no bound: its states are finite as they are.

### Deadlock

It is checked in all runs but two.  In `host` the sensor stops after `MaxReports`; the reader is
then blocked in `read()` with the port's lock, as in the code, and a command waits for it.  In
`web` the server has nothing to do once everybody has come and gone.

### Fairness

- `HeadRestBench`: `loop()` is called for ever (weak fairness of its steps).  Commands and power
  cycles are not obliged to happen.
- `HrLink`: the firmware keeps sending (weak fairness of the next step); nothing is assumed about
  which step, and the number of faults is bounded.
- `HrSystem`: both threads, the network callback once begun, and the board keep running (weak
  fairness).  The lock is granted with strong fairness: the reader frees it after every read and
  sleeps 10 ms before it asks again (`hr_driver.cpp:13`), and a thread waiting in
  `pthread_mutex_lock` gets it within that time.  The operator is not obliged to send anything.
- `Web`: the daemon's loop and `sendText` once called go on (weak fairness of each thread);
  of the outcomes of a service call, which are the server's, none is obliged to happen, and nobody
  need use the server.
- `FlightMode`: each of the four loops comes round (weak fairness of each); the switch is free.
- `FlightParts`: time passes, an update once begun is finished, every reader keeps asking; messages
  need not come.

## 4. The proofs

All constants are arbitrary, subject to the assumptions in the modules: a byte has any number of
bits, 'S' and 'A' are different bytes, the buffer is at least as large as a byte can count
(`BufferAssumption`), a packet carries any readings of one length, CR and LF are not 'S'
(`LinkAssumption`), the travel fits in 15 bits, the window has at least one cell, MAVLink's checksum
is any function of a word and a byte, the threads, devices and registers of the I2C port are any
sets, of which the drivers on the bus are two threads (`BusAssumption`).  Every bound of the runs
(reports, messages, faults, contexts, browsers, connections, writes) is any natural number.

| Module | Theorem | Says |
|---|---|---|
| `SaModemProofs` | `FieldsMatchBytesHolds` | `Spec => [](TypeOK /\ FieldsMatchBytes)` |
| | `PayloadFitsHolds` | `Spec => []PayloadFits` |
| | `DeliversWhatWasHeardHolds` | the demodulator implements `PacketReceiver`: it delivers every whole packet and nothing else |
| | `LinkInvHolds` | `LinkInv`, the invariant behind the next two |
| | `WholePacketsGetThrough`, `DamageIsNoticed` | `WholePacketPublished`, `DamagedPacketRejected` |
| `HeadRestProofs` | `TypeCorrect`, `PositionTrue`, `PositionBounded`, `HomingDiscards` | `TypeOK`, `PositionTrueOnceHomed`, `PositionNeverWraps`, `HomingDiscardsCommands` |
| `HrHostProofs` | `SensorInvHolds` | `SensorInv`, the invariant behind the next three |
| | `TearIsBounded`, `NewestIsShown` | `BoundedTear`, `NewestReadingShown` |
| | `DisplayNeverGoesBack` | `ShownNeverGoesBack`, an action property |
| | `OperatorInvHolds` | `OperatorInv`, the invariant behind the next two |
| | `LastMessageIsObeyed`, `NeverMoreThanThrice` | `LastMessageObeyed`, `ObeyedAtMostThrice` |
| `WebProofs` | `NeverTwoConnections` | `OneConnection`, for any number of contexts and wherever the threads stand |
| | `TableIsSound` | `TableAccounts` |
| | `AlwaysConsistent`, `TrueIsOffered` | `Consistent` and the action property `TrueMeansOffered`, if `~SocketBlocks` |
| | `ListIsAlwaysSound`, `TextsReachTheConnected` | `ListIsSound`, `EmitsToConnected` |
| | `ControlsAlwaysReachHost` | `ControlsReachHost` |
| | `EachEndAlone` | a behaviour of `Web` is one of `WsHandler` (without its fairness) and one of `HrServer` |
| `SensorBusProofs` | `TypeCorrect`, `AddressIsTrue`, `CallsAreExact` | `TypeOK`, `CachedAddressTrue`, `GoodCallMovedItsRegister` of the port under any threads |
| | `DriversCallsAreExact`, `ReadingsAreSound` | `GoodCallMovedItsRegister`, `ReadingsSound` of the drivers on the bus |
| `FlightModeProofs` | `TypeCorrect`, `NeverTwoInCharge`, `ModeEnablesItsOwn`, `AtMostOneLateWrite`, `HoldsTakeoverAttitude` | `TypeOK`, `OneInCharge`, `EnabledByMode`, `OneLateWrite`, `TargetFromTakeover` |
| `FlightPartsProofs` | `TypeCorrect`, `NeverOutside`, `TakeoverClears` | `TypeOK`, `StoresInside`, `WindowIsClear` of `Pid` |
| | `PidIsAPart` | a behaviour of `FlightParts` is one of `Pid`, so the three above hold in it |
| | `AttitudeIsSound`, `ServosAreSound` | `AttitudeSound`, `ServoSound` |
| | `NoRoundIsMissed` | `EveryRound`, if `SleepsInTime` |
| `PeripheralsProofs` | `TypeCorrect`, `NeverOverruns`, `MessagesAreReturned` | `TypeOK`, `PayloadFits`, `ReturnsMessages` of `Mavlink` |
| | `ParserIsAPart` | a behaviour of `Peripherals` is one of `Mavlink` |
| | `ReceiverIsSound`, `PinsAreSound` | `ReceiverSound`, `GpioSound` |
| | `CleanSkips` | what `clean()` leaves of a list without a pin twice: every second entry |

So every safety invariant and every action property that a run checks is proved, and the run is
the small instance.  Type invariants and `EnabledByMode`, which are proved here for all constants,
are not checked again by the runs of their modules.

Three theorems have a hypothesis.  `SleepsInTime` says that `work()`, its 1 ms sleep and the delay
of a wake-up fit one interval and that the delay is at most 0.7 ms; without it the code does miss
rounds.  The values of the run satisfy it with equality.  `~SocketBlocks` says that a text can be
written as soon as it is asked for; with a socket that blocks a frame can mix two texts.

**Demodulator.** `PayloadFits` is not inductive: nothing in it says that the index is below the
size when the payload begins.  The invariant `IInv == TypeOK /\ FieldsMatchBytes` ties each
value of `packetIndex` to the bytes read so far: after 'S' one byte was heard, while the payload
is read the header and `payloadIndex` bytes, and the buffer holds them in place.  There is one
lemma per branch of `demodulateByte`.  The history `arrived` records the call, so that a candidate is
abandoned exactly when a late byte meets an open one.  The refinement then follows step by step: reading a byte
extends the candidate, the byte behind the payload completes or discards it, and by the
invariant `getLastPayload` copies exactly the payload the grammar sees (`PayloadHeard`).

**Link.** `LinkInv` says that in a packet which the modem met unlocked the modem's part and index
are the firmware's place in it (`InStep`), as long as nothing worse has happened than one changed
byte of payload or checksum, and that the buffer is the packet but for that byte (`CopiedBut`).
Then the checksum decides.  Two lemmas about it carry the theorems: it is a byte (`CrcFits`), and
one changed byte changes it (`CrcDetects`).  `Crc` is the exclusive or as the parity of each bit,
put together again by `LowerBits`; numbers with different bits differ (`NumbersTell`), two bytes
that differ have a bit that does (`BitsTell`), and one more byte with a bit changes its parity
(`ParityChanges`).

**Recursive functions.** The powers of two, the bits of a byte, MAVLink's checksum, `std::remove`
and the walk over the browsers are recursive functions.  `RecursionExists` derives from the
well-foundedness of the naturals (`LeastElement`, `UpTo`) that a function with such an equation
exists; from then on the equation is all that is used.

**Firmware.** `hrPosition = height` is not inductive before the bottom is seen, so the invariant
says that the *offset* between the two lies in `-Travel .. 0`, never changes while the motor moves,
and is 0 once homed.  For `HomingDiscardsCommands` it adds that the buffer holds commands from
homing only while the firmware is homing or discarding.

**Host, sensor side.** The three properties speak of the text last put out; none is inductive.
`SensorInv` follows a reading on its way there.  `QueueInv`: the reports in the kernel and in the read buffer
carry consecutive numbers behind the last one published.  `FieldInv`: each word is the last
report's or the next one's, depending on where the reader is, or zero if the constructor wiped
it.  `ShownInv` and `TearInv`: what the main thread has taken is not ahead of the fields.
`FlagInv`: while the flag is down and the reader is between reports, the fields have been shown
or the main thread has yet to read them.  One lemma for each group of steps of either thread.

**Host, operator side.** `LastMessageObeyed` speaks of a quiet host only.  `OwedInv` says for every
place of callback and main loop that the newest message, if it names a command, was the last one
sent or is still owed: the callback has yet to finish, a pass over the known texts is due because
of a flag, the pass under way has not come to its text, or its command is being sent.
`ChanceInv` counts those chances: what a message has been obeyed and what it still can be add up to
three at most, and a message that was overwritten keeps at most the command in hand.

**Connection.** The daemon connects anew when it sees "disconnect", so `OneConnection` needs that
the status is "disconnect" only while no connection is alive (`StatusOfAlive`), except between
`libwebsocket_client_connect` and the assignment behind it; and that a thread about to write
"disconnect" speaks of a dead connection and is alone in it (`Dropping`).  This much holds however
the threads cross.  Until `connectServer` begins during a `sendText`, `CallInv` says for each pair of
places which of them go together: a `sendText` is under way only on a connection that is open or was
closed under it, and one thread at most is between an end and its removal; with that the flag agrees
(`GoodAgrees`).  `TableInv`: the table is increasing and holds the contexts not reported dead and the
one about to be removed, so `removeHandler` finds its context.  `Transfer`: which halves of the send
buffer hold which text at each place of `sendText`, and that a writable callback is outstanding only
between the request and the service call.  Of the server nothing is assumed.

**Web server.** `LinksKeepOrder` (links only lead forward, to browsers that have come) is kept by
every handler, so walks end.  Until an inner browser leaves, `Chained` says that the links are
exactly those between neighbours among the connected, and the first is the least; by induction from
the last browser down, a walk then meets the connected ones from there on, each once.

**I2C port and bus.** The mutex gives one holder (`OneHolder`).  `Progress` says what the holder has
at each place of its call: the address selected, the register pointer of the device the kernel has,
the two cells of the buffer.  Nobody else touches them, so the value copied is the one asked for,
and it is of the right device if the last selection worked (`CachedAddressTrue`).  On the bus
`Hearing` adds what each thread has heard so far of its program: the answers due, or undefined
where a call failed; the readings are put together from them.

**Flight mode.** `EnabledByPlace` says for every place of `StatusController` who is enabled;
`LateByPlace` that a writer which has used its late write is back at its check; `AnglesByPlace`
which of the angles belong to the takeover at each place of it and of `navigate()`.

**PID.** `IndexByPlace`: the index may equal the length of the window only between the statements
that advance and wrap it, whatever `reset()` does in between.  `OldByPlace`: the errors of the flight
before are among the cells not yet cleared, or one that the `work()` under way may still store.

**Attitude, servos, loop.** `SourceInv`: clock, update time and age agree modulo the clock's wrap
(the assumption that timeout, slack, late update and silence together are shorter than a wrap is what
makes the difference meaningful).  The stamp is not the age: `Stamped` says that it lies between the
beginning of the update and its end, and what a reader holds is no older than its lag says (`InTime`).  `PilotInv`: each
channel shows the message published or the one being fetched, according to what is still to fetch.
`ServosInv`: a call that was alone so far has written only its own number, and if the last call was
alone and is over, it is what was sent.  `LoopInv`: a round began less than a millisecond behind a
multiple of the interval, from which the time and what is left of work or sleep follow.

**Parser, receiver, pins.** `CountByState`: the index is 0 from the length to the message number,
below the length within the payload, equal to it behind; so the equality that ends the payload is
not overshot.  `MessageInv`: the fields are those of the bytes heard since STX, and the running
checksum is the sum of them (`SumByState`); from these `HeardIs` concludes that the parser rejects a
checksum byte exactly when the format does, so that parser and history begin their messages together.  `ReceiverInv`: timer and silence agree (`TimerTells`),
marks and spaces alternate behind the gap (`Recorded`), and `loop()` works on a recording that has
stopped (`ByPlace`).  `PinsInv`: where `clean()` is, the list is the even entries passed and the
rest not reached (`CleanedSoFar`), for a list that names no pin twice; for any list, index and length
add up to no more than one beyond the length at the beginning, so at most half is left.

**Left to TLC:** liveness (`ComesToRest`, `Resynchronises`, `MessageAnswered`, `HostLearnsPosition`,
`Reconnects`, `SwitchObeyed`, `FallsBack`), which needs fairness and ENABLED; and `HrSystem`, the
composition of host and firmware, whose properties are all of that kind.

## 5. Hazards

PROJECT.json lists them at the line where they bite, with the properties that would notice.  One
has none and a note instead: read threads that are started before their parser's channel is
assigned.

## 6. Disagreements between code and comments

`demodulateByte` lists the packet as "1. S 2. A 3. payloadSize 4. payload 5 crc"
(`sa_modem.cpp:37-45`).  In `case (1)` the `return` is inside the `if`, so any byte other than
'A' falls through and is taken as the size.  `CheckByteRequired` states the comment and the run
`modem_comment` refutes it in three bytes.  `PacketReceiver` states what the code accepts.

`GPIOManager::clean` has the comment "Unexport all of already exported pins"
(`gpio_manager.cpp:265-267`).  Its loop (`:269`) goes on by one index while `unexportPin` erases the
entry at it, so the entry behind moves up and is skipped.  `CleanUnexportsAll` states the comment and
the run `gpio_comment` refutes it with two pins.  How far it is off is proved for every list without
a pin twice: exactly every second entry stays (`CleanSkips`).

Met while modelling, without a run of their own:

- `iic_handler.cpp:44-45` marks as to be done that the device's address be sent again after a failed
  transfer; it is not, which matters when the selection itself failed (`selected`).
- `IRremote.cpp:309` says that the first entry of a recording is the space before it; it is missing
  when the recording begins between the two steps of `resume()` (`crossed` in `IrReceiver`).

## 7. Not modelled

- **Browser page**: stateless; its four texts are the messages of `HrHost` and `HrSystem`.
- **`DeviceManager`, `Io`**: tables one thread fills at start-up and looks up; nothing interleaves
  and nothing fails.
- **Opening and configuring ports, destructors, ends of threads**: the program never destroys a
  driver, a controller, a context or the pin manager.  (`~IIntervalThread` would join a thread that
  was never started, and a `sendText` can use an `mWsi` that has been freed meanwhile.)
- **Control law, fusion of the attitude, filters, PID sums**: floating-point arithmetic of one thread.
  So is an attitude's being three numbers: in `AttitudeSource` it is one.
- **`PID` tuning console, beeper, `Radio::print`, direction and value of a pin**: pure I/O.
- **Wall clock set back** (`update-time.sh`): clocks of the models go forward.
- **Inside libwebsockets**: what two service calls at once do to its structures.  Its outcomes are
  modelled as far as the handler can tell them apart.
- **Infra-red decoders and senders, `ir.ino`, `stepper_motor.ino`**: straight-line arithmetic, a
  printer of pulses, an earlier form of `hr.ino`.
- **Vendored code**: libconfig reads one setting at start-up (`chicken.cpp:62-64`); MAVLink's message
  headers are generated, some 45,000 lines that pack, unpack and test one message each.  They are
  three fifths of the repository's lines, and with libconfig and libwebsockets most of it; they hold
  none of the program's own control and keep the share of lines covered by a model small.

What could come next: a last-value register refined by mailbox and sensor fields, with a proof; the
safety part of `HrSystem` (what the firmware receives is what the host sent, in order) as an
invariant of the composition.
