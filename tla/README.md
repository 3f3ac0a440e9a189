# The KT002 bench in TLA+

The repository drives a power-supply test bench from Python: a ChargerLAB KT002
USB-PD meter that runs a Lua program of ours, a Yokogawa WT310 power meter and a
Chroma 6312 electronic load. The part with the most logic, and the one the
repository still works on, is the path of one command: *ask the charger under
test for 20 V and say truthfully whether it did.* The specifications here follow
that path from the USB bus to the charger and back.

Paths are relative to the repository's root. Actions and operators
keep the names of the code they model wherever TLA+ allows it.

## 1. The system

```
 caller ── KT002Controller ── protocol ── KT002USBTransport ── libusb/USB
            controller.py     protocol.py   transport.py           |
            parser.py                                     Shizuku firmware (KT002)
                                                                   |
                                                            onBoot.lua ── PD sink ── charger
 DOEEngine ── WT310 (/dev/usbtmc0), Chroma6312 (serial line)
```

| component | state it keeps | operations | what makes it correct |
|---|---|---|---|
| **Lua controller** `kt002_lua/onBoot.lua` | `command_busy`, `pd_initialized`, `source_caps` | `startup`, `usb_command_received` (callback), `process_command`, `initialize_pd`, `request_fixed_voltage` | each command taken gets one conclusive reply, true of the charger; it is never left busy |
| **Controller** `drivers/kt002/controller.py` | `_lua_miso_registered`, `_rx_buffer`, the lock | `connect`, `close`, `ping`, `register_lua_miso`, `send_command`, `send_command_wait_result`, and the typed calls built on them | an answer is the answer to the command of this call; a call ends |
| **Result parser** `drivers/kt002/parser.py` | none | `parse_lua_result`, `raise_for_lua_error` | an error line always raises, a result fits what was asked |
| **Frame codec** `drivers/kt002/protocol.py` | the buffer it is handed | `pack_*`, `extract_frames`, `decode_reply` | every complete frame once, in order, however the reads cut the stream |
| **USB transport** `drivers/kt002/transport.py` | `device`, `claimed`, `detached_kernel_driver` | `connect`, `close`, `drain_input`, `read`, `write` | what is claimed is known, and is given back |
| **Models, exceptions** `drivers/kt002/models.py`, `exceptions.py` | none (frozen records) | | |
| **Test engine** `core/doe_engine.py` | the two instruments, the target voltage | `connect`, `disconnect`, `check_input_voltage`, `run_single_point` | the data of a point are of this point; a point that does not raise leaves the load off |
| **Power meter** `drivers/wt310.py` | `fd` | `connect`, `disconnect`, `query`, the readings | an answer is read by the query that asked; nobody else's file is touched |
| **Electronic load** `drivers/chroma6312.py` (`chroma6312_v1.py` is the same text) | `ser` | commands, `query`, `get_load_status`, the readings | as for the meter |
| **Earlier KT002 drivers** `drivers/kt002_legacy_verified.py`, `kt002_monolithic.py` | `_device`, `_claimed`, an `RLock` | `connect`, `close`, `ping`, `send_command` | threads do not take the device, or each other's answer, from one another |
| **Load placeholders, factory** `drivers/chroma6312_v0.py`, `prodigit3311f.py`, `load_factory.py` | none | print a line per call | |
| **Bench scripts** `tests/` | none | run by hand against the hardware | read here as statements about the driver |

How the parts meet:

* A method of the controller takes the lock, drains the bulk IN endpoint, writes
  one packet, and reads frames until it has what it waits for or a deadline
  passes. A method that waits for text registers text reports first, if nobody has.
* The firmware acknowledges the packet by itself (protocol ACK), hands a
  `Lua_MOSI` text to the Lua program by calling `tcp.onReceived`, and turns what
  the program prints into text reports, once they are registered. **ACK and
  text come from two sides of the device, in either order, and neither carries
  anything that ties it to a request.**
* The Lua program is one callback with delays in it. While it waits, chargers
  are pulled out and plugged in and further texts arrive.
* The test engine calls meter and load one after the other and catches nothing:
  an instrument that raises ends the call where it stands. The meter is a raw
  file descriptor that is kept after it is closed; the load answers a query
  when it likes, and the driver reads what has come 0.3 s later.

What is hard: answers of one call arriving in the next; lines cut over two
reports; a registration inside a call, failing half way; frames cut over reads,
false start bytes; a device that goes away between any two libusb calls; a charger that goes away
between any two steps of the script; a cached PDO list that outlives its
charger; a text arriving while a command is in progress; an instrument call that
fails between switching the load on and off; an answer of a query that failed,
still there for the next; a descriptor used after its number was given to
another file; a close during the call of another thread. `PROJECT.json` lists these hazards
with the lines where they bite and the properties that watch them.

## 2. Modules

| module | models | role |
|---|---|---|
| `LuaLines` | commands and lines both sides know (`onBoot.lua`, patterns of `parser.py`) | shared vocabulary |
| `LuaService` | what the Lua program promises a sender | **abstract specification** |
| `LuaController` | `onBoot.lua`, the charger, the sink firmware, the callback queue | implements `LuaService` |
| `KT002Service` | what a `KT002Controller` promises its user | **abstract specification** |
| `KT002Controller` | `controller.py`, `parser.py`, the IN queue, the firmware | implements `KT002Service`; uses the replies of `LuaService` as its device |
| `USBTransport` | `transport.py`, libusb, plugging | |
| `FrameService` | what a call may take for granted of the frames it is given | **abstract specification** |
| `ShizukuFrames` | `protocol.py` and the receive buffer, byte by byte | implements `FrameService` |
| `KT002System` | driver, firmware and script together | composes `KT002Controller` and `LuaController` |
| `EarlierController` | the two earlier drivers, threads, the lock | |
| `DOEEngine` | `doe_engine.py`, `wt310.py`, `chroma6312.py`, the file table of the process | |
| `MC*` | chargers, commands, streams for the runs | |
| `*_proofs` | the theorems and their proofs; `KT002Service_proofs` has those of the refinement | |

### LuaController

One action per stretch of the script between two calls that leave it. The
variables are the script's own (`command_busy`, `pd_initialized`,
`source_caps`), the place of the running callback (`pc`), the charger
(`source`, `capsReceived`, `contract`), the channel (`tcp`, `callbacks`, `out`,
`awaiting`) and history. The path of a `PD_nV` command is

    process -> open -> attached -> wait -> wait again -> read -> search -> settle -> show

where `initialize_pd` is `OpenFastCharge` .. `ReadCapabilities` (skipped when
`pd_initialized`), `request_fixed_voltage` is `NotFound` / `RequestGranted` /
`RequestFailed` / `RequestRaises` / `MeasureAndReply`, and a raise goes through
`raised` and `report`, the two lines printed after `pcall`. A script whose screen does not open says
so once and ends (`Startup`). `Attach`, `Detach`,
`AdvertiseCapabilities`, `Send` and `ReadLine` may happen anywhere in between.
Two questions the repository leaves open are parameters: `Reentrant`, whether the
firmware calls `onReceived` while the script is inside a delay, and `Pipelined`,
whether the sender writes before it has its answer. External: the sink and the
source; `Offered` says when a request is accepted for consideration (the source
in place has that PDO at that index), and the firmware may still refuse it.

Left out: `tcp.write` (nobody in the repository reads it), the screen, the
values of current and power.

### KT002Controller

One action per USB transfer. `pc` says where the call is: `register drain`,
`register write`, `register wait` (the registration, as a call of its own or
inside another), then `drain`, `write`, `wait`. `StartCall` chooses a method and
a command. The methods are told apart by what they wait for: a ping reply, the
protocol ACK, a line, a line of a given type. `ack_received`, `accepted_line`
and `pending_text` are the locals of `_send_command_wait_line`; `Completed`,
`raises` and `accepts` are what `parser.py` makes of a text. A frame carries, in
`of`, the calls it is about; the code cannot see this field, and properties may.

The device (external) keeps what it `owes`, the commands the Lua program has
not taken (`todo`), and the lines it has still to print (`speech`), one of the
`Replies` of `LuaService` with what the script prints before it. It answers
when it pleases or never, may cut a line in two (`Splits`), may run two queued
texts together, and sends reports nobody asked for (`MaxReports`), damaged ones too.

`Replug` is a KT002 pulled out and plugged in again, or reset: it starts anew, without
text reports, and the driver's `handle` is dead until `close` and another `connect`. All that
was on the wire is gone.

The lock makes calls exclusive, so it is not a variable: one call is in
progress at a time. A read carries one frame here, but for a damaged one: it takes with it the sound frames
before it in its chunk, however many (`ReadDamaged`). The bytes are the subject of
`ShizukuFrames`. Left out are argument checks before the lock, and calls made directly
on `controller.transport`, past lock and buffer.

`KT002Service` is this with the device taken away: a call begins, is prepared,
asks once, and ends. `Answer` is all that a frame or a line can make of it, `Fail` all else.
`Phase` maps `pc` to its phases and `_lua_miso_registered` to `registered`. It is a
safety specification: that a call ends is `CallsEnd`, and the device owes nothing.

### USBTransport

One action per call into libusb, and after each one the outcome with and
without a raise: `FindDevice`, `DetachKernelDriver`, `ClaimInterface` (with the
two `clear_halt`, which change nothing here), `DrainPacket`/`DrainEnds`, and the three
stages of `close`. `Plug` numbers the devices, so that the handle of a device
that is gone is told from that of the one plugged in later. A call on a device
that is gone raises; any other call may raise as well.

### ShizukuFrames

The buffer only grows at its end and shrinks at its front, so it is the interval
`first..received` of the bytes the device sends; `drained` is where the call
began. Each way through the loop of `extract_frames` is an action
(`NoCandidate`, `AwaitRest`, `SkipCandidate`, `TakeFrame`, `RaiseDamaged`).
`Yield` gives the frames to the call one by one, and any of them may be its
last: the generator is then dropped with the frames it has not yielded.
`pack_frame`, `pack_request` and `xor8` are operators; the streams of the runs are
built with them, so encoder and decoder are checked against each other.
`FrameService` has no bytes, only frames with a place. A call loses the
frames from before its drain and is given the others one by one (`Give`), always
the first that is still owed, until it ends. In the mapping `sent` is what the encoder
built, `taken` the first `given` of the frames cut out, and a call is `calling` while `pc` is not `idle`.

`LuaMosiPayload` lays out a Lua text and `LuaMosiAccepts` is the length check of
`pack_lua_mosi`, made before `pack_frame` makes its own.

### KT002System

`KT002System` extends `LuaController` and instantiates `KT002Controller` with the
unread texts and the command at work for its device's `job`; `speech`, `cut`
and `reports` of that device are constant. So each part meets the other
in place of what it assumes of it. `DriverRuns` is a
step of the controller (its device is never unplugged here, `MaxReplugs` is 0); `FirmwareAnswers` sends protocol ACKs; `DeliverText`
hands a Lua_MOSI text to the script (its `Send`); `Takes`, `Works` and
`Finishes` are the script's steps, and `ReportLine` turns a printed line into a
text report if reports are switched on, and drops it otherwise. `unread` and
`working` say which calls a line is about, as `of` does in `KT002Controller`:
history, unseen by both programs. A line that is printed leaves before
anything else happens (`Quiet`): this serialises printing against the other
side and keeps order and loss, as a line lies in the IN queue for as long as the
driver likes. `parse_lua_result` is the class the parser makes of a line.

Not in the composition, and covered by `KT002Controller` alone: cut lines,
damaged and unasked reports, a KT002 that is unplugged.

### EarlierController

The two earlier drivers have the same calls and waits, `kt002_monolithic.py` on
top of `transport.py` and `protocol.py`, `kt002_legacy_verified.py` with its own
copies. Here threads matter: `Call` makes a thread want the lock, `Enter` takes
it, and then one action per USB transfer (`DrainFrame`, `Drained`, `Write`,
`Read`, `GiveUp`) up to `Ends`, which releases the lock on every way out.
`Read` takes some frames of the queue in one chunk and looks at the first
(`TakeFirst`): the right header is the answer, another header raises; a frame
that cannot be decoded raises for the whole chunk. The rest of the chunk is
lost, as in the code. A write that raises may have reached the device.
The device (external) owes an ACK, and a text if somebody switched reports on.

### DOEEngine

`Steps` is the body of each method as the sequence of its calls on the two
instruments; `at` is the next one. Each may raise, and a raise ends the call at
once, with or without its effect on the instrument. `files` is the
process's table of descriptors, numbers given out lowest first, in which the
rest of the program opens and closes files between calls (`OtherFile`): that is
what makes a descriptor that was kept too long dangerous: a write to it and a read from it may succeed,
and numbers read there are taken for the meter's (`ReadMeter`). The meter holds the
answers nobody read (a USBTMC instrument may discard them or keep them);
the load sends its answers later (`LoadAnswers`) into an input buffer that
`query` resets before it asks. The user's own calls of the load's methods are `command` and
`query`. A command the load ignores without a sign clears `obedient`, so that a
property can be about the program and not about the load.

Left out: the numbers (one voltage and one current stand for the eight values),
`read_all` of the load, and the sleeps.

### Operators marked "Mutant"

They are no part of a specification. Each stands before a definition and is that
definition with a slip one could make in the code: a flag not looked at, a loop
one short, a local not reset. Put in place of the definition, it makes the
property named for it in `PROJECT.json` fail; so the property is not true for
want of anything to go wrong.

## 3. What the runs check

`tlc -config <run>.cfg <module>.tla`. All states are explored; sizes are those of the
bounds in the `.cfg`. Deadlock is not checked: once the bounds on commands, calls or
plugs are used up the model stops, and a bench nobody uses may stop at any time.

| run (module `MC...`) | distinct states | shows |
|---|---|---|
| `lua_reentrant` (`LuaController`) | 138 414 | two commands, three chargers (5 V; 5 V / PPS / 20 V; one that never advertises), a sender that does not wait, `onReceived` inside the delays of another: `OneReplyEach` (refinement of `LuaService`), `OkMeansGranted`, `NotFoundTrueOfSourceRead` |
| `controller_reports` (`KT002Controller`) | 1 184 330 | every method, reconnects, the KT002 pulled out and plugged in again at any point, one unasked or damaged report: `RegisteredMeansReporting`, `KeepsToService` (refinement of `KT002Service`), `CallsEnd` |
| `controller_split` | 4 111 718 | two voltages, every kind of reply, lines cut in two: `AnswerIsAboutCall`, `OkMatchesRequest`, `OkLeavesNothing`, `KeepsToService` |
| `system` (`KT002System`) | 630 405 | two calls, one plug or unplug of a 5 V or a 20 V charger at any point: `VoltageIsOnBus`, `ErrorIsTrueOfSource`, `TextsAreRead` |
| `transport` (`USBTransport`) | 6 869 | three plugs, every call failing: `ClaimIsOurs`, `KernelDriverIsBack`, `HandleGivenUpLast`, `CallsEnd` |
| `shizuku_frames` (`ShizukuFrames`) | 172 417 | `EveryCompleteFrame`, `FramesStandApart`, `FramesDisjoint`, `LeftoverBounded`, `GivenInOrder` (refinement of `FrameService`), `ExtractionEnds` |
| `earlier_threads` (`EarlierController`) | 370 463 | two threads, three calls: `DeviceWhileTalking`, `FirstFrameIsOwn`, `CallsReturn` |
| `doe_points` (`DOEEngine`) | 2 381 913 | four calls, each step raising, files of the rest of the program: `DataIsOwn`, `LoadLeftOnByRaise`, `MeterOpenWithLoad`, `LoadAnswerIsOwn`, `HarmOnlyAfterDisconnect` |

In words:

* `OneReplyEach`: a command that is taken gets exactly one conclusive reply, one
  that may settle it, by whichever early return or raise it ends; then the
  script is ready again. Two texts that `tcp.readAll` returns as one are one (unknown) command.
* `OkMeansGranted`: `OK:PD_nV` is printed only if the source granted n volts to
  this command, and reports n volts unless the charger changed in the meantime.
* `NotFoundTrueOfSourceRead`: `PDO_NOT_FOUND` is true of the charger the list
  was read from.
* `TextsAreRead`: while a callback is due, a text in the buffer is read in the
  end. It needs callbacks that wait for each other: `ERROR:BUSY` is answered without reading.
* `AnswerIsAboutCall`: a call written when nothing was owed to an earlier one
  returns or raises what is said about itself, and nothing else. Of a call that wrote while an
  answer was still to come (the flag `settled` is false) nothing is said: the code may take the late answer.
* `OkMatchesRequest`: a result has the voltage asked for, even when it is a stale one.
* `OkLeavesNothing`: a call that returned its line leaves no ACK and no line to the next.
* `RegisteredMeansReporting`: while the driver holds the handle of the device in place, the flag
  is set only if that device reports. A KT002 that is pulled out or resets forgets the registration
  and the flag stays; but then the handle is dead and every call over it raises, and
  neither `close` nor `connect`, even one that fails half way, opens another with the flag still set.
* `KeepsToService`: a call for a line does not ask before the registration it needs was
  acknowledged, and asks once; it raises for the lines that tell of an error and for no others, it
  returns the line its method is to bring, or, of a text that stops short, what that method makes of
  it; what it failed to get it does not return.
* `ClaimIsOurs`, `KernelDriverIsBack`, `HandleGivenUpLast`: no connect that
  fails and no close leaves a claim that `connected` denies, the kernel without its driver (unless
  it refused it), or a handle given up before its claim.
* `EveryCompleteFrame`: between two reads a call has been given exactly the
  sound frames that came whole since its drain, each once, in order.
* `FramesStandApart`: what the streams of the run have in common. The frames
  `decode_reply` accepts are those `pack_request` built, and nothing that reads as the start of a
  frame claims the start byte of one of them. The streams of `shizuku_stray` break it.
* `GivenInOrder`: the frames owed to a call are given one at a time, each the
  first still owed, also when the call ends in the middle of a buffer full of them.
* `VoltageIsOnBus`: when a voltage call of the driver that wrote with nothing owed to an
  earlier call (`settled`) has succeeded, the source
  granted that voltage to this command, and it is on the bus until a charger is
  pulled out or plugged in. Across driver, firmware and script.
* `ErrorIsTrueOfSource`: with the same proviso, a command that raised for a line was granted nothing;
  `KT002PDONotFoundError` is true of the charger whose list was read, and
  after a `KT002PDSourceError` the next command reads the list again.
* `DeviceWhileTalking`: no thread closes the device under a call in progress.
* `FirstFrameIsOwn`: the first frame is the call's own ACK or pong, whatever
  the other threads do, if nothing was owed when it wrote; what is refused
  as unexpected is about this call or about none.
* `DataIsOwn`, until `disconnect` has closed the meter: what `run_single_point` returns and
  `check_input_voltage` judges is what the meter said to this call, if no answer was unread when it
  asked (`settled`); and it is what the meter said to another call only if a call has raised before, not later than
  that one. So wrong data never come without an exception that warned of them. A point's own data were
  measured with the load on, in CCH mode, at this current, if the load does what it is told
  (`obedient`). After a `disconnect` the descriptor may name another file, whose numbers are returned as they are.
* `LoadLeftOnByRaise`: between calls a load that does what it is told is on only by hand, or because
  the last point to switch it on raised. That it *is* on after such a raise
  (`read_all` between `load_on` and `load_off`, `doe_engine.py:54`) is what the
  code does, there is no `finally`; the property permits it.
* `MeterOpenWithLoad`: while the load can be driven the meter can be read.
* `LoadAnswerIsOwn`: the load is on if `get_load_status` says so, and a reading
  is the one asked for, if no earlier query was unanswered when it was written. `False` says nothing:
  an answer that is late reads as "not on".
* `HarmOnlyAfterDisconnect`: the engine writes to or closes a file of somebody
  else only through the descriptor `WT310.disconnect` closed and kept. It says where this can happen, not that it cannot.
* `CallsReturn`, `CallsEnd`, `ExtractionEnds`: a call, and the loop of `extract_frames`, end.

### Bounds, and why they are enough

* `lua_reentrant` has three chargers, two commands and three plugs: 5 V against 5 V / PPS / 20 V have a
  PDO in common, one that only the second has, and one of another type to pass
  over; a command can arrive while the one before it still shows its
  message and find a list that a swap has made stale. What happens with
  callbacks one after the other is a part of what happens here.
* `system`: a second command on the list read by the first, with one charger
  plugged in or pulled out anywhere. A swap, which is two such events, is in `lua_reentrant`, and the theorems
  `VoltageArrives` and `ErrorsAreTrue` hold for any number of them. Two calls are enough for an answer of the first to meet the second.
* Two calls: what a call can take wrongly is left by the one before it. That a
  longer history adds nothing is what `AnswersCorrect`, proved for any number of
  calls, says. `MCKinds` names the conclusive lines, one or more per
  way the driver treats them (accepted, raised, raised with a trace before it).
* One unasked report is enough to be waited over, damaged, or drained.
* One unplug of the KT002 in two calls: before, within or between them, with registration, `close` and
  `connect` on either side. `RegistrationCorrect` is proved for any number.
* Three plugs: the device held, one plugged in after it went, and one more.
* A maximum payload of 6 bytes and two blocks per stream over two calls: sound frames of
  two lengths, one with a start and an end byte in its payload, a frame of a wrong checksum,
  end byte, length or header, noise, in every order, cut by reads and drains at every byte.
* Two threads and three calls: one leaves an answer behind, one reads, one closes.
  More threads only wait for the lock.
* Three descriptors and four calls: `connect`, a call that fails, a `disconnect`,
  and one after it, with meter, port and a file of another part of the program
  in any order of numbers. Of the two voltages one is on the upper limit of
  115 ± 2 and one is just below the lower.

### Fairness

* Lua: weak fairness of `Callback`, `WorkOnCommand` and `Finish`: the interpreter runs on
  and each wait of the script is bounded (`wait_for_source_capability` counts to
  its limit). Nobody has to send, read, plug in or advertise anything.
* Controller: weak fairness of the drain, the writes and the time-outs, each
  a USB transfer with a timeout or a deadline of the monotonic clock.
  **Nothing is assumed of the device.** A call ends though it never answers. A read over the handle of a
  device that is gone fails at once (`DeadRead`), so a drain over it ends by a raise.
* Transport: a method that was called goes on to its next libusb call.
* Codec: the loop of `extract_frames` goes round.
* Earlier drivers: weak fairness of `Enter` and `Body` of each thread. A Python
  `RLock` is not fair, so nothing is assumed where others keep taking it: that
  `CallsReturn` holds rests on the number of calls being bounded.
* System: one weak fairness for the interpreter, which is one thread, and the lines it prints.
* Engine: none; its properties are safety properties.

`drain_input` reads until a read times out, with no limit of its own. That
`CallsEnd` holds for it rests on `MaxPackets` and `MaxReports`: the device must
pause once. This is an assumption on the firmware, not a fact of the driver.

### Where code and text disagree

Four runs have a counterexample as their result. Each quotes a sentence of the
repository and refutes it.

| run | sentence | what happens |
|---|---|---|
| `lua_swap` | `exceptions.py:55`: "Raised when the requested Fixed PDO is not advertised by the source." | `pd_initialized` is never cleared (`onBoot.lua:222`): after a swap from a 5 V charger to one with 20 V, `PD_20V` is searched in the old list, and refused. |
| `transport_unplugged` | `transport.py:74`: "Return True when the KT002 USB interface is currently claimed." | no failed read or write resets the two fields: after an unplug the transport is `connected`, and `connect()` does nothing. |
| `transport_failed_connect` | `transport.py:3`: the module owns "... and resource cleanup" | the drain in `connect` raises `KT002USBError`, which the handler at line 158 (for `usb.core.USBError`) does not catch: the claim stays, and `__exit__` never runs. |
| `shizuku_stray` | `protocol.py:177`: "Extract and decode every complete Shizuku frame in a buffer." | a start byte that begins no frame makes the next frame's first bytes its length, 1189: complete frames lie in the buffer until 1196 bytes have come, or the next drain. |

## 4. What is proved

`tlapm <module>_proofs.tla`. Each theorem holds for every value of the constants
that satisfies the ASSUMEs of its module (types of the constants, and that the
absent charger is none of the chargers). TLC evaluates the ASSUMEs in every run,
and each invariant below was checked by TLC on the runs before it was proved.
Every safety property of the passing runs is a theorem; `FramesStandApart` and what rests on
it are theorems of the streams that are `Composed`, a hypothesis about the stream and no property of the program.

**LuaController_proofs.** `TypeCorrect`, `OkCorrect`, `NotFoundCorrect`,
`ImplementsLuaService`. The invariant `Inv` is `TypeOK` and `Meaning`:

* `BusyWhileRunning`: a command is in progress exactly while the flag is set.
  Without it a reentrant callback could overwrite `command` and `granted`.
* `RequestsOnly`: the steps of `request_fixed_voltage` are reached with a PD command.
* `SinkSeesSource`: capabilities are received only from a charger in place.
* `CacheCurrent`: if nothing was plugged since the list was read, it is the
  list of the charger in place. `NotFoundTrueOfSourceRead` is this, seen at the reply.
* `GrantStands`: from the grant to the reply, `granted` is the command's
  voltage and the bus has it unless the charger changed.

`ImplementsLuaService` proves that the initial states and every step, under
`Phase` as refinement mapping, are those of `LuaService` or a stutter. That the
reply does come (the fairness of `LuaService`) is checked by the runs.

**KT002Controller_proofs.** `TypeCorrect`, `AnswersCorrect`, `ResultsMatch`,
`RegistrationCorrect`, `NothingOwed`. `AnswerIsAboutCall` speaks of the return alone and is not
inductive. What is: *if the command was written when nothing was owed, then
every frame on the wire, every answer owed, every command and line in the device,
and every local of the call is about this call* (`OnlyOwnAnswers`), and
*every answer is about some call* (`AnswersHaveSubject`), which makes "about no other"
into "about this one". `Locals` ties the locals to the line rules,
`Outcome` carries the result over later reconnects, `CallUnderway` gives each
step its call, and `Reporting` adds to `RegisteredMeansReporting` that a set-up
answer on the wire was sent after reports were switched on, by the device in place: `Replug` switches them off
but empties the wire and leaves the handle dead, and the flag is clear when one is opened. Device and driver actions
are separate lemmas for each part of the invariant.

`NothingOwed` (`OkLeavesNothing` for any number of calls) needs a second
invariant, `Exchange`, about the course of one exchange: when the command was
written with nothing owed, there is one ACK of it (`AckOnce`), none before the
packet (`NoAckBefore`), one command (`CommandOnce`), and the line that ends the
call is the last that is said about it, wherever it is: in the script
(`SpeechLast`), cut in two (`CutLine`), on the wire (`WireLast`), or in the locals
of the call (`AcceptedLast`, `PendingLast`). So once ACK and line are both
taken, nothing of the call is left (`NothingLeft`). A call that takes its line and
waits on for an ACK that was already read would break it, and so would a script
that prints anything after its conclusive line.

**KT002System_proofs.** `SystemTypes`, `VoltageArrives`, `ErrorsAreTrue`: the two
statements of the whole path, for any chargers, commands and methods and any
number of calls. The proofs of the parts are used as they stand: each step of the
system is a step of `LuaController` or leaves its variables alone, so `Inv` of
`LuaController_proofs` holds; the driver's steps are those of `KT002Controller`, whose
lemmas are taken from `KT002Controller_proofs` by instantiation (`Host`). What
is new in `SystemInv` joins the two sides:

* `Power`: until the grant a command is granted nothing (`NothingGrantedYet`), the
  sink sees the source the list came from (`CacheSeen`), and a request is refused by
  the sink only if another charger was plugged in (`RefusedAfterReplug`).
* `Wire`: which call each text and line is for. Only `READY`, `SCREEN_OPEN_FAILED`, and `BUSY` of a callback
  that ran inside another one, are for none. `SCREEN_OPEN_FAILED` is said only by a script that has ended and
  grants nothing (`Exited`, `ExitSaid`), so what a call raises for it is true.
* `OnlyCommand`: a call that waits and wrote when nothing was owed has the only
  command between the driver and the script; so `granted` is that of its command.
* `LinesTrue`: every line on the wire, and every one the driver holds, that would end
  such a call is still true of the power side (`Settles`), or the charger changed since.
  `OutcomeTrue` carries this over to what the call returned or raised.

`VoltageArrives` holds whether or not callbacks run in one another.
`ErrorsAreTrue` assumes `~Reentrant`. With reentrant callbacks a `BUSY` of an
earlier text, for no call in particular, can end a call that is then granted; the
repository does not say which of the two the firmware does. `MethodsAssumption`
says that the methods called are methods of the driver.

**DOEEngine_proofs.** `TypeCorrectness`, `PointsMeasureTheirOwn`,
`LoadOffAfterPoint`, `MeterOutlivesLoad`, `QueriesAnswered`, `NoHarmBeforeDisconnect`,
for any number of calls, descriptors, currents and voltages. The invariant follows the
call step by step:

* `PortIsPort`, `MeterIsMeter`: a descriptor in use names the file it was opened for,
  up to `disconnect`. `MeterFirst` is the order of opening and closing;
  `MeterOpenWithLoad` needs it.
* `PointSetUp`: after each step of `run_single_point` the load has mode, current and
  switch as told so far. `MeterAnswersExcused`: an answer nobody has read is of a call not earlier than one that
  raised, or the one just asked for. `MeterAnswersOwn`: what the meter is about to say to this call was measured with
  the load as it is, and is all it has to say if nothing was unread. `PointDataKept`: so are the
  data, once read. Together they give `DataIsOwn`.
* `LoadAnswersOwn`: the same for the answers of the load that came or will come.
* `LoadOnAccounted`: a load that is on was switched on by hand, by a point that raised, or
  by the point in progress between its `load_on` and its `load_off`.

`HarmOnlyAfterDisconnect` is an action property: `AskMeter` and `CloseMeter` alone
touch files by the descriptor of the meter, and before a `disconnect` that is `MeterIsMeter`.

**USBTransport_proofs.** `TypeCorrect`, `ClaimCorrect`, `KernelDriverCorrect`,
`HandleCorrect`. `ClaimIsOurs` speaks of the state between calls; the invariant
adds what holds inside them (`Holding`: what is claimed and set at each
stage of `connect` and `close`), that a claim is of the device in place (`ClaimIsPresent`), that
devices are numbered in order (`NumbersInOrder`: a handle is never
that of a device to come) and that a driver taken off the device in place is
noted (`DriverAccounted`). `HandleGivenUpLast` is an action property from the same invariant.

**ShizukuFrames_proofs.** `TypeCorrect`, `DisjointCorrect`, `BoundedCorrect`,
`EveryFrameGiven`, `PackedIsDecoded`, `LuaTextFits`. The first three hold
for arbitrary bytes and any cuts: no byte is used by two frames of a call, none
is from before its drain, and the buffer stays shorter than one longest frame
between reads. The added conjunct `BufferAfterDrain` says that the buffer
begins behind the drain.

`EveryFrameGiven` is `EveryCompleteFrame` for every stream with
`FramesStandApart`, of any length, under any cuts and over any number of calls. Without that
hypothesis it is false, as `shizuku_stray` shows. The invariant
`FramesInv` adds that the front of the buffer is never inside a frame
that began after the drain (`NoneCut`), that the call has exactly those it has passed (`Got`), that
no whole frame is left when the loop ends (`NoneLeft`), and that all are given before the
next read (`AllGiven`).

`FramesApart` says which streams have `FramesStandApart`: those that are `Composed`, of
any number of pieces. `Composed` asks something of each piece alone; that the pieces do no harm
to one another is the theorem. Its argument: the place of any start byte is in a piece;
there it is refused or ends (`PieceHolds`), so it claims nothing behind the piece
(`ClaimLength`); and a sound frame in it is the whole piece, one that was sent (`PieceIsSent`). `ComposedIsGiven` and `ComposedInOrder` put this together with
`EveryFrameGiven` and `ImplementsFrameService`.

`ImplementsFrameService` proves that every step is a step of `FrameService` or a
stutter. `StartCall` is its `Start`. `Yield` is its `Give`: by `FramesInv` the
frames cut out are those that began in `drained+1..first` in order of their places, so the next one is the
first still owed (`NextIsFirstOwed`). `RaiseDamaged` and `TimeOut` are its `End`, and all the rest, reads and the
loop, changes nothing that it sees (`LoopGivesNothing`).

`PackedIsDecoded` joins encoder and decoder: what
`pack_request` builds is a frame wherever it lies in a stream, with its header.
`LuaTextFits` says at which lengths a text for the Lua
program is refused: `pack_lua_mosi` allows 65535 bytes of content, but what
really limits it is the 4096 bytes of payload that `pack_frame` allows.

**KT002Service_proofs.** `ImplementsKT002Service`: every step of the driver is a step
of `KT002Service` or a stutter, for any chargers, commands and methods and whatever the device
sends, cuts, repeats or withholds. The device's own steps are stutters. The driver's need:

* `Prepared` (an invariant of its own): a call that has reached the drain of its request, and waits for
  a line, is registered. With `CallUnderway` (a call that only registers never gets there), `Write` is `Ask`.
* `OnlyOwnAnswers` and `AnswersHaveSubject` of `KT002Controller_proofs`: if nothing was owed when
  the call asked, the frame read and the text kept are about this call (`FrameIsOwn`,
  `KeptIsOwn`), which is what `Answer` demands of a settled call.
* `Locals`: the line a call holds when its ACK comes is one its method accepts (`Concludes`).
  An unfinished text is either raised for, handed on as it is, or fails to parse, as
  the method has it (`LateRefines`).

Two operators of the model, `ShortText` and `Completed`, once had CASE arms that overlapped. TLC took the first;
the prover, rightly, took neither. They have disjoint guards now.

**EarlierController_proofs.** `TypeCorrect`, `DeviceCorrect`,
`FirstFrameCorrect`, for any number of threads. The invariant adds `LockHeld`
(the lock is with the one thread that is inside a method), `CallUnderway`
(only a thread that waits has written), `AnswersHaveSubject` (what is neither
report nor damaged is about some call) and `OnlyOwnFrames`, the inductive form of `FirstFrameIsOwn`: while
a thread waits that wrote when nothing was owed, every frame there is or will
be is about its call or about none. It survives the steps of the other threads because
only the holder of the lock writes.

### Model-checked only

* Liveness: `CallsEnd`, `CallsReturn`, `TextsAreRead`, `ExtractionEnds`, the fair part of
  `OneReplyEach`. TLAPS does not reason about fairness and ENABLED here.
* That the streams of `shizuku_frames` stand apart is what its `FramesStandApart` shows. That the concatenation of
  pieces is `Composed`, the hypothesis of the theorems, would be an induction over them; stated
  as it is, of every byte, it needs none.
* That the lines of `KT002System` reach the driver as `KT002Controller` assumes (item 10 of the plan).

## 5. What is not modelled

* The load placeholders and the factory: they print a line per call and keep
  nothing. (`load_factory.py` hands `connection_type` and `address` to the
  first two positional parameters of `Chroma6312`, which are `port` and
  `baudrate`: `tests/test_factory.py` makes a load on a port named "RS232".)
* `Chroma6312.read_all`, six queries in a row, each of them a `query` of the model.
* What `check_input_voltage` reads is the AC side; nothing in `src/` drives the
  engine and the KT002 together, so no property relates them.
* `models.py`, `exceptions.py`: records and classes without behaviour.
* `tests/`, `analysis/`, `docs/`, notes and validation logs: programs run by hand
  at the bench, one-off scripts and text. Quoted where they state something of the code.
* Values: current, power, PPS ranges, wording, colours, logging.

## 6. Plan

Order: the path of one command from the inside out, then the whole, then the rest.

1. Done: `LuaLines`, `LuaService`, `LuaController` with its refinement and proofs.
2. Done: `KT002Controller` and its proofs.
3. Done: `USBTransport` and its proofs.
4. Done: `ShizukuFrames` and its proofs.
5. Done: `KT002System`.
6. Done: `DOEEngine`.
7. Done: `pack_lua_mosi` at its limits, in `ShizukuFrames` and as `LuaTextFits`.
8. Done: `EarlierController` and its proofs.
9. The verdict of `tests/test_kt002_stability_stress.py`: summary "pass" against exit code.
10. `KT002System` as a refinement of `KT002Controller`: that the device the
    controller assumes (`TakeCommands`, `PrintLine`) allows all the script does. The device
    there decides all its lines when it takes a command, and the script when it
    comes to them, so this needs a prophecy of the lines; `SystemInv` does without.
11. Done: `KT002Service` and `FrameService`, what the driver and its frames promise, with their refinements.
12. Done: `FramesStandApart` of composed streams.
13. Done: proofs of `OkLeavesNothing` and `EveryCompleteFrame`, and of the safety properties of `KT002System` and
    of `DOEEngine`.
