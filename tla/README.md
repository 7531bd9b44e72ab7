# Verification of ARM-HaLib

ARM-HaLib is a header library for bare-metal ARM (Cortex-M3) programs: character
devices, their buffers and framing layers, delays, interrupt locks, register maps
of local and remote devices, logging. There is one processor, a main program and
interrupt handlers; no threads, no heap, nothing persistent. What is hard in it is
therefore the *interleaving of handlers with the middle of an operation of the main
program*, a device that changes under the program's hands, and the arithmetic of
rings, clocks and marks at their boundaries. This directory models those parts in
TLA+, checks them with TLC and proves part of them with TLAPS.

Paths are relative to `src/`; `common/` stands for `include/arm-halib/common/`,
`arm/` for `include/arm-halib/arm/`, `regmaps/` for `include/arm-halib/regmaps/`.

## 1. The system

| Component | Code | State | Operations | Talks to |
|---|---|---|---|---|
| QueueBuffer | `common/queuebuffer.h` | ring `bu`, indices `poss`, `pose` | get, look, put, clear, isEmpty, isFull, count | is a member of the two buffers |
| COutBuffer | `common/cbuffer.h:5-55` | `outBuffer`, `onReady` | put, ready, enableonReady; handler putonReady | base device calls the handler through a delegate; calls the program's `onReady` |
| CInBuffer | `common/cbuffer.h:57-113` | `inBuffer`, `onReceive` | get, enableonReceive; handler getonReceive | the same for `onReceive` |
| CFrame | `common/cframe.new.h` | one byte, two 4-bit states | startFrame, endFrame, transformOut, transformIn, resets | used by both frame layers |
| CDeviceFrameNoInt | `common/cdeviceframe.h:5-129` | none between calls | send, recv (polling) | a UART on each side |
| CDeviceFrame | `common/cdeviceframe.h:131-290` | `sendMob`, `recvMob`, `cframe` | send, recv, enableonReady; handlers putonReady, getonReceive | base device, program's callbacks |
| Clock and delays | `common/delay.h`, `tick` in `src/start.cpp` | `sysTickHigh`, the SysTick counter | time, delay_us, delay_ms; handler tick | uses the lock |
| Interrupt lock | `arm/locking.h` | FAULTMASK, one saved value per lock | constructor, destructor | used by `time` and by programs |
| Remote register maps | `regmaps/base/{register,remoteRegMap,twi,eeprom}.h`, `regmaps/remote/srf10.h` | a copy of every register, `init` | assignments, sync | a bus driver, a device |
| Local register maps | `regmaps/local/**`, `base/localRegMap.h`, `regmaps.h` | the peripherals, and what the compiler keeps of them | fields read and assigned, setWaveForm, getWaveForm, sync | handlers that assign other fields of the same byte; the interrupt lock |
| Boot | `src/start.cpp` | clock registers, memory | clock set-up and its waits, copyData, constructors, main, destructors | the oscillators; enables the tick |
| Uart0 | `arm/uart.h` | device registers | ready, put | the line |
| Streams | `common/coutdevice.h`, `cindevice.h`, `cdevice.h` | none between calls | writeInt, writeUInt, writeHInt, writeCInt, strings; readInt, readString; SecOut's waiting put | any character device |
| Fixed point, PID | `common/fixPoint.h`, `pid.h` | a window of errors | arithmetic, getControlValue | - |
| Sensors | `common/syncsensor.h` | none | getValue (two polling loops) | a sensor class outside the repository |
| Delegates | `common/delegate.h`, `thisDelegate.h` | object and function pointer | bind, reset, call | handlers read what main binds |
| Logging | `include/logging/` | output instance with base and levels, flag of the singleton | emit, operator<<, level switch | any output device |
| memset | `src/common.cpp` | - | memset | - |
| Board support, old frame machines, metaprogramming | `platform/`, `examples/`, `cframe.h`, `cframe.old.h`, `mpl.h` ... | - | - | - |

**How they interact.** A character device owns two interrupts. Each has a delegate
(`onReady`, `onReceive`) and an enable bit. A layer above the device binds its own
handler to the delegate and offers a delegate of its own, so that layers stack. A
handler runs to its end between two instructions of the main program and is never
interrupted by main; the two share the ring indices, the message objects, the state
byte of CFrame and the enable bits, all of them without any protection but the
optional `GlobalInterruptLock` of the caller.

**What is hard, and what makes each part correct.**

- *Ring*: full and empty must be told apart by two indices that wrap. Correct: it is
  a FIFO of `Length - 1` elements that loses the oldest one when it overflows.
- *COutBuffer*: the handler switches its interrupt off on an empty ring just when put
  fills it; put changes `poss`, the handler's index, when it drops. Correct: nothing
  is lost, doubled, overtaken or left behind.
- *CInBuffer*: the handler switches itself off on a full ring, and get has to notice.
  Correct: characters come out in order, and the receiver never stays deaf.
- *CFrame and the frame layers*: marks, escapes, broken and damaged frames; a message
  object that main fills while the handler may read it; two bit fields in one byte.
  Correct: the line carries whole frames of accepted messages, recv returns whole
  messages that were sent, and both directions make progress.
- *Clock*: two halves read at different moments, a handler that moves one of them,
  locks that nest and may outlast a period. Correct: the clock falls behind the real time
  only by the tick that waits and those that locks have lost, delays end, and are too
  short by that waiting tick at most.
- *Remote registers*: every transfer may fail, the device changes by itself. Correct:
  a copy is what the device held, a failure changes nothing, and nothing is written
  that was neither read nor assigned.

- *Local registers*: a bit-field cannot be stored alone, so that an assignment rewrites
  its neighbours; members are not `volatile`, so that bytes are kept between two
  synchronisations; the lock orders no memory. Correct: fields behave as variables of
  their own, reads are not old, and a timer has the mode that it was given.
- *Start-up*: each clock is built on the one before, and the tick runs before its
  counter is initialised. Correct: the processor never runs from a clock that does
  not run, start-up ends, and the clock is right from its initialisation on.
- *Streams*: numbers at the edges of their width, and a reader that is faster than the
  line. Correct: what is written means the number, a call returns what the characters
  that it took say, and what is read with care is what was written.
- *Logging*: one output object, constructed on first use, that main and handlers share.
  Correct: numbers are right in every base up to the edges of their width, and a
  handler that logs in the middle of a message leaves it readable.

The file `PROJECT.json` lists every hazard with its line and the properties against it.

## 2. Modules

| Module | What it models |
|---|---|
| `Ring` | the index arithmetic of QueueBuffer as operators of the two indices; `Contents` is what the ring holds |
| `RingProofs` | lemmas about `Ring`: what storing and advancing do to `Contents`; the proofs about the buffers rest on them; and theorems about `QueueBuffer` |
| `Fifo` | *abstract*: a queue of at most `Capacity` elements that drops the oldest one |
| `QueueBuffer` | the ring as one caller uses it; refines `Fifo` |
| `COutBuffer`, `MCCOutBuffer` | put one memory access at a time against putonReady |
| `COutBufferProofs` | theorems about `COutBuffer` |
| `CInBuffer`, `MCCInBuffer` | get one memory access at a time against getonReceive |
| `CInBufferProofs` | theorems about `CInBuffer` |
| `CFrame` | the machine as functions of state and character |
| `FrameChannel` | *abstract*: a message channel that loses damaged messages, and those behind them; what comes out of these is anything, but in its place |
| `CDeviceFrameNoInt`, `MCCDeviceFrameNoInt` | a sender, a wire, a receiver; refines `FrameChannel` |
| `CDeviceFrameNoIntProofs` | theorems about `CDeviceFrameNoInt`, the refinement among them |
| `CDeviceFrame`, `MCCDeviceFrame` | the interrupt-driven layer, both directions |
| `CDeviceFrameProofs` | theorems about `CDeviceFrame`, both of its directions |
| `SysTick` | counter, tick, time, nested locks, delays |
| `Boot` | init from reset to the loop behind main, with `SysTick` as the program it starts |
| `SysTickProofs` | theorems about `SysTick`, and about `Boot` |
| `RemoteRegMap`, `MCRemoteRegMap` | Register::sync over TWI against a device |
| `RegisterLayout` | how bit-fields lie in memory |
| `AtMega128Rfa1`, `AtMega1281`, `LegacyAtMega128Rfa1`, `At90Can128`, `Sam3s4b` | the register maps of the five chips, and the tables of modes of their timers |
| `IndependentFields` | *abstract*: fields as variables that an assignment reaches by the next synchronisation |
| `LocalRegMap`, `MCLocalRegMap` | a program on a register map, one memory access at a time, against a handler; refines `IndependentFields` |
| `RegMapProofs` | theorems about `RemoteRegMap` and `LocalRegMap`, the refinement among them |
| `Streams`, `MCStreams` | a writer of numbers and words, a line, a reader |
| `Logging`, `MCLogging` | emit, the singleton, the level switches and OutputStream, against a handler that logs |
| `TextProofs` | theorems about `Logging` and `Streams` |

`COutBuffer` and `CInBuffer` extend `Ring`, the two frame layers extend `CFrame`, `Boot`
extends `SysTick`: its programs before, in and behind main are the actions of `SysTick`,
and the theorems about `SysTick` carry over to it. Three chips take the maps of `AtMega128Rfa1` where their
headers describe the same bits; each header is mapped by a definition of its own.

**Correspondence.** Names are the code's: an action `putDrop` is the part of `put`
that begins at the drop. An operation of the main program that shares state with a
handler is cut into one action for each access to shared memory, in the order of the
code, and `pc` says which comes next; a handler is one action, because nothing
interrupts it. `add1overrun(poss)` takes its argument by reference: it reads the
index and writes it back, and is therefore two steps (`putDrop`/`putDropped`,
`getRemove`/`getRemoved`). The bit fields of `CFrame::state` share a byte, so that
`resetTx` and `resetRx` of the main program are a load of both (`resetTx`,
`resetRx`) and a store of both (`storeTx`, `storeRx`). `send` of CDeviceFrame stores
size, position, every payload byte and the state one by one. A callback that the
handler runs is part of the handler's action, with the whole of `send`, `put` or
`recv` that it calls.

In the local register maps the accesses of a program are a sequence of windows between
synchronisations. Within a window a byte is loaded into a register of the processor as
early as the compiler may (`Load`), an assignment changes it there (`Access`), and it is
stored whole at any moment up to the next synchronisation (`Store`). In Streams every
`get` and `put` is a step, and in Boot every write of a clock register and every round
of a wait.

A *use* (constants `Uses`, `Links`) is a kind of program: whether it waits for
`ready()`, holds a lock during its calls, works from its callbacks or from main. It
is chosen in the initial state and never changes, so that one run covers the kinds
of programs together, and a property may say which it is about.

External, modelled from how the code uses it: the transmit and receive registers and
interrupt enables of the base device, the wire, the peer, the counter and the pending
bit of the processor, the oscillators and their status, the compiler's layout and
accesses of bit-fields, the bus driver and the device behind it.

Operators with the comment *Mutant* are slips the code could have made; nothing in
the specifications uses them. Each shows that one of the properties notices the slip.

## 3. Runs

Runs named in `PROJECT.json`. "violation" runs check what a comment of the code
promises and show how the code breaks it.

| Run | Shows | Bounds, and why they are enough |
|---|---|---|
| `queuebuffer` | every order of operations is a FIFO; `isFull` at capacity; `count` right if not empty | `Length` 4: both wraps, at 0 and at `Length - 1`, and every distance of the indices; three values tell neighbours apart. All `Length` by proof |
| `outbuffer` | InOrder, NoLostWakeup, OnlyWhatWasPut, AllSent for five kinds of program | `Length` 3 (capacity 2): full after two puts; 7 characters pass the ring twice and leave room for drops |
| `inbuffer` | InOrder, FullOrEnabled, TakenUnderLock | `Length` 3, 6 arrivals: full, switched off, on again and full again |
| `inbuffer_wedge` | **violated**: without a lock the receiver may stay off for ever | as above |
| `frame_channel` | the polling layer implements `FrameChannel` | every message of up to two of 8 characters, two in a row, to a buffer of one, over a clean wire: every mark, escape and plain character, doubled, first and last; and three messages of each kind over a wire with two faults: the damaged frame, the one behind, the one that must get through |
| `device` | LineIsFrames, ReceivedIsSent, AcceptedGetsOut, AllReceived, ReceiverIsFreed | payload 3 and a `position` of 4 values, so that it is at the edge of wrapping; messages empty to full; up to 3 messages a direction: one being sent, one behind, one more; recv with an object for the longest message, or only for the short ones, which a longer one blocks. The programs are those that LineIsFrames and ReceivedIsSent speak of (`OneByOne`, `TxKept`, `RxKept`, see 5). Every size and every number of messages by proof |
| `device_bit_field` | **violated**: `resetTx` undoes a change of the receive state, and recv returns a mixture | one message out, two in, no lock |
| `boot` | ClockRuns, StartsUp, and of `SysTick` HalvesAgree, ReadingBound, LocksNest, DelayNotEarly, DelayEnds | period 3, five periods; data of two words, the first of them `sysTickHigh`, so that ticks come before, at and behind its copy; garbage in it below and at its value; a `timeout` that wraps after two rounds; arguments of 2 and 6 counts (`17 div 8 = 2`): delays within a period and over one; two nested locks, of any length, so that ticks are lost one after the other. The clock is compared with a count of the real time that nothing adjusts. All values of what `SysTick` says by proof |
| `remote_sync` | ReadsDevice, FailureKeepsCopy, NothingUnknownWritten, Writes | registers of one, two and three bytes and of the three modes, two of them at one address; two byte values. No bound on steps: the state space is finite |
| `local_maps` | ImplementsIndependent, ReadsCurrent, ModeIsSelected | every map of the five chips: two fields with at most two bits between them and a third beside them that a handler assigns; every two fields of a chip that share a byte; every wave form and every prescaler of every timer, each at least once in a pair. Memory all zero or all one and fields turned over, so that a bit that goes wrong shows. The lock held with a synchronisation inside, or no lock where the handler's byte is its own |
| `streams` | WritesValue, ReadsPiece, ComesBack | 16 bits for `int32_t` and 8 for smaller types: 0 and 1, the last number of one, two and four digits and the one behind it, each width's edges, negative and not, in each base; pairs behind each kind of separator; words that fit, just fit and do not; a line and transmitter of two characters, polled at any moment. All widths, numbers and scripts by proof |
| `logging` | AsIfAlone, MainUndisturbed, HandlersComplete | numbers of 8 bits: all 384 values, signed and unsigned, in all four bases, with every pointer; a program of two messages that a handler interrupts twice at any point, with and without a lock, with either level switch, in builds that keep the order of flag and object or do not, and that make the object zero first or do not |

Deadlock is checked for `queuebuffer` and `remote_sync`, which never stop. In the others
a finite number of characters, messages, counts or accesses is given, after
which the system rests; that it does not rest too early is what their liveness
properties say.

### Findings

1. `inbuffer_wedge` - `get` tests `isFull()` before it makes room (`cbuffer.h:100`);
   if the handler finds the ring full and switches itself off in between, no later
   get finds a full ring, and nobody switches it on again. A lock around get, or
   reading from the callback under one, avoids it (`inbuffer`).
2. `device_bit_field` - two bit fields in one byte (`cdeviceframe.h:255`), each stored
   by a read-modify-write of main, with handlers changing the other.

Flaws that a line shows by itself, and that have no run:

- `cdeviceframe.h:248`: `send` refuses only while `cframe.sending()`, which is false
  until the handler has put the start mark; the second of two sends replaces the first,
  though both return a size (l. 244 promises zero if unsuccessful).
- `queuebuffer.h:87`: an unlocked put on a full ring writes back an index that the
  handler has moved since; the ring then looks almost empty, and the *new* character is
  lost (l. 79 says the oldest one). What is sent is still only what was put
  (OnlyWhatWasPut); programs that wait or lock are not affected.
- `cdeviceframe.h:64`: the polling `send` puts the start mark without asking `ready()`, as
  it does for every other character; over a bare UART it may overwrite the last one. In
  the model every put waits, as that of `SecOut` does.
- `cdeviceframe.h:277`: a message larger than the object given to `recv` is refused and
  kept, and nothing more is received until recv is given a larger object. AllReceived and
  ReceiverIsFreed say it with the sizes.
- `twi.h:89`: `size` is one less already when `size-1` is tested, so that the last byte of
  a register of two or more is read after the device was told that there is none, although
  l. 17-18 promise registers of 8 and 16 bits. ReadsDevice leaves that byte out.
- `start.cpp:203`: one tick may wait; those that come while it does are lost, and every
  reading after a lock of more than a period is too large by as many periods.
- `delay.h:32`: a delay under a lock of the program, over the end of the period, waits for
  ever.
- `singleton.h:42`: `new T()` makes an object of a class without a constructor of its own
  zero before it constructs it. A handler that comes before these stores has constructed
  and flagged the object, and one that comes between them and the constructors finds it
  flagged, all levels off and base 0: its message is lost. HandlersComplete speaks of
  builds that drop these stores (`Sound`), or of a main program that locks.
- `LoggerLevel.h:151`: the description of the level `Void` is a null pointer, which
  `Logger.h:202` prints as a text. It is left out of the model.
- `cdeviceframe.h:172`: the payload is guarded by `recvMob.position`, which is always 0,
  and a longer frame is stored past its end.
- `cbuffer.h:48`: `ready()` reads indices that are not `volatile`, in the waiting loop of
  `coutdevice.h:360`.
- `delay.h:31`: `F_CPU/1000000/8*value` divides first; 5 instead of 5.952 counts at
  47.616 MHz.
- `register.h:169`: a synchronisation writes the whole copy, and puts back every bit
  that the device has changed.
- `eeprom.h:37` (`data[size--]` misses the first element and passes the last, and read
  writes), `pid.h:64` (the index runs one past `e`), `src/common.cpp:11` (`s/4-1` without
  a sign, `c&0xff<<24`).
- `at90can128/timer2.h:55`: `i==128` for `i==ps128`; the divisor told for `ps128` is
  1024. The run selects every other one.
- `legacy/atmega1281/gpior.h:35-50`: mutexes 8 to 23 have padding of more than a byte in
  front of their bit and lie one or two bytes behind the address given, 8 to 15 at 0x4B and
  16 to 23 at 0x4D, the SPI's `spsr`; the other AVR chips have the same offsets. Pairs of
  these with the SPI are left out of the run.
- `sam3s4b/uart0.h:35`: the structures of events have two bytes each, not four, so that
  `sr` lies at 0x400E060E, where `arm/uart.h:35` reads 0x400E0614.
- `legacy/atmega128rfa1/systemclock.h:71` writes 0x08 where the comment below it means
  the bit `clkpce`, 0x80.
- `cindevice.h:56`: a `maxLength` of 0 becomes 255. `coutdevice.h:114`: integers of eight
  bytes are cut to four.

## 4. Fairness

- *Main* (`WF`): a call that was begun goes on; the processor does not stop between
  two instructions. No action by which the program *begins* a call is fair, except
  where the property is about a program that polls: `get` and `enableonReceive` in
  `CInBuffer` (`WF`), `recv` in `CDeviceFrame` (`SF`: the program polls between its
  other calls, during which it cannot).
- *Handlers* (`SF`): an enabled interrupt with its condition pending is taken when
  the lock is released. A lock held around every call disables it again and again,
  and between two calls the hardware takes it: weak fairness would not give that.
  `tick` needs only `WF`, since nothing but the lock of `time`, which ends, and the
  program's own, which `DelayEnds` excludes, masks it; `DelayEnds` holds with `WF`.
- *Start-up* (`WF` of `Setup`, and of the program's calls): the processor goes on with
  `init`. *Oscillators* (`WF`): each comes up once it is asked for; StartsUp says
  nothing of a crystal that does not, and then `clockSetup` waits for ever.
- *Devices* (`WF`): the transmitter sends the character in its register, a character
  that is under way arrives, the counter counts.
- `RemoteRegMap`, `QueueBuffer`, `Logging`, `LocalRegMap` and `Streams` have safety properties only and no fairness.

## 5. Theorems

Checked by TLAPS for every value of the constants, from the assumptions that the modules
name. Each of the modules below states its inductive invariant under the name `IInv`, or
in named parts, proves one lemma for each action, and its theorems follow from the
invariant.

| Assumption | Says |
|---|---|
| `LengthAssumption` | a ring has a slot |
| `MaxPutAssumption`, `MaxRecvAssumption`, `BoundAssumption`, `StartAssumption` | the bounds of a run are numbers; every number is covered |
| `UsesAssumption`, `LinksAssumption` | a use is one: which of the ways to call the class it takes, or the lengths of a link. In `CDeviceFrame` the peer's messages are no longer than the message object, which the code does not check (`recvPosition`); what the program gives to `recv` may have any size (`Size`) |
| `MessageAssumption`, `SizeAssumption` (`CDeviceFrame`) | a message is a sequence of characters no longer than the object that send copies it into, which send does not check; the object holds a character at least, and `FLT` counts further than it |
| `NoneAssumption` | the mark of an empty register is no character |
| `PeriodAssumption`, `DelayAssumption`, `DataAssumption` | the period is more than one count; delays are numbers; the word of `sysTickHigh` is one of those that are copied, and no garbage in it is greater than the value that it starts from, which has all bits set |
| `CharAssumption`, `ModAssumption` (frames) | the three marks are different and not flow control; escaping twice changes nothing; an escaped mark is never the start mark, as in every configuration of `cframe.new.h` |
| `CharAssumption`, `ModulusAssumption`, `UsesAssumption` (`Logging`) | digits and signs are characters; the numbers printed are of a type that holds the largest base; a use is one: messages of items that `OutputStream` prints, with a base of 2, 8, 10 or 16. If the build may set the flag early (`Ordered` is false) or make the object zero first (`Zeroed`) and main does not lock, the handlers' messages set the base of their numbers themselves |
| `WidthAssumption`, `ScriptsAssumption` (`Streams`) | the width of `int32_t` and the narrower one are whole bytes; a script is one: its numbers are of a type, and within it unless the type is wider than `int32_t` (hexadecimal and raw ones are not wider), its texts are characters, a buffer of `readString` has room for the terminating zero and no more than 255 characters. Nothing is assumed of when a call is made, or of what it is made for |
| `RegAssumption`, `ByteAssumption` | a register has an address, a size and a mode; what a copy holds before it is known is no byte |
| `ProgramsAssumption` | a program assigns whole fields of its layout, takes the lock where a byte that it assigns is also the handler's, and reads a field of several bytes under it |
| `ModesAssumption` | a program that is said to select a mode of a timer assigns what `setWaveForm` makes of the form, and the code of the prescaler, and nothing to these fields behind that; a field of a mode has one to three bits and room for what is assigned; the divisor of the code is the value that `PSArray` tells. The run evaluates it for the tables of all timers |

**`RingProofs`**: `PutAppends` (storing at `pose` and advancing it appends, if the ring is
not full) and `AdvanceIsTail` (advancing `poss` drops the head) carry the proofs of three
modules; both need that `Contents` depends on the occupied slots only. The theorems are
about `QueueBuffer`, whose names (`qbu`, `queuePut`, `QueueSpec`) are its own, because the
proofs about the two buffers extend this module.
- `QueueTypeCorrect`: the indices stay in the ring; `QueueTypeOK` is inductive by itself.
- `FullCorrect`, `CountCorrect`: FullIsCapacity and CountOfNonEmpty follow from it
  by `FullAndEmpty`, which reduces both to the number `Used` of occupied slots.
- `QueueBufferIsFifo`: `QueueSpec => Abstract!Spec`, with `queue <- Contents(qbu, qposs, qpose)`.
  A put on a full ring is `AdvanceIsTail` after `PutAppends`.

**`COutBufferProofs`**
- `TypeCorrect` needs that a put in progress has taken a number.
- `NoWakeupIsLost`: `WakeInv` adds that put has bound the handler before it enables the
  interrupt. The handler switches off only on a ring that it leaves empty.
- `SendsOnlyWhatWasPut`: `Written` says of each `pc` which slots hold characters that were
  put. It must say so of *every* slot but `pose` while put drops, because that is when the
  handler's index and main's copy of it disagree and the ring may turn over.
- `SentInOrder`: `SerialInv` and `WaitingInv` say what `line`, `tx` and the ring together
  hold: up to `given - 1` from the moment that put takes a number to the moment that it
  advances `pose`; and that a put that has found room keeps it. A put that drops does so
  under the lock (`use.Locked`), on the ring that it found full. Two guards of the
  property come from the proof. Without `LockedCallback` the callback of the
  handler may put inside of main's put. Without `Length > 1` the last part is
  false: a ring of one slot is full when it is empty, and drops what it is given.

**`CInBufferProofs`**
- `TypeCorrect`, with `overrun` among the characters that have arrived.
- `FullOrEnabledCorrect`: `FullInv`. Under the lock, an interrupt that is off means a full
  ring, or a get that has seen it full (`wasFull`) and is on its way to switch it on.
- `ReadInOrder`: `GetInv` (from the test on, get holds the head of the ring, which the
  handler leaves in place) and `HeldInv` (what is held, in order, is what has arrived and
  not been overrun).

**`RegMapProofs`** about `RemoteRegMap` (whose names `RemoteSpec`, `RemoteInit`,
`copies` and so on are its own, because the module extends `LocalRegMap` too):
`RemoteIInv` is `RemoteTypeInv`, `PlaceInv` (which byte of the register each
transfer is about, and that the device's address pointer agrees), `KnownInv` (what has
been read once, or is being written, is known), `SeenInv` (the copy, byte by byte, is
among the values that the device had since the call began) and `FailureInv` (before the first
byte is read, and after a failure, the copy is the one that the call began with).
- `TypeCorrect`, `RemoteReadsCorrect`, `FailureCorrect`, `KnownCorrect`.
- `WritesCorrect` (an action property): at the end of a write the device has been given
  every byte, and no call writes to another register's address. `PlaceInv` is what it
  rests on: the pointer moves with the byte.

**`RegMapProofs`** about `LocalRegMap`: `TypeInv`, `MaskInv` (whether the lock is held, from the last
statement about it), `CopyInv` (what is assigned and not stored lies in kept bytes and
beside the handler's field; every other bit of a kept byte is as in memory, unless the
handler may have come in between) and `ShownInv`.
- `ReadsCorrect`: ReadsCurrent.
- `FieldsAreIndependent`: `Spec => ImplementsIndependent`, the whole of it. A load maps to
  a stutter, a store to `Settle` of the assigned bits of its byte: what it puts back
  beside them is, by `CopyInv`, what was there.
- `ModeCorrect`: ModeIsSelected. `LastInv` says of every assignment that no other of the
  same field follows: once it is done, each bit of its field is, for the program
  (`Current`), the bit assigned - in the register while it is not stored, in memory after.
  That a store or a load leaves what is current as it is (`SameBits`) is `CopyInv` again,
  and the handler has a field of its own. At the end nothing is left to store. What
  remains is numbers: a field shows the number whose bits were assigned (`ReadValue`), and
  `getWaveForm` joins what `setWaveForm` cuts (`Cut`). The provers know a power of two
  only if its exponent is a literal, therefore the sum of a field is taken apart bit by
  bit, for the one to three bits that the fields of timers have.

**`SysTickProofs`**
- `IInv` joins to `TypeOK`: `Nested` (the saved masks are 0 at
  the bottom and 1 above, FAULTMASK is 1 when one is held - without it the unlock of
  `time` could open anything), `HalfRead` (what `time` has read of the high half is
  still the high half: no tick has come between), `ZeroPends` (a counter at 0 has its
  tick pending, so a pending tick and a reloaded counter can be told apart),
  `ClockBehind` and `ReadingBound`.
- `ClockBehind` is what makes HalvesAgree inductive. `Settled` is the clock without the
  tick that waits, and `Behind(lost)` says that it is `lost` periods behind. The next tick
  is lost only if the last one waits for a whole period behind a lock, and then the lock
  has outlasted one more: while a tick waits, the periods that locks have outlasted
  (`late`) exceed those lost, or the lock has been held for longer than the tick has
  waited (`held`, `Since`).
- `TypeCorrect`, `ClockCorrect`, `ReadingCorrect` and `LocksCorrect` follow from `IInv`.
- `DelayLongEnough` (an action property) needs a second invariant on top, `Deadline`:
  `then` lies `wait` before the first reading, and since then `Settled` has not run down
  faster than the real time, the `error` of that reading apart. A lost tick only leaves
  it behind.
- `StartedClockCorrect`: all of these hold from reset on, in `Boot`. By `BootStep` every
  step of start-up is one of `SysTick`, or the store of `sysTickHigh` by `copyData`
  (`StoreHigh`), or the lock that is never released (`Masks`); the last two preserve
  `IInv` and `Deadline` too.
- `ClockRunsCorrect`: `BootInv` says which statuses are set in which phase, since every
  wait is for one of them, and one that was already set is cleared before it is
  waited for.

**`CDeviceFrameNoIntProofs`**
- `FramesAreTracked`: `IInv`. The characters on the wire say nothing of themselves about
  the message they belong to, so that the invariant says there is a function `g` that
  gives for every character on the wire how far its frame has come
  (`Position`: frame, index, state of the sender's machine).
  `WireInv`: neighbours are linked by one step of `transformOut`, by a mark or by an
  ignored flow control character (`Link`), with only damaged frames missing in between
  (`Follows`), and frames come in order (`Monotone`). `ThrInv`: the character in the
  transmit register leads from the last position to where `send` is. `RecvInv`: at the
  first position, the receiver's machine is in the state of the sender's or skips to the
  next frame, and its buffer holds what has come of the message; every undamaged frame
  behind an undamaged one that is past, and that fits, has been received. A step of the
  sender appends to `g`, one of the receiver takes off its head. It needs no induction
  over the message, which the encoding as one sequence would.
- `LayerIsChannel`: `Spec => Channel!Safe`, the safety part of ImplementsChannel. That an
  escaped mark is not the start mark is needed here: a receiver that skips a damaged
  frame would otherwise begin a message in the middle of one.

**`CDeviceFrameProofs`**: the two directions have an invariant each, over `Typed` (ranges)
and `Silent` (a direction that the program does not use is at rest, a byte that main has
loaded included).
- `LineCorrect`: LineIsFrames. `Filling` says of each `pc` of send what the message object
  holds already, `Waiting` that a message that was accepted and not begun is in it whole,
  with the frames of all others on the line, and `Underway` that behind those stands
  `Begun(m, i, t)`: the start mark and the encoding of the first `i` characters, and the
  escape character if the machine is in the middle of one. A step of `transformOut` is
  then `BegunNext`, the end mark `BegunEnds`.
- `ReceivedCorrect`: ReceivedIsSent. `RecvInv(p)` says that there is a *position* `p` in
  the peer's line - frame, characters of its message, in an escape or not - such that
  what has been taken up to `p` and what is still to come are the whole line; that the
  handler skips the frame or holds exactly the first `p.i` characters of its message; that
  a finished message is the one of `frame` until recv has read it; and that every frame
  read is an earlier one. `StepExists` and `NextItem` find the next position for the
  character that arrives, by going through the shapes of a frame.
- Both compare with concatenations of sequences (`FlattenSeq`), which are recursive
  functions. The induction theorems of the library take a predicate as their parameter,
  which the provers here cannot instantiate; `Induction` takes a *set* of numbers
  instead, and follows from the well-foundedness of `<` (`NatLessThanWellFounded`,
  `WFMin`). With it, `FlattenAppend` and `UpToNext` say what one more element does to a
  concatenation.
- The guards of the two properties are what the proofs need of a program, and each has its
  reason in the code. `OneByOne`: the program sends from its callback, or main one message
  under the lock; otherwise a second send may overwrite the first (`cdeviceframe.h:248`),
  or change it, even one that is empty, while the handler begins it. `TxKept`, `RxKept`:
  where main rewrites the byte of the two states, the handler of the other direction is
  locked out or has nothing to do; otherwise it is the run `device_bit_field`. A program
  that receives in its callback does not store `rx` from main and needs no lock for
  `TxKept`.

**`TextProofs`** about `Logging`:
- `IInv` is `StateInv` (ranges; which item is printed at each `pc`; what of the output
  object is constructed when), `LineInv` (every character put belongs to a message
  begun) and one part for each property: `CompleteInv`, `LockedInv`, `OwnInv`.
- `Core(o, T)` carries the last two. At any `pc`, `o` is what has been put and `T` what
  the object is to have put, and the base it is to have, when main's message is finished;
  `Core` says that what main is still going to do leads from one to the other. It takes
  `o` and `T` as parameters, since the same steps serve two countings: of all messages
  under the lock, and of main's alone without it. `Step(s)` is what every step of main
  does to any of them: it puts `s`, and `o \o s` is then on the way to the same `T`. Each
  action of main has a lemma that says so, and `StepKeeps` concludes for the invariant.
- In the middle of a number, `Halfway` says which digits are out: `ival` is what the
  number leaves modulo the power of the base behind `div`. That `div` is a power of the
  base, and not merely a number up to `ival`, is needed for the last digits. Both loops
  of `printIntType` multiply and divide within the width (`ModulusAssumption`): `div`
  times the base never wraps, because the loop goes on only while the quotient is at
  least the base.
- A handler that comes in (`Handled`) leaves main's part of `Core` alone if it leaves the
  base (`ptr` within it sets the base and sets it back) and the levels; that is what
  `MainUndisturbed` asks of handlers. An object under construction is in the state that
  `ObjectInv` gives for each `pc`; a handler that finds the flag clear constructs it
  itself, and main does so again, if the build has it so from zero (`ZeroStep`). In a
  `Sound` build what is flagged stays complete while main constructs it, which
  `CompleteInv` rests on.
- `WholeMessages`, `UndisturbedMain`, `CompleteHandlers`: AsIfAlone, MainUndisturbed,
  HandlersComplete. The digits of a number, what a list of items shows and what the
  messages begun show are recursive functions; `Induction` over sets of numbers, as in
  `CDeviceFrameProofs`, gives what they do for one more digit, item or message.

**`TextProofs`** about `Streams` (whose names `StreamSpec`, `StreamInit`, `entry`,
`reading`, `secPut` and so on are its own, because the module extends `Logging` too):
- `WritesValueCorrect`: WritesValue. `WriterInv` is about the line: what was sent for each
  finished item is its text (`Laid`), and what was sent and what is left of the current one
  together are (`Put`). The rest is arithmetic, `ItemFaithful`: the text of every item
  means the item. `Pow2`, the digits and the value of a text are recursive functions; each
  is shown to be the only sequence of `Steps` of a step function, by `Induction` over sets
  of numbers, and the facts about them (a digit more, a byte more, a width more) follow
  from one step. Of powers of two only these are needed: they grow, they double, and eight
  bits are a factor of 256. `DigitsLength` is why three characters for each byte of the
  type are enough: 256 is less than 1000. The least number of `int32_t` is
  excluded by `Writable`: its sign cannot be turned.
- `ReadsPieceCorrect`: ReadsPiece. `ReaderInv` says what the call at work has taken from
  where it began: spaces, then the sign and the digits (`NumberSoFar`) or the
  characters of the word (`WordSoFar`), and that `val`, `neg`, `found`, `word` are what
  these say; and that the results of all calls before were right (`Was`), which a line that
  only grows does not change. That a piece can be taken apart in one way only
  (`NumberParts`, `NumberPartsAre`) leads from there to the words of the property, which
  begin with the longest run of spaces. `val` is kept modulo `2^w`, and what is read is
  the number modulo `2^w` because each digit may be reduced by itself (`SignedDigit`).
- `ComesBackCorrect`: ComesBack, with both invariants before. `Edges` orders the beginnings
  of the items; `BackInv` says that once a program has waited the line changes no more
  (`Done`), and that every call that returned ended at `Past(k)`: behind the first character of
  the separator that follows, or at the end of the line. The next call therefore begins with what
  is left of the separator - nothing, or the second character of a newline, which is a
  space - and the number behind it. What it took
  is a number by the reader's grammar and begins an item by the writer's; `NumberUnique`
  and `WordUnique` say that these two ways to take the line apart are one.

**What TLC checks alone.** Liveness and fairness are out of the prover's reach: AllSent,
TakenUnderLock, AcceptedGetsOut, AllReceived, ReceiverIsFreed, DelayEnds, StartsUp and the
fairness part of ImplementsChannel. `TypeOK` of CDeviceFrame and Logging states the
ranges for a reader; no run lists it, and the first is contained in `Typed`, `SendInv` and
`RecvInv`.

## 6. Abstractions

- Characters in the buffers are numbered in the order in which they are put or arrive:
  loss, doubling and reordering are then visible in the output, and the code never
  looks at a character. In the frame layers characters are a small alphabet in which
  every class (start, end, escape, flow control, their escaped forms) occurs.
- Variables that the code does not have record history for the properties: `given`,
  `line`, `got`, `overrun`, `arrived`; `accepted`, `received`, `damaged`, frame
  numbers; `elapsed`, `clock`, `held`, `late`, `at`, `begun`, `error`; `given`, `seen` of
  RemoteRegMap; `line`, `emitted` of Logging. No guard of the code's actions reads them, bounds apart.
- Memory accesses happen in program order. What the compiler may move or drop
  (indices that are not `volatile`) is not modelled, except in LocalRegMap, where it is
  the point, and in Logging, where a build may set the flag of the singleton before the
  object is constructed (`Ordered`) and may leave out the stores of zero before it (`Zeroed`).
- Local register maps: the memory is what the program and the handler make of it; bits
  that the peripheral itself changes, or that clear when read or written, are not
  modelled. A window loads a byte once at most and the handler runs once. A byte is the
  unit of a load and a store; the map of the ARM, which may be accessed by words, is
  used under the lock only. Fields that are not near those of a program are left out
  of it.
- Streams: characters are their codes; the sum in `readInt` that overflows wraps around,
  which is what a build without checks does (the comment at l. 81 promises a wrong
  number), and the properties leave the value of -2^31 out. The transmitter and the line
  hold `Depth` characters.
- Boot: memory holds garbage before `copyData`, and `sysTickHigh` some of it; the store of
  `sysTickHigh` says which time it is, and from then on `clock` counts it, one down for
  each count. `disableInterrupts` is a lock
  that is never released. Registers are the fields that `clockSetup` waits for.
- In Logging the description of a level is one character, and a handler's message is
  put in one step as `Printed` defines it, which `AsIfAlone` shows main's to be. The
  output device waits until it is ready; LOGGING_DISABLE leaves nothing to model.
- The wire of `frame_channel` loses characters and, if the configuration has flow
  control, inserts them; it does not turn one into another.
- The model's time ends at the bound `MaxTime`; `sysTickHigh` does not wrap (at 2^32
  periods of 2^24 counts it does not in the life of a device).
- `Lock`/`Unlock` are one step each: they save and set FAULTMASK, and between the two
  instructions a handler that restores the mask changes nothing.

## 7. What is not modelled, and the plan

Not modelled: enumerations that name the values of one field, metaprogramming, build and
board files, the superseded frame machines (see the notes in `PROJECT.json`).
`RemoteRegMap::sync()` of all registers does not compile when it is used, and the classes
behind `SyncSensor` are not in the repository. `setps` of the system clock is two
instructions of an assembler text.

Planned:

1. `Eeprom` and `SyncSensor` beside the two-wire interface.
2. `FixPoint`, `Pid`, `memset`: `% 2^w` arithmetic, the window of errors as a ring.

## 8. Running the checks

    tlc -workers 2 -config COutBuffer.cfg MCCOutBuffer.tla
    for m in Ring COutBuffer CInBuffer RegMap SysTick \
             CDeviceFrameNoInt CDeviceFrame Text; do tlapm ${m}Proofs.tla; done

`PROJECT.json` names the module and the configuration of each run. The longest one,
`frame_channel`, takes one to two minutes; `TextProofs`, the longest proof, takes some
ten.
