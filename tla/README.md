# libbeacon in TLA+

Specifications of [libbeacon](../src/README.md), the C library that reads out
the DAQ board of the BEACON experiment, with TLC configurations and TLAPS proofs.
References of the form `beacondaq.c:1485` are to files of the repository.

## 1. The system

| Part | Code | State | Operations |
|---|---|---|---|
| Event readout | `beacondaq.c` 601-660, 930-1025, 1367-1440, 1449-1730, 1933-2194 | `next_read_buffer`, `event_counter`, `hardware_next` of the handle; the board's ring of `BN_NUM_BUFFER` event buffers, its write pointer, event counter and trigger enables | wait, poll, read, clear, software trigger, enable triggers, reset of the counters |
| Waiting and closing | `beacondaq.c` 879-1025 | `cancel_wait`, `wait_mut`, `mut`, the handle's lifetime | `beacon_wait`, `beacon_cancel_wait`, `beacon_close` |
| SPI transfer queue | `beacondaq.c` 141-401, 457-618, 1449-1786 | `buf`, `nused`, `current_mode`, `current_buf`, `mut` | `buffer_append`, `buffer_send`, `append_read_register`, the calls built from them |
| Data files | `beacon.c` 1-729 | a `FILE*` or `gzFile`, the caller's struct | `beacon_{header,event,status,hk}_{write,read,gzwrite,gzread}` |
| Opening a board | `beacondaq.c` 728-876 | device files, flock, GPIO, mutexes | `beacon_open`, `setup_xfers` |
| Reset and calibration | `beacondaq.c` 1888-2194 | delays of the ADCs, saved configuration | `beacon_reset` above `BN_RESET_COUNTERS` |
| Configuration registers | `beacondaq.c` 1030-1398, 2250-2700 | registers of the board | setters and getters of thresholds, attenuation, masks, veto, delays, trigger |
| Header, status decoding | `beacondaq.c` 1530-1647, 1730-1886 | none | bit fields to structs, approximate times |
| Fletcher checksum | `beacon.c` 23-56 | none | checksum of a body |
| Housekeeping | `beaconhk.c` | power state, `http_buf` | temperatures, currents, GPIO power, charge controller over HTTP |
| GPIO and ADC pins | `bbb_gpio.c`, `bbb_ain.c` | sysfs file descriptors | one system call each |
| Printing, examples, viewer | `beacon.c` 731-, `examples/`, `viewer.C`, `root/` | none | clients of the library |

**Interaction.** A DAQ thread calls `beacon_wait`, which polls the board under the
bus mutex until a buffer is ready, and then `beacon_read_multiple_ptr`, which for
each buffer appends register commands and reads to the transfer queue, sends
them, drops the mutex between channels, and finally clears the buffer with
`mark_buffers_done`. A status thread uses the same queue at the same time. A
signal handler or a third thread calls `beacon_cancel_wait`; the shutdown calls
`beacon_close`. What was read is written with `beacon_X_write`, and read back
much later, maybe by a newer release.

**What is hard.**

* *Two pointers into one ring.* Software's `next_read_buffer` and the board's write
  pointer are compared by nobody; they agree because of the order of the calls.
  The board stores events at any moment, also between the poll, the read of the
  header, the read of the waveforms and the clear.
* *Failed transfers.* A failed ioctl may have reached the board, leaves its
  commands in the queue, and many callers do not look at the result.
* *One queue, several threads.* A thread in an event read leaves its
  transfers in the queue when it drops the mutex. They point into its stack
  frame and depend on the buffer and the mode that the board has selected, of
  which the handle keeps two caches.
* *A flag without a lock.* `cancel_wait` is set and cleared by several threads and read
  three times by `beacon_wait`.
* *A calibration loop* whose steps can each fail, that changes settings of the
  client while it runs, and whose attempts move both pointers of the ring.
* *Packing by hand*: some forty registers, each packed and unpacked by its own
  lines of shifts and masks.
* *Static buffers*, of the web response and of GPIO handles, that live as long as the process
  and are filled by calls that can fail.
* *Files* that were cut short, that are being written, and whose records have older
  layouts or a length that depends on their contents.

**What makes each part correct.**

* Readout: each event the board stores is handed over once, whole, in order, and
  none is cleared before; both sides agree on the next buffer and on the event
  count; a buffer that was read becomes free again; every event is
  eventually handed over.
* Waiting: one waiter at a time; a cancel interrupts the wait it was meant for;
  success means data; cancelled waits and `beacon_close` end; no
  use after free.
* Queue: each call gets its own data, before it returns; no select command is
  left out that was needed; calls return.
* Files: what was written is read back, whatever happened to other records; no
  record is made up; old versions fill the newest struct properly.
* Reset and calibration: it ends, restores what it changed whichever of its steps
  fails, runs undisturbed, programs the delays that fit the clocks, and leaves both
  pointers in step.
* Registers and decoding: what a setter wrote is what its getter reads, whatever
  else was set; no setting shares a bit with another; times carry correctly.
* Checksum: a damaged byte, or two that have changed places, change it.
* Housekeeping: pins are reported as they are; the voltages of a request are
  those of its own response.

## 2. The modules

| Module | What it is |
|---|---|
| `EventReadout` | board and DAQ thread: ring, pointers, counters, failed transfers, reset |
| `EventStream` | abstract specification: a lossless, in-order stream of whole events |
| `MCEventReadout` | liveness and documentation claims about `EventReadout` for TLC |
| `EventReadoutProofs` | theorems about `EventReadout` |
| `BeaconWait` | `beacon_wait`, `beacon_cancel_wait` and `beacon_close` by several threads |
| `BeaconWaitProofs` | theorems about `BeaconWait` |
| `SpiQueue` | the transfer queue, the mutex and the two caches, under several threads |
| `SpiQueueProofs` | theorems about `SpiQueue` |
| `BeaconReset` | `beacon_reset` of every type, with the calibration loop |
| `MCBeaconReset` | two ADCs and four ways their clocks come up |
| `BeaconResetProofs` | theorems about `BeaconReset` |
| `BeaconFile` | files of records of four types and all versions |
| `BeaconFileProofs` | theorems about `BeaconFile` |
| `Fletcher` | the checksum of `beacon.c` |
| `ChecksumProofs` | theorems about `Fletcher` |
| `Registers` | bit by bit, what setters write and getters and readers take out |
| `BoardConfig` | setters and getters as calls that can fail, on the registers |
| `Housekeeping` | power pins and web request of `beaconhk.c` |
| `PoweredBoard` | composes `BoardConfig` and `Housekeeping` |
| `Clock` | start time of a reset and approximate trigger time |
| `MCPoweredBoard` | `PoweredBoard` on small values, with the decoding and `Clock` over samples |
| `RecordProofs` | theorems about `Registers` and `Clock`, and the samples of `MCPoweredBoard` |
| `PoweredBoardProofs` | theorems about `PoweredBoard`; extends `RecordProofs` |

Definitions whose comment begins with *Fault* are plausible mistakes in the code;
no specification uses them. They are there to check that the properties notice
such a mistake: each property below is violated when one of them takes the place of
the definition it varies.

### EventReadout

One action per step of the DAQ thread that talks to the board; `Trigger` may come
between any two. `Poll` is one turn of the loop of `beacon_wait`;
`ReadMultiple` or `ReadSingle` enters `beacon_read_multiple_ptr`, whose loop is
`ReadMetadata` (select the buffer, read its registers, advance both counters),
`ReadWaveforms`, `MarkDone`; `SyncIssue` is its "Sync issue?" branch. `ResetBegin`,
`ResetClear`, `ResetPtr`, `ResetCount` are the writes of `beacon_reset(d,
BN_RESET_COUNTERS)` in their order. Each has a variant that fails (`...Fails`, `ResetAbort`):
the board has executed it or not, the commands stay in `queued` if they went
through the queue, and the caller does what the code does with the error:
returns (`CHK`), ignores it, or uses an uninitialized result.

The board is external and is what the code relies on: it stores an event
in the buffer its pointer names if that buffer is free, goes on to the next, and
forgets a buffer that is cleared. An event is its serial number and the
board's count at the time.

The promise of the readout cannot be kept by a client that clears unread
buffers, or across failed transfers. The history variable `clean` is
TRUE as long as there was no failed transfer and no call out of order since
`beacon_open` or the last complete reset, and the safety properties hold while it
is. A reset whose own writes succeed, with the external trigger input off and no
clear command left in the queue, makes it TRUE again: that this is enough
to get back into step is part of what is checked.
`EventStream` says the same with a queue: `Store`, `HandOver`, `Free`, `OutOfSync`,
`Resync`. In the refinement `freed` is `stored - Cardinality(full)`.

Left out: the second (slave) board, as `NBD(d)` is 1 in this tree; sleeps; the fields of the
header other than the event's identity and count.

### BeaconWait

One action per access to `cancel_wait`, `wait_mut` or `mut`. A waiter goes through
`check` (the pending cancel at line 960), `poll`, `send` and `seen` (lock, poll,
loop condition), `finish`, `clear` and `unlock` (lines 999-1003). `CancelWait` may come
at any step. `Users` make other calls that hold `mut`. `beacon_close` is
nine steps; its `pthread_mutex_destroy` of a mutex that is held returns EBUSY and
leaves it as it is, and locking a destroyed one is taken to fail at
once, a result nobody looks at. A ready buffer is a Boolean that the board may
change at any time. A wait with a timeout may stop after any poll.

### SpiQueue

A call is a list of sections between a `USING` and a `DONE`; a section appends its
`Entries`, flushing first when the queue is full, and ends with a
`buffer_send` or, for the channels of an event, without. `buffer_send` is one step
per transfer of the ioctl, in which the board selects or answers, and a step
that succeeds (`TransferDone`) or fails (`CheckFails`, `SendFails`, `AppendFails`,
`RawFails`, by what the caller does with the error). `enable_locking` FALSE is a
handle without mutex used by one thread.

What is received is the pair of what it is (a register, the waveform of a channel)
and the buffer selected at the time. One address-and-read pair
stands for all the chunks of a channel.

Not modelled: `do_write` and `do_read`, which bypass the queue; several threads that
read events. The latter is not safe: an event read that finds `current_buf`
changed selects its buffer again without noting it (`beacondaq.c:1666`), so that a second
reader may take its own buffer for selected. `Readers` therefore has one thread in
the run.

### BeaconFile

A file is a sequence of cells, a cell being one field. `Flush` moves any part of the
record being written to the disk, `CutShort` loses the rest, `Read` is a whole
`beacon_X_read` on what is on disk: `packet_start_read`, the body (for events
whose length depends on `buffer_length` and `board_id`), the checksum, and the
fields set after a body of an older version. Records of older versions are
in the file as older releases wrote them. The checksum is
injective here: what the real one misses is the subject of `Fletcher`, which `BeaconFile`
extends. The magic occurs as a value in bodies, so that a reader that is off
by some fields can go astray.

### Fletcher

`stupid_fletcher16_append` byte by byte, in its widths: two sums, the second of which is
added to where Fletcher's is assigned (`+=`), kept in 16 bits while a piece is summed and in eight from
one piece to the next. `ChecksumDetects` claims what is left of a Fletcher sum: any changed byte (but
0 for 255), and two bytes at the end that change places, unless they
differ by 127 or 128. The `+=` is not a Fletcher sum, but reader and writer share
it, and as long as the second sum stays in its 16 bits it costs only these last cases: for two bytes at the end of a
piece of up to 257 bytes, whatever came before (section 5). Beyond that the sum may wrap, and nothing is claimed of a
swap there; the first sum, and with it the detection of a changed byte, does not depend on the length.

### BeaconReset

One action per write or call of `beacon_reset` (`beacondaq.c` 1888-2194), each with its
failure: the reset of the board (`GlobalReset`, `AlmostGlobalReset`), `ReadoutOff`, `ClearAll`,
`ResetPointer`, then the calibration: `SaveSettings`, `MaskTriggers`, `PulseOn`; the
loop `Attempt`, `SwTrigger`, `Wait`, `Read` and `Mark` or `SyncIssue` (inside
`beacon_read_single`), `Reject` or `Accept`; and `Restore`, `Reclear`, `Unmask`,
`ResetCounters`. `GiveUp` is the loop after `MAX_MISERY` attempts.

What the loop measures is abstracted to the sample at which each ADC sees the pulse of the
calpulser; where that is depends on `phases`, how the ADC clocks came up, which every
reset of them changes. An event of another trigger shows no pulse, a buffer that is not full
shows anything. `faulty` is TRUE when a transfer of this call failed, or one of an
earlier call is still in the queue; `upset`, when in addition something other than the loop's own pulse came
in: then nothing is claimed of the delays. Each property names which of the two it needs, and the one about
the handle's buffer length needs neither.

Both channels of an ADC see the pulse at the same sample; the code averages them. The reset
leaves out the second board and the sleeps; the counters themselves are in `EventReadout`.

### Registers, BoardConfig

A layout is a set of pieces, each some bits of a field at some bits of a
register. For each setting `Writes` is transcribed from its setter and `Reads` from its
getter, and so are the parts of header, scalers, status and firmware
information. `HeaderLayout` is what the comments of the register map
(`beacondaq.c` 60-75) say the board puts there. `Packed` and `Unpacked` are the shifts and masks.
A field has a width, and `Unpacked` cuts what it is given to that width, as the assignment to a bit field does. `ReadWhole` says
that all bits of a field are read, and `Lost` is what is taken from a register for bits a field does not have.

`BoardConfig` makes calls of them: settings written at once (`SetDirect`) and through the
queue (`SetQueued`), the attenuation with its second command and its deadlock
(`SetAttenuation`), the getters (`Get`). A failed queued transfer leaves commands in the queue
that point into a stack frame that is gone: the next transfer may write anything to any register (`Garbled`).
`want` is the value last set of each setting, and unknown after a fault.

### Housekeeping, PoweredBoard

`QueryGpioState`, `SetGpioPowerState`, `RebootOff` and `RebootOn` are the calls on the pins, with
`setup_gpio`, which runs once and may miss a pin. The web request is
`HttpBegin`, one `SaveHttp` per piece libcurl hands over, and `HttpDone` or a
failure, with the size of the static buffer and the end of its text. A device is a kind, a voltage and a
size; `BattV` is `parse_json_number_like_an_idiot` on it. `PoweredBoard` puts the two parts on one thread:
switching the FPGA off loses the registers (`PowerCycled`) and setters that reach
no board cannot tell.

### Clock

`AvgTime` and `ApproxTriggerTime`, with the number of nanoseconds in a second, the board's clock and the 32 bits of the
sum of the seconds as parameters, and `RES`, the steps to a second of a double of the size of today's
seconds. The seconds of a trigger are cut from a sum that is rounded to such a step (`DoubleSum`), its
nanoseconds from the time since the reset alone: in the last ticks of a second
(`RoundsUp`) the two disagree. The quotient itself is exact here; in the code it is a double, good to a nanosecond
for the first seven weeks after a reset.

## 3. The runs

All runs were made with 2 workers; each ends within two minutes.

| Run | Module | Properties | Result |
|---|---|---|---|
| `Readout` | `MCEventReadout` | `TypeOK`, `IInv`, `NoSyncIssue`, `NothingLost`, `NoBufferLeak`, `CounterTracksBoard`, `HardwareAgrees`, `DeliveredInOrder`, `ImplementsStream` | holds, 4.3 M states |
| `ReadoutLive` | `MCEventReadout` | `HandedOver` | holds |
| `Wait` | `BeaconWait` | `TypeOK`, `OneWaiter`, `CancelInterrupts`, `SuccessHasData`, `FreedAfterWait`, `WaitInv`, `CancelEndsWait`, `CloseReturns` | holds, 0.74 M states |
| `Files` | `BeaconFile` | `TypeOK`, `ReadBack`, `NoFalseRecord`, `StoredKept`, `MissingZero`, `ChecksumDetects` | holds, 2.0 M states |
| `SpiShared` | `SpiQueue` | `TypeOK`, `OwnData`, `NoLateReceive`, `CachesHold`, `CallsReturn` | holds, 0.9 M states |
| `Reset` | `MCBeaconReset` | `TypeOK`, `SettingsKept`, `QuietCalibration`, `DelaysMatch`, `InStep`, `ResetReturns` | holds, 1.1 M states |
| `Board` | `MCPoweredBoard` | `ReadsBack`, `RecordsTrue`, `TimesTrue`, `PowerTrue`, `ChargeTrue` | holds, 1.4 M states |
| `ReadSingle` | `MCEventReadout` | `ClearsOnlyHanded` | violated |
| `PollStale` | `MCEventReadout` | `PollDiscardsNothing` | violated |
| `WaitClose` | `BeaconWait` | `LocksLiveMutex` | violated |
| `FileHeader` | `BeaconFile` | `VersionsHandled` | violated |
| `SpiReturn` | `SpiQueue` | `CallsReturn` | violated |

**Bounds.** `Readout` has two buffers and four events, so that the ring is full, wraps
around twice and stays full for a while, with one reset and one failed transfer at any
step (the reset may come after the fault: the recovery is exercised). `MaxReads` bounds
`event_counter` when a read starts: a read of two events may take it to four.
`ReadoutLive` has three buffers, five events and a reset, without faults: after a
failed poll or read nothing is promised until the next reset. There `MaxReads` is
`MaxTriggers`, so that no event goes unread for want of reads. `Wait` has two waiters, a user of the mutex, three waits, a
cancel and the close: enough for a second waiter between any two steps of the
first, and for a cancel that is left over for a later wait. `SpiShared` has a queue of five
transfers, less than two channels need, as in the code (511 for about
one and a half channels), so that every append of an event read comes to flush; two
channels, two buffers, two calls per thread, so that the other thread may select the
other buffer between the channels, and two failed ioctls, so that a retry
can fail again. `Files` has 13 cells: two or three records, or one and the torn part of others, of
both board values and both lengths. `Reset` has two buffers, two ADCs and two attempts, so that the ring
wraps and the second attempt follows a rejected one; the clocks come up at the same sample, 3 apart (a delay the register
holds), 16 apart (accepted, and not held) or 17 (one too many); two resets of any type, so that
one finds what the other has left, and one trouble, a failed transfer, an event of another trigger or one that comes late,
at any step. `Board` has three calls, so that two setters may come before a getter or a power
cycle between them, with one failed transfer and one failed pin access; two beams and three scaler kinds keep the
number of scalers odd, as in the code, so that the last register is half empty; responses have up to two devices
of any kind in pieces that outgrow the first allocation.

Decoding, times and checksum are only computed: `RecordsTrue`, `TimesTrue` and `ChecksumDetects` are statements over
samples, evaluated in the initial states; section 5 proves what they sample for all values. Each field is set alone, to a pattern and to all
ones; times cover every instant of two seconds of ten nanoseconds with a clock that does not divide
them, a 32-bit sum scaled to 4, and two steps of a double to a second, so that one tick in seven rounds up.

**Deadlock** is checked in `Readout`, `ReadoutLive`, `ReadSingle`, `PollStale`, `Wait` and
`WaitClose`. It is not in `Files` and `FileHeader`, where a writer and a reader have
nothing more to do when the bound is reached and all is read, nor in `SpiShared` and `SpiReturn`,
where all threads may have made their calls and where a mutex that was kept after a failed
ioctl does stop every thread. It is not in `Reset`, which ends after its calls or at a mutex that was left
locked, nor in `Board`, where the calls are bounded, a thread may wait for a mutex it
holds, and the process may crash on a handle it lacks.

**Fairness.** `ReadoutLive`: the DAQ thread goes on (`WF_vars(DAQLoop)`); it runs a loop
of `beacon_wait_for_and_read_multiple_events`, or is inside a call. Nothing is
assumed of the board. `Wait`: a thread inside a call goes on; nobody has to begin
one. Weak fairness of the lock steps is enough as the other calls are
bounded; pthread mutexes promise no more. A wait without timeout need not
end if nobody cancels it. `SpiShared` and `SpiReturn`: a thread inside a call goes on; `Begin`
is not fair and no fault is. `Reset`: the thread goes on with a reset it has begun (`WF_vars(Reset)`), and the
board stores an event it has begun (`WF_vars(Store)`). In the code the timeout of `beacon_wait` ends a wait for an
event that is late; the model counts such a wait as a trouble, of which there are few, so that it
needs the second condition. `WF_vars(Reset)` also makes every single wait of a calibration end, after about a second: that is
taken for granted, as the formula for `waited` (`beacondaq.c:995`) gives it for most clock readings and not for all. A trigger that does not reach the board begins no event, and nothing is assumed of it.

## 4. What the runs show

*Holds.* While reading is in order, the pointers of the board and of the library never
part, and no event is lost, doubled, or mixed from two, although triggers come
at any moment; after a failed transfer nothing is promised until a reset, which brings both sides back into step. A cancel that
comes while a thread polls makes that wait return EINTR, whoever else calls
`beacon_wait` meanwhile. Any number of status, register and raw reads may interleave
with one event reader. A record that was cut short never makes a reader return a
record that nobody wrote. A reset of any type returns, gives back the buffer length and the trigger enables that it
found, turns the calpulser off if it calibrates, and leaves both
pointers in step and delays that fit the clocks, whichever attempt succeeded. Every
setting is read back as it was set, within the bits that are written. Power and
battery voltages are reported as they are.

*Disagreements between code and documentation*, each with a run:

* `ReadSingle`: the "Sync issue?" branch (`beacondaq.c:1485`) skips the read of a buffer but
  not its clear.
* `PollStale`: `buffer_send` keeps its transfers when the ioctl fails (`beacondaq.c:368`);
  a poll may then send a clear command for a buffer that has been filled again.
* `WaitClose`: `beacon_close` destroys `mut` (`beacondaq.c:896`) before it waits for the
  thread inside `beacon_wait`, which needs it.
* `FileHeader`: a version 0 header leaves `veto_deadtime_counter` unset (`beacon.c:250`), and
  a version 1 header loses two fields it has (`beacon.c:257-258`). The reader of version 0
  status does the same to `board_id` (`beacon.c:504`). `StoredKept` and `MissingZero` name
  exactly these fields as exceptions (`Overwritten`, `Forgotten`).
* `SpiReturn`: `beacon_clear_buffer` locks a mutex that is not recursive twice (`beacondaq.c:1719`).

*Others that the models have as transitions*, without a run of their own:

* A wait that is cancelled before it starts leaves `*ready` unwritten, and
  `beacon_wait_for_and_read_multiple_events` goes on with an uninitialized mask
  (`WaitNotRun`).
* `beacon_reset` sets the board's event counter to zero and not `d->event_counter`, which "should
  match device" (`beacondaq.c:148`): `CounterTracksBoard` has the difference as `drift`.
* `beacon_phased_trigger_readout` returns 0 when its write fails, and `beacon_reset` goes on with
  the trigger on (`ResetBeginFails`).
* A cancel between lines 999 and 1002 is cleared unseen, and one after the last poll returns
  EINTR together with a mask that is not zero (`Finish`, `ClearCancel`).
* `CHK` and two early returns of `beacon_read_raw` leave the mutex locked (`CheckFails`, `RawFails`),
  which is why `CallsReturn` is claimed only as long as no ioctl fails.
* A queue replayed after a failed ioctl selects its buffer behind the back of another thread's
  event read: `OwnData` is claimed, after a fault, only for a thread that is alone (`Undisturbed`).

* After a global reset `current_mode` is that of before, and the next waveforms are read in register mode; a global
  reset that fails leaves its command in the queue (`GlobalReset`, `Read`).
* A lag of 16 samples is accepted and its four bits are 0, with the enable bit set; a lag of 0 is not
  written, so that an ADC keeps the delay of an earlier calibration (`beacondaq.c:2120`, `DelayField`, `Programmed`).
* `beacon_set_attenuation` locks twice as well (`beacondaq.c:1240`): on a thread-safe handle it writes the
  registers, never applies them and does not return (`SetAttenuation`).
* `beacon_set_ext_trigger_in` writes one bit of the low byte of `trig_delay` (`& 8`, `beacondaq.c:2257`), and the holdoff and the
  pretrigger lose their upper bits while `beacon_get_pretrigger` returns all of them (`Held`).
* The approximate time of a trigger in the last 3 of the 31.25 million ticks of a second since the reset is one second late
  (`beacondaq.c:1589-1590`, `RoundsUp`): `TimesTrue` names it as an exception.
* A calibration turns the calpulser off at its end, also when the client had it on (`beacondaq.c:2138`): it is not
  restored (`Restore`; `Init` has it on or off).
* `beacon_fwinfo` takes eight bits for the day of the firmware and `date.day` has five (`beacondaq.c:865`, `beacondaq.h:81`): the
  upper three are lost, which a day of a month never has. `RecordsTrue` names them (`Lost`).
* `setup_gpio` is never tried again after a failure, and `beacon_reboot_fpga_power` uses the handle
  without looking (`beaconhk.c:59`, `RebootOff`).
* A response without an inverter gives the voltage of another device (`beaconhk.c:197`), and one that is empty gives those of the request
  before (`BattV`, `HttpDone`).

*Noticed while reading*, and not in a model: `poll_interval = 500` is erased by the `memset` on the next
line (`beacondaq.c:729`), so that polling yields by default; the mask argument of
`beacon_set_thresholds` is ignored (`beacondaq.c:1107`); `reverse_buf_bits` discards its results
(`beacondaq.c:1195`); `beacondaq.h` declares `beacon_set_trigger_holdoff` (line 397) and `beacon_get_buffer_length` (line 185),
which are defined under other names.

## 5. The proofs

`EventReadoutProofs` proves, for every `NumBuffer > 0`, every set of optional calls and all
bounds, the theorems `TypeCorrect`, `InvCorrect`, `LosslessReadout`, `SyncIssueFree`,
`LeakFreeReadout`, `CounterCorrect`, `PointersAgree`, `WholeRecordsInOrder`, and
`Refinement`: `Spec => Stream!Spec`. The assumptions are those of `EventReadout` on
its constants.

None of these properties is inductive. That the next buffer in software's order is the oldest
full one depends on where *all* full buffers lie, so the invariant `IInv` says: the full buffers are
a chain of consecutive events in ring order that ends at the board's pointer
(`Ring`), software's pointer is at its head (`Head`), what is left of the mask is a
prefix of it (`MaskCovers`), the two counts differ by a constant (`Counters`); and, for the
resync, that the trigger stays off while a reset whose writes succeed is under way
(`Quiet`). The two hard steps are lemmas: a store extends the chain (`RingStore`), a clear
removes its head (`RingClear`); the cardinality facts come from `FiniteSetTheorems`.

`BeaconWaitProofs` proves, for any sets of waiters and users, `InvCorrect`, `MutualExclusion`,
`TypeCorrect`, `CloseWaits`, `CancelWorks`, `SuccessMeansData`. The invariant `WaitInv` says who owns `wait_mut`
(`WaitLock`), that a cancel that came during the polling is in the flag, then in the local copy,
then in the result (`CancelKept`), and that a wait that left its loop still has its
reason (`ReasonKept`).

`SpiQueueProofs` proves, for any number of threads, channels, buffers, calls, faults and any `MaxXfers > 0`:

* `TypeCorrect`, with the mutual exclusion that it needs (`Types`): what a thread may append, and that the queue does not
  outgrow its array although appends flush it in between.
* `CachesAreRight`: with at most one thread that reads events (the assumption `OneReader`), a select command that is left out
  is not needed. The cache tells what the board *will* have selected, so the invariant
  `CacheInv` relates it to the last select command in the queue, or the board if there is none, and says that what was
  executed of the queue is what the board has. It needs `Selecting`: only an append changes what will be
  selected. The mutex is not needed for it.
* `NothingIsLate`: without failed ioctls no transfer receives for a call that has returned (`NothingLate`): all
  receiving entries are those of calls under way, and a call sends in its last section.
* `CallsGetTheirOwn` (that is `OwnData`, also under `OneReader`): a call that reports success has what it asked for. The
  invariant `DataInv` looks at one line of entries, what the queue has still to execute followed by what the thread
  has still to append in its section (`Line`), which an append only moves along. Each transfer in it that receives for the
  call receives the right answer when the board executes the line up to it (`Promise`: `Puts` says what the board then
  has out, by its last select commands), and each slot is filled, or awaited in the line, or belongs to a section still
  to come (`Cover`). When an event comes to its clear, nothing is awaited any more (`Complete`). The append of another thread's
  section keeps this because `CacheInv` says what its select commands leave selected. `Sound` is the condition of
  `OwnData` (`Undisturbed` after a fault).

`BeaconResetProofs` proves, for any ring, ADCs, phases, number of attempts, resets and faults, `InvCorrect`, `TypeCorrect`, `SettingsComeBack`,
`CalibrationIsQuiet`, `CalibrationCorrect`, `ResetResynchronizes`. The properties speak of the end of a call or of its loop;
the invariant `ResetInv` says where the settings of before are at each step (`LengthKept`, `EnablesKept`, `PulseKept`,
`ReadoutStaysOff`), that what a failed transfer has left is known (`FaultsNoted`), which steps belong to which type (`TypeFits`), that both
pointers move together through the steps of an attempt and which buffer the event is in (`RingInStep`), and
that the event that is judged, if undisturbed, was made with the clocks as they are (`DelaysFollow`).

`BeaconFileProofs` proves `StoredIsKept` and `MissingIsZero` for any `Values`, any number of channels, lengths and cells: whatever
the file holds and wherever the reader stands. The properties are inductive once the
types of file, struct and results are (`FileType`). `NothingMadeUp` (that is `NoFalseRecord`) and `TypeCorrect` need to
know what the cells of the file are. The file ends with what the record under way has on disk (`UnderWay`),
and each checksum in it, wherever it stands and whatever was cut short around it, belongs to a record that was begun, with the
version in front of it, later ones to later records (`Framed`). A read that succeeds has compared a checksum, so it has
found that record and no other, and it leaves the reader behind this checksum.

The same module proves `WrittenIsReadBack`. The invariant says where each record that is to be read back lies in
the file (`Laid`), and that a reader that has not run into an unfinished record stands at the end of one of them, having
returned those before, or has returned them all (`Behind`). Its two lemmas about the reader say that a record
that is there as a whole is read, to its last cell (`WholeIsRead`), and that one of which only a part is there is
found too short, whatever part (`PartIsShort`).

All of this takes the checksum to tell any two bodies apart, as `BeaconFile` does. What the real one tells apart is proved in
`ChecksumProofs`, for any bytes, lengths and ways to cut a body in pieces: a byte that changes, but from 0 to 255 or back, changes the
low byte of its piece's checksum (`ChangedByteIsSeen`), the pieces that follow do not make up for it (`DamageStays`),
and so the checksum of the body differs (`ChangeIsSeen`); the low byte is the sum of all bytes (`FirstSumOfBytes`);
and the last two bytes of a piece that change places change its checksum, unless their difference is one of `Unseen`, while the
second sum has room in 16 bits (`SwapIsSeen`). `ChecksumDetectsDamage` is the property of the run, from these. The
last piece of a sample has three bytes, so that the room is there.

`RecordProofs` proves `GettersInvertSetters`: for any numbers of beams and scalers (with an odd number of scaler fields, the
assumption of `Registers`), any value of a setting and any words in its registers that agree with what the setter writes, the getter
returns the value, but for the bits that `Held` cuts. A register is a sum over the pieces of the layout; that a piece
comes out of the sum needs that no two pieces share a bit, which is shown for each of the fifteen settings
and for header, scalers, status and firmware information; that nothing is cut off at the end needs that no field is given more
bits than it has (`Fits`), which fails for the day of the firmware alone. `RecordsAreTrue` follows (`RecordsTrue`). `StartTimeIsMiddle` and
`TriggerTimeFollows` are about any number of nanoseconds, clock, count and precision, while the sum of the seconds
fits its 32 bits, with the exception of the last ticks (`WholeSeconds` says which: the rounded fraction is a
whole second if and only if `RoundsUp`); `TimesAreTrue` (`TimesTrue`) follows from them.

`PoweredBoardProofs` proves `InvCorrect`, `PowerIsTrue` and `ChargeIsTrue` for any voltages, sizes, calls and faults. The invariant
says that no answer of a query is older than a switch (`AnswerHolds`), and that the text is that of the
response under way as soon as its first piece is there, with room in the buffer (`TextFollows`). It also proves
`SettingsReadBack` (that is `ReadsBack`): as long as the value of a setting is known, its registers hold what its setter makes of it
(`RegistersHold` in `ConfigInv`), because no two settings share a register (`RegionsApart`) and after a
failed setter, whose stale commands may write anywhere, no value is known; `GettersInvertSetters` does the rest.

Folds, sums over sets and recursive functions are reasoned about without induction over an operator: the set of places at which the
claim fails, if there are any, has a smallest element (`WFMin` of the library), and the step to it contradicts
the one before. The sum of a function over a finite set is shown in this way not to depend on the order.

All proofs rest on the `ASSUME`s on the constants and on nothing else; TLC evaluates these in the runs.

*Only model-checked:* the liveness properties (`HandedOver`, `CancelEndsWait`, `CloseReturns`, `CallsReturn`, `ResetReturns`), for
which the prover lacks fairness and `ENABLED`. The safety invariants and action properties of the passing runs all have
a theorem.

## 6. What is not modelled, and the plan

Not modelled, and why:

* printing, examples and viewers: they have no state and only call the library;
* device files, flock and GPIO in `beacon_open`, and the analog inputs: one system call each; the conversions
  of analog readings (`V_to_C`, `V_to_mA`) and the free memory and disk space: floating point or formatted text, no state;
* the paths for a second board: `NBD(d)` is 1 in this tree;
* `do_write` and `do_read` next to the queue in `SpiQueue`: they take the same mutex, or none, and neither read nor change
  `buf` or `nused`;
* the sum `waited` in `beacon_wait` (`beacondaq.c:995`): it subtracts nanoseconds from seconds, and no
  specification of it could be more than its text. A wait with a timeout may therefore end after any poll;
* a `buffer_length` in a file that is larger than `BN_MAX_WAVEFORM_LENGTH`. The reader takes it as it is
  (`beacon.c:403-409`): it would read past the waveform in memory and give `memset` a negative length. `BeaconFile` has the
  lengths that a writer uses;
* a wait of `beacon_reset` that is cancelled, or finds another one (EINTR, EAGAIN, EBUSY), the latter of which leave the mask
  uninitialized (`beacondaq.c:2041`): one thread uses the handle of `BeaconReset`;
* the upper byte of a trigger mask, which `beacon_set_trigger_mask` drops without a word (`beacondaq.c:1076`): there are 24 beams
  at most, and the mask of `Registers` has 24 bits;
* thresholds of 2^31 and more, which the cast to `int` makes negative and which escape the cut
  at `beacondaq.c:1110`: the values of a setting are up to 21 bits.

Left for later: several readers of events on one handle with a lock of their own around each.
