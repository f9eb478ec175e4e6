# Verification of tcluvc

tcluvc gives Tcl scripts access to USB video cameras. It consists of a Tcl
extension, `src/tcluvc.c`, and of a modified libuvc, `src/libuvc/`, on top of
libusb. This directory holds TLA+ models of both: of the parts where threads,
callbacks and resources meet, and of the computations on descriptors, controls and
pixels on which what a script sees depends. TLC configurations check them on small
instances, and TLAPS proofs establish the most important results for all instances.

## 1. The system

| Component | State | Operations | Threads and interaction |
|---|---|---|---|
| Streaming engine, `stream.c` | the stream handle: `running`, 100 transfers and their release marks, two frame buffers with `seq` and `hold_seq`, a mutex and a condition | open, start, stop, close, poll; `_uvc_stream_callback`, `_uvc_user_caller` | application threads, the callback thread, the libusb event thread |
| Payload assembly, `stream.c` | `outbuf`, `got_bytes`, `fid`, `pts`, `last_scr`, the hold copies | `_uvc_process_payload`, `_uvc_swap_buffers`, `_uvc_populate_frame` | called by the event thread with the mutex held |
| Negotiation, `stream.c` and `tcluvc.c` | the table of formats, the entry in use, the control block | `uvc_query_stream_ctrl`, `uvc_get_stream_ctrl_format_size`, choice of the alternate setting; `StartCapture`, `uvc format`, `listformats` | control transfers, which the camera answers as it likes |
| Contexts and devices, `init.c`, `device.c` | reference counts, open devices, claimed interfaces, the handler thread | init, exit, find, open, close, ref, unref | handler thread runs while devices are open |
| Descriptor parser, `device.c` | lists of formats, frames, units | `parse_vc*`, `parse_vs*` | none |
| Status callbacks, `device.c` | status transfer | `_uvc_status_callback` | event thread |
| Controls, `ctrl*.c` and `tcluvc.c` | a copy of the bytes of each control | 41 pairs of accessors; `uvc parameters` with a table of its own | control transfers; the camera changes controls too |
| Conversions and photo images, `frame*.c` and `tcluvc.c` | the last frame, photo images, byte arrays; `orientation`, `mirror`, `greyshift` | `uvc_any2rgb` and its kin, `GetImage`, `image`, `tophoto`, `mcopy`, `mbcopy` | the callback thread converts, the Tcl thread shows |
| Capture, `tcluvc.c` | the `TUVC`: `running`, `tid`, last frame, events in flight and their count, `update-mode`, `convmode` | open, start, stop, close, image, parameters; `FrameCallback`, `FrameReady`, `FrameReady0` | Tcl thread and libuvc callback thread; `uvcMutex` |
| Recording, `tcluvc.c` | `rstate`, `ruser`, the channel, AVI sizes and index | record start, pause, resume, stop, frame; `WriteFrame`, `FinishRecording` | both threads may write; `rmutex` |
| Device table, `tcluvc.c` | `devs`, `devsNeedRefresh`, listen callback | `UdevMonitor`, `UdevScan`, devices, listen | events of udev on the Tcl thread |
| Diagnostics; initialization, demos, build | library handles | printing; `Tcluvc_Init` | none |

The hard behaviour is in the first group and in capture and recording.
A camera completes transfers on the event thread of libusb; their data become
frames, which the callback thread of the stream hands to `FrameCallback`; that
converts or records the frame, swaps it into the `TUVC` and queues an event,
which makes the Tcl thread evaluate a script, which may do anything: fetch the
image, stop or close the device, start a recording, or run the event loop again.
What makes each component correct (section 3 lists where the code falls short of it):

* streaming engine: no transfer or handle is freed while libusb or the callback
  thread uses it; frames reach the callback in order, each at most once, and one that
  is published is delivered or overtaken (but for frame 0 of a start, which the code
  loses); a stop returns, and after it the callback does not run;
* capture: a frame always has exactly one holder; the most recent image is the
  one a script gets; as long as images come, scripts are told; no event and no
  thread refers to a closed device;
* recording: the channel is open while it is written to, by one thread at a time;
  recording stops with the capture and resumes with it; an error state means an error;
* device table: plugging and unplugging is announced once, and the table agrees
  with the bus;
* devices: reference counts reach zero exactly once; the handler thread lives as
  long as a device is open, and ends;
* negotiation: the frames that arrive are those the script chose, and are decoded as
  what they are, whatever the camera answers; the transfers have room for them;
* controls: the table of the extension and the code of the library mean the same
  bytes; a setting changes what it names and nothing else;
* images: a picture shows the scene, turned as asked, by whichever command it was
  made, and no byte outside a frame is read.

`PROJECT.json` lists the hazards, each at its line, with the properties
that would catch it.

## 2. Modules

| Module | Models | Kind |
|---|---|---|
| `StreamContract` | what a stream promises the owner of a frame callback | abstract specification |
| `UvcStream` | the streaming engine, with libusb as its environment | detailed, implements `StreamContract` |
| `UvcStream_proofs` | | theorems about `UvcStream`, also that it implements `StreamContract` |
| `UvcPayload` | how payloads become frames, and the consumer's copy | detailed |
| `UvcPayload_proofs` | | theorems about `UvcPayload` |
| `UvcDevice` | contexts, devices, claimed interfaces, the handler thread | detailed |
| `UvcDevice_proofs` | | theorems about `UvcDevice` |
| `TcluvcCapture` | capture, frame hand-off and recording control in `tcluvc.c`, on top of `StreamContract` | detailed |
| `TcluvcCapture_proofs` | | theorems about `TcluvcCapture` |
| `UdevTable` | the device table of `tcluvc.c` and the events of udev | detailed |
| `UdevTable_proofs` | | theorems about `UdevTable` |
| `AviWriter` | the AVI files of a recording | detailed |
| `UvcNegotiate` | from the descriptors of a camera to a stream that runs, with the format table of `tcluvc.c` | detailed |
| `UvcNegotiate_proofs` | | theorems about `UvcNegotiate` |
| `MCNegotiate` | cameras for it | instance |
| `UvcControls` | the controls of a camera, by libuvc and by `uvc parameters` | detailed |
| `UvcControls_proofs` | | theorems about `UvcControls` |
| `UvcImages` | conversions, photo images and byte arrays | detailed, with a reference definition of a turned picture |
| `MCImages` | cameras and scenes for it | instance |
| `Media_proofs` | | theorems about `AviWriter` and `UvcImages` |

Definitions named after another one with a suffix, as `WakeAll_Forgotten`, are that
definition with a slip in it; no specification uses them, they show that the
properties notice.

### UvcStream

Variables carry the names of the C fields where there are such. The others:
`handle` (allocated or freed), `usb` (what libusb does with each transfer), `ev`
(the transfer that is in `_uvc_stream_callback`, taken off the list of libusb but
not yet processed), `app`, `caller` and `poller` (program counters of the three
kinds of thread), `waiters` (the threads blocked on `cb_cond`), and the
history variables: `starts`, `fresh` (the frame in `holdbuf` is of this start) and
`got` (what the callback last got since its start: nothing, a frame of this start, or
one of an earlier start).

Every critical section of `cb_mutex` is one action, cut at
`pthread_cond_wait`. Everything outside the mutex is an action of its own:
the whole of `uvc_stream_start`, which takes no lock, is one action up to the
submissions, and one action per submission, so that transfers complete while
others are still to be submitted. `uvc_stream_stop` is
`StopRequest`, `_join`, `_cancel`, `_drain` or `_timeout`; the last two form the
loop around `pthread_cond_timedwait`. libusb may report any transfer at any time,
as completed, as to be retried, or as failed; as cancelled once that was asked
for; and after a disconnect only as gone or failed. `spurious_wakeup` is what
POSIX permits.

Not in the model: a start on a handle whose device is gone or whose last stop
gave up on transfers (the table of transfers would hold two generations), and an
application that closes a handle while another of its threads polls it.

### TcluvcCapture

One device, the Tcl thread and the callback thread. `cb` and `tcl` are their
program counters. `uvcMutex` protects `frame`, `numev` and the table of
events: its critical sections are single steps. `rmutex` is held across
the steps of `WriteFrame`. `rstate`, `conv`, `tid` and `running` are read and
written without a lock, and where the code tests one and acts later these are
two steps (`FrameCallback` and `FrameCallback_lock`; `record_pause` and
`record_store`). `evts` counts events in the Tcl queue that are still valid,
`idleCall` is the pending do-when-idle handler, and `evals` the callback scripts
under evaluation, which may be nested since a script may run the event loop. A script
may close its own device; those that do are counted in `orphans` until they end. If
one of them fails, `FrameReady` goes on to `StopCapture` with the freed `TUVC`
(`callback_fails_closed`): the Tcl thread is then `"freed"` and takes no further
step. (`Tcl_EvalEx` also reads the command in it to its end, which shows in nothing
that is modelled.) The history variable `restarted` marks a `FrameCallback` that has
tested `rstate` and is yet to write when a recording is started.

The stream below is `StreamContract`: `StartCapture`, `uvc_start_streaming`,
`StopCapture`, `uvc_stop_streaming` and `StopCapture_stopped` take its steps
`Open`, `Start`, `StopRequest`, `StopReturn` and `Close`, `FrameCallback` takes
`Deliver`, `FrameCallback_returns` takes `Return`. `UvcStream` is
checked to implement that contract, so that the two levels compose. The contract
ends with a disconnect, and so does this model.

A frame is a model value; `LIB` is the frame that lies within the stream handle
and `GONE` what a pointer to it means once the handle is freed. When
the program frees or reads what it may not, both threads go to `"undefined"`
and the model stops: what happens then is not predicted.

### UvcPayload

What `UvcStream` takes for one step, the publication of a frame, is here made of
packets. A camera sends frames of one or more data packets, with or without
end-of-frame bits, with headers before and after the data, or, as an iSight does, in
packets without data. Any packet may be lost, in error or bogus, which for the
code is the same (`DropPayload`). `outbuf` and `holdbuf` are sequences of packets,
each of which knows its frame and position, which the code does not: the
properties compare what was published with what was sent. `frame` is the copy of
the consumer with its allocation, which `_uvc_populate_frame` decides
upon by the size of the previous copy. The mutex is held throughout these
operations, so each is one action. Presentation times and clock references are
passed on unchanged and left out.

### UvcDevice

Below `UvcStream`: who runs the events of libusb, and what an open device owns.
The calls of one application thread are cut where the handler thread can observe
them: `uvc_open` at the submission of the status transfer, `uvc_close` into the stop of
the streams, the release of the control interface, the order to the handler thread,
`libusb_close`, the join and the release of the handle. `uvc_open` may fail at each
of its stages and then continues at its label `fail`. A stream is no
more than transfers that must come back before it can be closed, which is what
`UvcStream` shows under the assumption that events are handled: `HandlerWhileOpen`
is that assumption. `libusb_close` waits for running callbacks and drops what is in
flight; `kernel` is the set of interfaces that have their kernel driver. `uvc_exit`
is modelled as `tcluvc.c` uses it, after every device was closed: the function itself
reads a freed handle if one is open. With a USB context of its own, the application
is assumed to handle events all the time.

### AviWriter

What `TcluvcCapture` takes for one step that works or fails, the write of a frame,
is here a change of a file. `file` holds what a reader finds at each position: the
chunks, the AVIX headers, the first header, the index; `avi` is `tuvc->avi`. Only
sizes and positions are kept of a frame. The mutex of the recording is held, so
`StartRecording`, `WriteFrame` and `FinishRecording` are one action each, with
`CloseAVISegment` and `WriteAVIHeader` as operators that take the writer and the
file and give what they become. A chunk may come out short anywhere, the
index may fail to grow or to be written, an AVIX header may not be written or
not be corrected. That the first header can be written and rewritten, and that a
channel that could be sought once can be sought again, is assumed. `done` is the
file the last step closed; the properties read it as a player does. `torn` marks a
file whose headers or index could not be written, `gap` one whose index could not
grow. Whether a frame is due, and the average frame rate, are left out.

### UdevTable

The bus runs ahead of the events, and `UdevUVCName` mixes the two: vendor and
product come from the event, bus and device numbers from sysfs, thus from
whatever is at the port when the event is serviced. An entry is therefore a record
of the model and a number that may be missing. `UdevMonitor` has one disjunct for
each of its branches; `UdevMonitor_other` is the remove event of a hub, an
interface or a keyboard, which has no name and makes the code look for an
orphaned entry. The table is scanned by `Tcluvc_Init` and by `uvc devices` when
`devsNeedRefresh` is set. `known` is what a script believes that lists the devices
once and follows its listen callback from then on. Where udev is missing, or the
enumeration fails, nothing of this exists; these paths are not modelled.

### UvcNegotiate

One camera and one build, chosen in `Init`, and the thread of the script. The camera
is a record of its descriptors, its alternate settings and its manners: which
requests it refuses (`fails`), whether it takes what it is asked for (`obeys`),
what it says of payloads and frame sizes. `uvc_scan_streaming` applies
`uvc_parse_vs` to the blocks of an interface one after the other, as the parser
does, a frame going to the format that was opened last. `fmts`, the `FormatTable` made when the device is
opened (`OpenDevice`), is the table of `tcluvc.c`, on which `CMD_format`
and `uvc start` act. `StartCapture` is cut at its tries: `SkipFormat`, `TryFormat`
and `NoFormat` are what one pass of its loop over the formats does, and
`StartStreaming` opens the stream with the control block that was found (`Opened`).
The search (`Found`), the probes (`Probes`), the fix-up of a camera's answer
(`FixUp`) and the choice of the alternate setting (`AltSetting`) are operators.
`AfterFailure` is the index of the loop after a format that fails: it is incremented
twice, and every other format is passed over. The properties go through `Meant`,
which says what a camera means by a pair of indices, and not through the tables of
the program. The interfaces come from the camera with their blocks in the order in
which it sends them; a frame without intervals has a range of them.

`Listed` and `Owns` read the blocks without the parser: a frame belongs to the last
format before it. `CamerasAssumption` is that the descriptors are `WellFormed`, which
the device class asks and the code does not check: interfaces have numbers of their
own, frames come after a format, the two indices name one frame of an interface, and
intervals are neither 0 nor longer than a second (the code divides by them, and by the
rates that come of them). How cameras answer is restricted by nothing but types
(`AnswersAssumption`). A payload of 0 bytes fits an alternate setting without
bandwidth, and `uvc_stream_start` then divides by its packet size: `Opened` is `Crashed`,
and the model ends. `SizesKnown` is about cameras that say nothing of the frame size,
which `FixUp` then takes from the frame with the same indices in any interface. The
parser leaves that size 0 for a frame of a frame based format. If such a frame is found
for a format that libuvc can stream (two interfaces use the same indices, or a frame
based format has the GUID of one of the formats that libuvc knows), the transfers of an
isochronous stream may have no packets. `TransfersCarryData` says what holds of all
cameras, and what of those that name a payload and whose sizes are known.

### UvcControls

The bytes of a control, as three parties see them: the camera, the accessors of
`ctrl-gen.c`, each a list of field types (`Control`), and the table `UvcCtrlInfo` of
`tcluvc.c`, a type and a count. `uvc_set` and `uvc_get` are the accessors; a script
opens the device (`InitControls`), reads all controls (`GetControls`) and sets a list of
them (`SetControls`), which may be refused half way (`SetControls_fails`); and
the camera may change a control on its own (`CameraChanges`). A behaviour looks at one
of the controls beside `BRIGHTNESS`: their bytes do not meet, and the second one is
there so that lists have several members. Numbers are kept with their width and
sign, in both directions. A camera lacks units, and may answer the first reading
of a device for none of its controls.

### UvcImages

The only module in which a frame has bytes. `FrameCallback` converts a frame of each
of four formats by the arithmetic of the code (`Converted`; YUV in fixed point),
`GetImage`, `GetBytes` and `DataToPhoto` read a block with the pixel and line
distances the code computes for each of the rotations and mirrorings (`Rotated`,
`Oriented`), and `MCopy` and `MBCopy` combine pictures under a mask. `Orientation`,
`SetMirror` and `GreyShift` are the settings. A read outside the data gives `Outside`,
which is no byte: `ImagesTypeOK` and `PictureShown` fail on it. The reference is a picture
made by quarter turns and flips of the whole scene (`Picture`, `Turned`, `Flipped`)
with the colours of BT.601 (`Colour`); it shares nothing with the operators of the
code. Conversion happens in `FrameCallback`: with `convmode` 0 it is the same
arithmetic at another place, and the frame the library owns is what `TcluvcCapture` is
about. A grey picture is one of eight bits made of twelve: it shows the scene where the
shift drops at least four of them (`Legible`), and with less what is left of each
word's low bits. The names of the specification are `ImagesSpec` and so on, as a module
of proofs extends it together with `AviWriter`.

## 3. Runs

| Run | Configuration | Shows |
|---|---|---|
| `stream` | `UvcStream.cfg`: two transfers, two starts, three frames a start, all poll modes, unplugging | `TypeOK`, `NoDanglingUse`, `NoFreeInFlight`, `StopNeedsNoTimeout`, `CapturesInOrder`, `FrameReachesCaller`, `StopReturns`, `ImplementsContract`, and no deadlock |
| `capture` | `TcluvcCapture.cfg`: three frames, three events, callbacks nested once, both conversion and update modes | `FramesHeld`, `MostRecent`, `CountHasEvent`, `ClosedQuiet`, `CountReturnsToZero` |
| `record` | `TcluvcRecord.cfg`: the same with recording, one event | `RecorderMatchesCapture`, `OneWriter`, `ErrorMeansFailure`, `ChannelStaysValid`, `CommandReturns` |
| `payload` | `UvcPayload.cfg`: four frames of at most two data packets, two starts, all kinds of camera | `OneFrame`, `LosslessFrames`, `StaleDataOnce`, `FrameFits` |
| `udev` | `UdevTable.cfg`: two ports, two models, three plugs, one removal of another device | `ChangesArePending`, `ListenerKnows` |
| `device` | `UvcDevice.cfg`: two cameras, failures of one of them, two references each, contexts of either kind | `RefsExact`, `HandlerWhileOpen`, `StatusQuiet`, `DriversBack`, `CloseReturns`, and no deadlock |
| `avi` | `AviWriter.cfg`: six frames of two sizes, three chunks a segment at most | `SegmentsTile`, `IndexPointsAtFrames`, and no deadlock |
| `controls` | `UvcControls.cfg`: each of the 41 controls beside brightness, two values of either sign, with and without the units of the camera | `AccessorsAgree`, `SetsWhatIsNamed`, `WriteBackKeeps` |
| `negotiate` | `UvcNegotiate.cfg`: ten layouts of descriptors, the manners of `MCNegotiate`, builds with and without JPEG, three rates | `FramesAsChosen`, `TransfersCarryData`, `TableNamesFrames`, `ReachedFormatStarts` |
| `images` | `UvcImages.cfg`: a frame of each format, two scenes, all turns, three commands | `AnaglyphsAgree`, `PictureShown`, and no deadlock |
| `unplug` | `UvcStreamUnplug.cfg` | counterexample to `CloseEndsCaller`, see below |
| `convmode` | `TcluvcConvmode.cfg` | counterexample to `NeverUndefined`, see below |

A module whose `TypeOK` is in no run has it as a definition all the same: it is a
theorem of the module (section 4).

Bounds. Transfers are alike and independent of one another: two of them show a
partial failure of the submissions, an early and a late completion, and a stop
that waits for one while the other is released. Two starts show what one start
leaves to the next. Number 0 of a start is never delivered (see below); with three
frames a start (`MaxSeq`) two can be delivered in order, one of them can overtake the
other, and a frame of the second start can have the number of the one that the first
start left. Three frames are as many as can exist at a time: one in the
`TUVC`, one taken out, one in `FrameCallback`; if there were a fourth, a run would
be stuck without it, as `FrameCallback_convert` requires a free one, and
`FramesHeld` would show it. `MaxEvents` bounds the toggles of `update-mode` that
leave an event in flight. A callback within a callback (`MaxDepth = 2`) has every
kind of nesting that a deeper one has, since the code keeps no state per level.
Four camera frames are needed to lose a whole frame between two others and still
have one before and one after; two data packets give a frame a beginning
and an end that can be lost separately. Three plugs at two ports let a port be used
twice and the other once, with equal or different models: an entry can be
orphaned, mistaken for its successor, and looked for while another is pending.
Two cameras are enough to have one opened, or closed, while the other keeps the
handler thread busy, and to reuse a context after its last device; only one of them
fails (`FaultyDevs`), since what fails with one has no effect on the other.
Six frames make a first segment, a second that is closed when full and a third, of which
any may be the last; one size needs padding and the other does not. An index
that grows by one entry at a time meets a failure to grow at every entry.
One value of `UvcControls` fits into a byte and one needs two, and both come with
either sign, so that the width and the sign of every field matter. The layouts of
`MCNegotiate` are MJPEG beside YUYV in two sizes, a depth camera with two kinds of
grey, H.264 with a format that libuvc does not know, a default interval that is not
in the list, a frame based format that libuvc takes for one of its own, and so on, up to two interfaces that use the same indices; alternate
settings are those of a bulk camera, in increasing order, mixed, or without
bandwidth. A rate is below, between or above the listed
ones. The frames of `MCImages` have eight pixels, which the code converts at a
time, or, of a grey camera, three such lines, and all shapes: a turn that confuses lines with columns, or a mirroring
with the other one, moves some pixel. Three commands are two to fill both arrays,
or a photo and an array, and one that combines or shows them. Settings come before
the first command that writes (`Early`), as they act on what is read then and not
on what was written. The grey shift only concerns the camera with 16 bits a pixel; it
is 4, which is just enough, 6, or 2 to the left.
In the runs `capture` and `record` deadlock is not checked: the states
`"undefined"` and `"freed"` are ends of the model. Progress is covered by `CommandReturns`.
Nor is it checked where all may be over: `payload` after the last frame, `udev`
after the last plug, `negotiate` with a camera that cannot be opened or after a division by zero,
`controls`.

Fairness. Threads that can run do run, a thread that waits for a mutex or a
condition gets it at some time, and the application's callback returns:
without that no statement about stopping can hold, for the code joins the
callback thread without a timeout. libusb gives back transfers it was asked to
cancel, within the 5 seconds the code allows when `SlowCancel` is
`FALSE`. `uvc_stream_stop_timeout` is strongly fair because its deadline is
absolute: waking early does not postpone it. In `TcluvcCapture` the event loop is
strongly fair for the events of this device, at the top level of scripts: an
application may issue commands all the time but enters the event loop again and
again. Nothing obliges a camera to deliver, a user to unplug, or a script to call
any command. In `UvcDevice` the handler thread may always find another
event first, so that a cancelled transfer is given back under strong fairness; so is
`libusb_close`, for which libusb makes other threads leave it.

### Disagreements between the code and its documentation

Two have a run:

* `unplug`: after `LIBUSB_TRANSFER_NO_DEVICE` the stream does not count as
  running, so `uvc_stream_close` neither joins the callback thread nor waits for
  the other transfers before it frees the handle.
* `convmode`: with `convmode` 0, or a camera that delivers RGB or GRAY8,
  the `TUVC` keeps a pointer to the frame inside the stream handle, which is then
  freed by `uvc_free_frame` or used after the handle is gone.

Others have a definition and a configuration with which TLC finds it violated, for
instance by `tlc -config UvcStreamFirst.cfg UvcStream`:

| Definition | Configuration, module | What happens |
|---|---|---|
| `FirstFrameReaches` | `UvcStreamFirst.cfg`, `UvcStream` | The callback thread begins with `last_seq = 0` and waits for another `hold_seq`, but the first frame of a start is number 0 (`stream.c:863`, `484`, `1098`, `1103`). It is never delivered; if the camera sends no other, the callback gets none |
| `PollersCancelled` | `UvcStreamPollers.cfg`, `UvcStream` | A poller that has tested `running` and has not locked the mutex yet misses the broadcast of a stop (`stream.c:1214`), and without a timeout waits for ever; `uvc_stop_streaming` "cancels pollers" (`stream.c:1291`). `tcluvc.c` does not poll |
| `ClosedUnused` | `TcluvcClose.cfg`, `TcluvcCapture` | A callback script closes its own device and then fails, and `FrameReady` calls `StopCapture` with the `TUVC` that `CMD_close` has freed (`tcluvc.c:2067`) |
| `FramesAnnounced` | `TcluvcAnnounce.cfg`, `TcluvcCapture` | Switching `update-mode` with an event in flight makes `numev` negative, and no event is queued any more (`tcluvc.c:2842`, `doc/uvc.n:480`) |
| `ErrorIsWriteError` | `TcluvcError.cfg`, `TcluvcCapture` | A frame that arrives while a recording is stopped leaves the recording state at `error` although nothing failed: `WriteFrame` finds no channel (`doc/uvc.n:471`) |
| `DriversReattached` | `UvcDeviceDrivers.cfg`, `UvcDevice` | A start that fails after it claimed the streaming interface never releases it (`stream.c:820`), and the camera is closed with its kernel driver detached (`device.c:1015`) |
| `DevicesRefreshed` | `UdevRefresh.cfg`, `UdevTable` | A camera that a scan finds before its add event is serviced, and that is unplugged before then too, gets a second entry without a number; the remove event deletes that one, and the first stays in the list, which is said to be refreshed (`doc/uvc.n:327`) |
| `ListedFormatStarts` | `UvcNegotiateListed.cfg`, `MCNegotiate` | The loop of `StartCapture` increments its index twice when a format fails (`tcluvc.c:2201`), so that entries in UYVY or GRAY8 are listed and cannot be started |
| `ZerosFixedUp` | `UvcNegotiateZeros.cfg`, `MCNegotiate` | A camera that leaves `dwMaxPayloadTransferSize` zero is satisfied by the alternate setting without bandwidth, and `uvc_stream_start` divides by its packet size (`stream.c:940`); the fix-up for such cameras (`stream.c:265`) corrects the frame size only |

`EveryControlListed` of `UvcControls` fails in place of the invariants of
`UvcControls.cfg`, though nothing says that every control is listed: `focus-rel` never
is. Its entry in the table has two
numbers of two bytes, the control two of one byte, and the camera's answer is taken to be
short.

More of them are in the models without a definition of their own, or were met
while modelling:

* `FrameCallback` finds `recpri` and, before it has `rmutex`, the script stops this
  recording and starts one with `-user`, or one after `convmode` 0; then it writes, although
  the frames are to come from the script (`doc/uvc.n:462`), and while `record frame` or
  `FrameReady` writes on the Tcl thread, which takes no mutex. `tcluvc.c:1299` says that
  one is required. `restarted` marks such a `FrameCallback`, and `WriterHasMode`,
  which is part of `RecorderMatchesCapture`, and `OneWriter` are about all others.
* `hold_seq` and the hold buffer outlive a stop, and a second start on the same
  handle delivers an old frame before its own; the frame of this start that has the
  same number is then not seen. `CapturesInOrder` allows for one such frame.
  `tcluvc.c` opens a new handle for each start and is not affected.
* `riff_size` of the first header is `HdrSize + segsize0` and thus 4 less than what
  the segment takes, while that of an AVIX header is right; `SegmentsTile` goes
  by the sizes of the lists instead.
* Once the index could not grow, `idx_off` does not move on, and a later table
  points at the wrong frames; `IndexPointsAtFrames` is of files without such a `gap`.
* A start whose first submission fails returns an error with `running` set and the
  callback thread alive (`stream.c:1065`).
* `seq` and `hold_seq` have 32 bits and are compared as numbers, so that
  a wrap stops a poller (`stream.c:1222`).
* `uvc_exit` walks the list of open devices while `uvc_close` frees its elements
  (`init.c:147`); `tcluvc.c` closes its devices first.
* `record pause` and `resume` overwrite `rstate` without a lock, which may hide
  an error that `WriteFrame` has just stored (`tcluvc.c:3753`).
* `_uvc_populate_frame` gives RGB and GRAY8 frames a `step` of 0
  (`stream.c:1154`), so that `GetImage`, where such a frame is not converted, repeats
  its first line in a photo that is not turned.
* `GetImage` does not compare the length of a GRAY8 or RGB frame with its size.
* `mbcopy` takes any two arrays of one length that three divides, also grey ones
  (`tcluvc.c:3404`; `doc/uvc.n:386` speaks of RGB), and then goes by position: pixel 1
  of a line is red, and pixel 2 green. `AnaglyphsAgree` is about arrays of three bytes
  a pixel; the grey camera of `MCImages` has frames of 24 pixels, so that the run
  meets the others, and `ImagesTypeOK` holds of them.
* `doc/uvc.n:345` says that the grey shift does not apply to byte arrays; with
  `convmode` 1 `FrameCallback` has applied it before either command sees the frame.
* A photo image never shrinks: after a change of orientation a part of the picture
  before remains beside the new one. A negative number of degrees counts as 0
  (`RightAngle`).
* `StartCapture` looks for a size and a rate, not for the entry chosen, and takes the
  first format of its list that has them: an entry in GRAY16 may start as YUYV of
  the same size. What is taken is decoded as what it is (`DecodedAsSent`).
* A camera that answers a probe with other indices than it was asked for is
  believed; the fix-up of its answer looks up the frame in all interfaces
  (`FixUp`), while the stream takes it from its own. The frame found may have no
  size, and the transfers then no packets (`SizesKnown`).

The passing properties are stated so as to hold beside these: `NoDanglingUse` and
`CapturesInOrder` for a connected device, `FrameReachesCaller` for a frame whose number is
not that of `last_seq`, `CountReturnsToZero` apart from a negative count,
`ClosedQuiet` about events, idle calls and `FrameCallback`, `WriterHasMode` and
`OneWriter` for a `FrameCallback` that is not `restarted`, `ErrorMeansFailure` where
there is a channel, `ChangesArePending` about orphaned entries and `ListenerKnows`
as long as no scan was ahead of an event (`overtaken`), `OneFrame` and
`LosslessFrames` for the first start, and `StaleDataOnce` for the later ones,
`DriversBack` where nothing failed, `ReachedFormatStarts` for the formats the
loop does reach, `StartedAsAsked` for a camera that accepts what it lists, and the last
part of `TransfersCarryData` for one that names a payload and whose sizes are known.

## 4. Proofs

TLAPS proves the following for every value of the constants, under the assumption
that the module of the constants names. A proof about a property has one step for
each action of `Next`; what makes it work is the invariant that is given here.

`UvcStream_proofs`, for every number of transfers, starts and frames, every set of
poll modes, with and without disconnects:

* `TypeCorrect`: `Spec => []TypeOK`.
* `HandleSafety`, `TransferSafety`, `StopAccounting`: `Spec => []NoDanglingUse`,
  `Spec => []NoFreeInFlight` and `Spec => []StopNeedsNoTimeout`, for
  `SlowCancel = FALSE`.

The three safety properties are not inductive. `SafetyInvariant` proves the
invariant that is. What it adds says who may own a transfer at each stage of the
application thread: outside `"submit"` every transfer in the table that is not
marked as released is owned by libusb or was never submitted at all; in `"submit"`
exactly the transfers before `next` may be owned; a callback thread exists
exactly when `user_cb` is set and the stop has not joined it; and the handle can
only be closed when nothing is in flight. It is conditional on the device being
connected, and `PluggedBefore` (a device that is connected was so before the step)
lets each case assume it. Those actions that touch neither transfers nor the callback
thread are discharged together. With `SlowCancel = TRUE` the claims are false, as the
code frees transfers after 5 seconds whether or not libusb has them: this is the
assumption on which the code itself relies.

The rest of `UvcStream_proofs`, under the same constants and also for
`SlowCancel = TRUE`:

* `ContractRefined`: `Spec => Contract!ContractSafety`, which is the part of
  `ImplementsContract` that says what may happen.

`CallerStages` is the invariant: the callback thread is in the callback only
while the stream runs or is stopped. `Hidden` collects the steps that do not show
in the contract, `StepRefined` maps each of the others to the step of the contract of the
same name. After a disconnect the contract promises nothing, and `OnlyUnplug`
says that there is one way into that.

* `FramesInOrder`: `Spec => CapturesInOrder`, an action property.

`CaptureOrder` relates the counters: once a frame of this start is held, its number is
below `seq`, and what the caller has got of this start is no later than it; a frame of an
earlier start the caller has only got if it is the one still held, or was when the first
frame of this start replaced it. It needs `CallerStages`: a caller thread that outlived
its stream would compare the numbers of two of them.

`UvcPayload_proofs`, for any number of frames, packets and starts:

* `TypeCorrect`: `Spec => []TypeOK`.
* `FramesSeparate`: `Spec => []OneFrame`.
* `CopyFits`: `Spec => []FrameFits`.
* `StaleDataShowOnce`: `Spec => []StaleDataOnce`.
* `LosslessFramesWhole`: `Spec => []LosslessFrames`.

`TypeOK` bounds the sequence numbers by the frames the camera sent, which is not
inductive: a packet may end two frames, the previous one by its identifier bit and
its own by the end-of-frame bit. `Counting` is the strengthening: data in
`outbuf`, and an unfinished frame, each leave a number unused, and where the
bit is about to change in the middle of a frame, two. `OneFrameInv` says
that what is in `outbuf` is in order and has the bit of the last header.
`CameraStep` collects what the four actions of the camera have in common, so that
each invariant is shown once for all of them. `FrameFits` is inductive by itself.

`StaleInv` says of `outbuf` what `StaleDataOnce` says of the frame that is held: data
of an earlier start can be in it only while `seq` is 0. `LosslessInv` ties the
assembly to the camera: without losses `outbuf` is what the camera has sent of the
frame it is at, the bit is the parity of that frame, and `seq` is the number of the
frame before, or of this one if its end-of-frame bit has emptied `outbuf` already.
`Stages` cuts a packet where the code does, into the end of the frame before it and the
data it brings.

`UvcDevice_proofs`, for any set of cameras, of which any may fail, and any number of
references:

* `TypeCorrect`, `References`, `HandlerLives`, `StatusTransfers`, `KernelDrivers`:
  `TypeOK`, `RefsExact`, `HandlerWhileOpen`, `StatusQuiet` and `DriversBack` are
  invariants of `Spec`.

`Where` relates the stage of the application thread to the state of the handle it
works on. `Thread` (what the handler thread may be doing while a device is opened
or closed) and `Transfers` (at most one status transfer is being called back) need
each other: the transfer of a handle that is closed is out of the way because the thread
is in no callback. `Streams` and `Drivers` follow the claimed interfaces of cameras
that do not fail.

`TcluvcCapture_proofs`, for any set of frames, bound of events, depth of
callbacks and use of the modes, with and without recordings:

* `TypeCorrect`, `FrameSafety` (`FramesHeld`), `LatestFrame` (`MostRecent`),
  `EventsCome` (`CountHasEvent`), `ClosedSafety` (`ClosedQuiet`),
  `RecorderSafety` (`RecorderMatchesCapture`), `WriterSafety` (`OneWriter`),
  `ErrorSafety` (`ErrorMeansFailure`) and `ChannelSafety` (`ChannelStaysValid`, an action property).

`Stages` (where a command leaves the stream) and `Callbacks` (where
`FrameCallback` is, and who has `rmutex`) say which of the two threads can be where
while the other one acts; everything else rests on them. `Holders` says where a
frame may be outside the `TUVC`, `Events` how far the count may be from the events
in flight, `Recorder` what a recording command that has tested `rstate` may yet
store, `Writers` who may write when `FrameCallback` or the Tcl thread is about to. `ClosedSafety` is about events, idle calls and `FrameCallback`; the callback
scripts that close their own device are no part of it (`ClosedUnused` fails).
`MaxEvents` appears in `Events` as the bound of that difference.

`UdevTable_proofs`, for a finite set of ports, any models and any number of plugs:

* `TypeCorrect`, `MissingCameras` (`MissingArePending`), `ChangesPending`
  (`ChangesArePending`), `ListenerInformed` (`ListenerKnows`).

The events of a port that are not serviced yet form a chain that ends in
what is at the port now (`Chains`). A camera that is not in the table therefore has an
add event to come (`Missing`). Orphaned entries are counted: an add event that comes
when its camera is gone leaves one, and the remove event that will search for it
is in the queue of the same port (`Owing`), so that there are as many of the one as of
the other (`Answered`, by `Covered`), until a scan is ahead of the events. That the
set of ports is finite is needed to count; that `"none"` is no model keeps a
camera apart from an empty port.

`Media_proofs`, first part, for frames of any sizes, any number of them, segments of any
length and headers of any size:

* `TypeCorrect`: `Spec => []TypeOK`.
* `SegmentsAreTiled`: `Spec => []SegmentsTile`.
* `IndexPoints`: `Spec => []IndexPointsAtFrames`.

The properties speak of a finished file, the invariants of the one being written, whose
headers do not have their sizes yet. `Layout` therefore takes the end of each segment
from the writer (`EndOf`): of the one in progress from `segsize`, of the first from
`segsize0` once it is closed, of the others from their headers. It says that the
segments are in the order of their heads and do not overlap (`HeadsInOrder`,
`Disjoint`), that every chunk is in one and the first segment has the first
`nframes0` of them (`Owned`), and, while all chunks are complete, that each segment is
filled up to its end and the next begins there (`Filled`). A chunk that came out short
is still counted with its full length, so that `segsize` may be ahead of the file;
as that is an error, and nothing is written after one, this never reaches a second
chunk, but a segment may be closed in the same call, with its end within the next
header: `Disjoint` allows for that. `FileEnds` says what `FinishRecording` makes of
the headers, and `SegmentsRead` that a reader finds in them the segments of `Layout`.
`IndexFits` adds that entry `i` is that of chunk `i` and that `idx_off` is the end of
the file, until the table fails to grow.

`Media_proofs`, second part, for cameras of any size that the converters take, any
scenes, masks and settings:

* `ImagesTypeCorrect`: `ImagesSpec => []ImagesTypeOK`.
* `PicturesShown`: `ImagesSpec => PictureShown`, an action property.
* `AnaglyphsMatch`: `ImagesSpec => []AnaglyphsAgree`.

The difficulty is in the operators. Three lemmas carry it. `ConvertedData` is about the
colours: a pair of pixels comes from four bytes, in one of two orders (`SentPair`), and
what the fixed-point arithmetic makes of it is within two of BT.601, for all 2^32
pairs (`PairIs`); a grey word shifted by at least four is a byte. `OrientedFinds` is
about the block: for each rotation `x * pixelSize + y * pitch` from `pixelPtr` on is
the place of the pixel that a turned picture has at `<<x, y>>` (`Rotated90Is` and its
like, `TurnedFinds`), an identity between polynomials in the width and height; mirroring one
way reads from the other end, and mirroring both ways is half a turn more.
`FlippedDepicts` says the same of the reference, which is made of quarter turns.
`PutBlockIs` then meets each pixel of the photo with the one of the scene, at an offset
within the data (`LineByLine`, `InData`). `AndIs` and `MaskedIs` are about bytes under a
mask, so that alpha stays opaque and the three channels of an array are those of
the photo. `ImagesInv` is what has to be invariant for these to apply: the last frame is
one converted from the camera's, an array has the camera's width, height and bytes a
pixel and, unless `mbcopy` wrote it, is such a frame; a photo has bytes at all its
places.

`UvcNegotiate_proofs`, for every camera with well-formed descriptors, of any number of
interfaces, formats, frames and intervals, for both builds and any rates:

* `TypeCorrect`: `Spec => []TypeOK`.
* `NegotiateInvariant`: `Spec => []NegotiateInv`.
* `TableIsTrue`: `Spec => []TableNamesFrames`.
* `ChosenFramesArrive`: `Spec => []FramesAsChosen`.
* `TransfersHoldData`: `Spec => []TransfersCarryData`.
* `ChosenFormatStarts`: `Spec => []ReachedFormatStarts`.

The state of the model is small and its operators are what has to be understood. The
lemmas follow the data. `Parsed` is the invariant of the parser: after `n` blocks
there is a one-to-one map from the places in its tables (format, frame) to the frames
that the first `n` blocks list (`Mirrors`), and the last format is the owner of
the next block (`Current`). `ParseFormat`, `ParseFrame` and `ParseOther` are its
steps, `ScanStreaming` their sum; it is an induction over one sequence of blocks,
which the prover can do, as it is about a set of numbers (`Induct`).
`FramesOfAre` says that the nested loops meet every place once: the table of
`InitControls` and the one in which libuvc searches are the frames of the camera
(`TableOf`). A search returns an entry with the indices or the size it looked for
(`FindFrameIs`, `FoundIs`), and `WellFormed` makes it the frame that the camera means
by the indices (`MeantIs`, `StreamFrame`). `AcceptsIs` says what the camera makes of
a block, `RateIs` that a rate survives the way to an interval and back.

`NegotiateInv` is what remains of this between two steps: the descriptors are those of
the camera, the rate is the one of an interval, and the control block was `Obtained`,
that is, it names a frame of the camera, of the size and rate that were asked for if
the camera obeys, has a payload of the camera and a frame size from it or from a
descriptor (`Sized`). `CrashInv` adds that only a camera without a payload ends the
process (`NoCrash`): the setting that is taken holds the payload or is the largest, and
neither is one without bandwidth. It has to be kept apart from the properties because they
speak only of streams that run, and `StartStreaming` reads `ctrl` a step after
`TryFormat` has stored it. `FormatIs` adds the reason why MJPEG needs a compressed
entry: it is the first in the list of a build with JPEG, and skipped otherwise.

That a start is not refused turns the argument around: everything that could stop it
has to be excluded. The camera must be `Willing`, which asks more than that it
answers. Its descriptors must be `Consistent`: an isochronous interface has an
alternate setting with bandwidth, the guid of MJPEG is on no other format, and the
default interval of a frame is one that it offers; for a range of intervals, the one
that `tcluvc.c` makes of it by way of a whole rate must be in the range, as the search
of libuvc takes no other. Without any one of these the camera lists an entry that
cannot be started. `StartsInv` then says that the settings are those of an
entry of the table (`EntryKept`), and where the loop of `StartCapture` can be on its
way to the format of the entry (`OnTheWay`, `Ways`): with JPEG, 16 bit grey is reached
from index 1, after YUYV failed there, and 2 is never visited. `WayLeads` is a step of
this way; the format itself cannot fail, since the search finds at least the entry
(`EntryFound`, from `TableListed` and `CandidatesAre`), and whatever it finds is
accepted with the hint or without. `StreamStarts` goes through the ways in which
`uvc_stream_start` can fail after that.

`UvcControls_proofs`, for every set of values that fit into 16 bits with their sign,
beside any companion:

* `TypeCorrect`: `Spec => []TypeOK`.
* `DescriptionsAgree`: `Spec => []AccessorsAgree`.
* `CameraHasWhatWasSent`: `Spec => SetsWhatIsNamed`, an action property.
* `WriteBackIsSafe`: `Spec => WriteBackKeeps`, an action property.

That the two descriptions of a control agree comes down to two things. One is the
shape of the 41 controls: the arguments of an accessor have one width, and an entry
of the table that is no longer than the control has that width and as many numbers
(`AllKnown`). `focus-rel` is the entry that is longer, and `InitControls` does not list
it (`ListedWhole`). The other is the arithmetic: byte `r` of number `i` is in the same
place for whoever writes and reads it (`Placed`, `PackIs`, `StoreIs`), reading the bytes
of a number gives the number, wrapped (`ReadOfBytes`, where the 16 bits are needed for
the two upper bytes to be its sign), and the bytes of what is read are those it was read
from (`BytesOfRead`), for all bytes and not only those a run can store. `ControlsInv`
says the rest: entries are of controls they fit, and after a `uvc parameters` that could
read an entry it has the bytes of the camera and what was returned was made from them
(`ShownFresh`). `SentIs` is about a list of which a part has been sent.

Only model-checked: all liveness (`FrameReachesCaller`, `StopReturns`,
`CountReturnsToZero`, `CommandReturns`, `CloseReturns`, and the fairness of
`ImplementsContract`), which is out of the prover's reach.

## 5. Not modelled

* Diagnostics, error texts, and the test and example programs of libuvc: they print
  what other functions compute. Demos, build files and the vendored `libusb.h`.
* Initialization and teardown of the interpreter: libraries are loaded once, and
  `UvcObjCmdDeleted` closes each device as `CMD_close` does, without further calls.
* `uvc_find_devices` and `uvc_wrap`, and the conversions to BGR, Y and U/V, which
  `tcluvc.c` never calls; the JPEG library, which is external: an MJPEG frame is the
  scene itself.
* What a status packet says, which goes to a callback that `tcluvc.c` does not set;
  the fields of the control block that are passed on as they come; of terminals and
  units all but that a camera has them.
* The times at which a recorded frame is due, and the average rate that is written to
  the header; the limits of a control, which are listed as the camera gives them.

What could be added: lists of more than two settings, for which `AfterPairs` is a
recursion over the list and its proof an induction.
