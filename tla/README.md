# Verification of the media push SDK

TLA+ models of the push SDK in `src/sdk` and `src/common` and of the program in
`src/demo` that drives it, checked with TLC on small instances, and theorems
about them proved with TLAPS. Line numbers are of this repository.

## The system

An application calls a C API (`sdk/isvpush.cpp`). Behind it one manager
(`sdk/pushmgr.cpp`) keeps a table of push connections under one recursive lock.
A connection (`sdk/basepush.cpp`, RTMP in `sdk/rtmppush.cpp`) queues the frames
it is given; its own muxer thread takes them from the queue, packs them and
sends them through an RTMP library. The connection tells the application what
happens by a callback, on the application's thread inside Connect and
SendPacket, on the muxer thread otherwise. The demo program keeps several
channels connected and pushes recorded files through them.

```
 demo: main, cloud thread, senders, triggers    (CloudChannel)
        | API calls             ^ callbacks
        v                       |
 manager: table, ids, lock      |               (PushMgr)
        | one call at a time    |
        v                       |
 connection: flags, events  <- muxer thread     (BasePush  => LossyChannel)
   frame check (FrameGate)   recorder, segments (SegmentRecorder)
        | get, push             | pop, free
        v                       v
 frame queue and buffer pool                    (FrameQueue => BoundedFifo)
```

### Components

| component | state | operations | correct when |
|---|---|---|---|
| Frame queue (`common/framequeue.h`) | the queued frames, the free list, a byte and a buffer counter, a mutex | get, push, pop, free, deinit | no buffer in two places; counters are right; an accepted frame comes out once, in order; no assertion fires |
| Push connection (`sdk/basepush.cpp`, `rtmppush.cpp`) | `m_bConnected`, `m_bBufferFull`, the queue, the socket | Connect, SendPacket, SendMetadata, Close, the muxer loop, heartbeat | frames arrive in order; a thread that reached its loop has ended, and told why, before the object is deleted; a failure is told; a recorded pause is resumed; Close returns |
| Lazy thread (`common/sv_thread.h`) | `m_bRun`, `m_bExit`, a detached thread | Run, Stop, IsAlive, IsExit | nobody takes a thread for ended that still runs |
| Manager and API (`pushmgr.cpp`, `isvpush.cpp`) | the table, the next id, the lock, the manager pointer | Initialize, the Connect variants, Send, Query, Close, UnInitialize | the limit holds; no call works on a deleted object; Close returns; nothing is left behind |
| Channel controller (`demo/cloud_sunvalley.c`, `demo_main.c`) | five shared arrays per channel, no lock | the cloud thread, the senders, the triggers, the callback, main's shutdown | a channel that is lost is connected again; media follows STREAM_START; no connection is leaked; a program told to stop ends |
| Frame check (`basepush.cpp` 1665-1764) | `m_bDisContinue` | check_frame | outside a gap only a missing start code is refused; the units the code names as the end of a gap ("sps pps, idr") do end it |
| Segments and recording (`basepush.cpp` 1822-1887, 2062-2086, `sdk/lbsp_ipc_record.hpp`) | `m_pRecMuxer`, `m_precord_url`, `m_bStreamSendStart`, the last time sent; a file | RecordSendPacket, on_recv_packet, OnSegmentSendStart, OnSegmentSendEnd, Close | one thread at a time in the recorder; a complete file is a whole segment; the end of a segment says the time of its own last picture |
| Record reading (`demo/rec_demux.c`) | a file position | open, read, seek | a file that was written is read back |
| Task thread pool (`sdk/push_task.hpp`, `lbsp_utility_thread.hpp`) | a task list, worker threads | add, run, stop | in no makefile; does not compile |
| RTMP library | external: a submodule without contents | connect, send, close | modelled by what the code relies on |
| Memory pool, log, configuration; sample programs | none of interest | | not part of the protocol |

### What is hard

* The application, the manager and the muxer threads share flags without a lock
  (`m_bConnected`, `m_bBufferFull`, `m_bRun`, `m_bExit`; the demo's arrays).
* The muxer thread is detached. Deleting a connection rests on polling flags.
* Close holds the manager's lock while it waits for a thread that runs the
  application's callbacks.
* The lock is recursive: a callback may call the API while the outer call is
  half way.
* The queue is bounded by bytes and by buffers, and the buffers circulate
  between two threads through a pool.
* A send can block, fail, or be cut off by closing the socket.
* The demo keeps its threads apart by sleeps.
* The recorder of a connection is opened and written by one thread and closed and
  deleted by another; what keeps them apart is the application's own order of calls.

`PROJECT.json` lists each hazard at its line with the properties that cover it.

## The modules

### FrameQueue, BoundedFifo

`FrameQueue` is `CFrameQueue` with the use its callers make of it. Variables
carry the source's names (`frame_list` is `m_frame_list`, and so on). Every
method holds the queue's mutex, so a method is one action. A producer holds its
buffer between `get_frame_buffer` and the push, which is where other threads
run: `pc` and `held` keep what it does, `popped` is the muxer thread's buffer.
`leaked` holds the buffers SendPacket drops when the push fails. The three
assertions of the code set `halted`; the makefiles build with them. The payload
is its size. Buffers are addresses: one that is new differs from every live one.
`deinit_queue` is the destructor, when no thread holds a buffer any more.
No caller frees a buffer twice.

`BoundedFifo` is the promise: a FIFO of payloads bounded by bytes, which refuses
an offer exactly when the bytes would exceed the bound. The refinement mapping
replaces each queued buffer by its size; `ret` is the answer of the last push.

`ByteCounts` says what a number of bytes is for the three modules that count them:
the number of elements of a set with one element for each byte. It is the sum that
`m_ncur_frame_size` keeps, in a form that can be reasoned about without induction.

### BasePush, LossyChannel

`BasePush` is one connection from Connect to its deletion. The manager's lock
makes the application one process (`app`), whose calls are split where the muxer
thread can see the difference: PAUSE is told (`pausing`), then `m_bBufferFull`
is set (`flagging`); Stop clears `m_bRun`, closes the socket when a send blocks,
and polls. The muxer thread (`thread`) goes through `InitialThreadProc`, the
loop of `MuxerProc` (take, pack, send, announce, heartbeat) and its exit, one
action per step others can observe. The resume is four of them: the queue is seen
empty, `m_bBufferFull` is tested, RESUME is told, the flag is cleared. `ret` is the
local variable that decides what a skipped frame and the end event look like. The socket is open,
stalled (a send blocks) or closed. `fate` and `delivered` record what became of
each frame; `closed_by`, `segment_ends`, `paused` what the application was told.

Nobody looks at the result of Start (`rtmppush.cpp:122`), so pthread_create may fail
and Connect succeeds without a thread (`ConnectServer`). Run waits until the thread
has set `m_bRun`, or 50 ms; it does not wait for `m_bExit = 0`, which comes next
(`ThreadStarts`, `ThreadEnters`). A Stop before that store finds `m_bExit` still 1
and does not wait: the object is deleted under a thread that is about to run. What a
thread does to a deleted object has no meaning and is not modelled; that it gets there
is the violated run `base_push_start`, and `EndsBeforeDeletion` says that these two
moments are the only ones.

`LossyChannel` is the promise: accepted frames arrive in order, at most once,
none after the end; any may be dropped.

### PushMgr

The table, the ids and the lock, with each thread a stack of calls so that a
callback can call the API from inside a call. A thread holds the lock from the
first step after `entering` until it returns; it is free for the same thread. A
muxer thread is named by its connection and reduced to what the manager needs:
running, asked to end, telling, done. `AppCalls` and `MuxerCalls` say what the
callbacks call: in `push_mgr` an application callback sends, a muxer callback
connects and queries. UnInitialize clears the pointer and
destroys every connection; that it is called only when no application thread is
inside the API is an assumption, which the code does not enforce. The limit holds
as long as callbacks do not connect: GenConnectId measures the table (404) before
the callbacks of Connect and the entry is made after them (188), under a lock
that lets the same thread in, so a Connect inside CONNECT_SUCCESS passes it.

### CloudChannel

The demo's threads over the five arrays. `at` is the line of the cloud thread,
`rec` that of each sender, and `random` that of each trigger. The cloud thread's
stores of the id, the flag and the pause are three actions; a sender reads the
id anew at each call, as the code does. `conn` is the state of a connection as
the manager and BasePush show it (opening, live, ended, closed). A sender's call
waits while the cloud thread is inside the manager; it is one action with the reading
of its id, which the code reads just before it waits for the lock. `last` is the last message
of each connection.

The program ends twice. The cloud thread closes its channels and uninitialises the
SDK (`CloseAll`, `CloudUnInitialize`); `main` waits a second after the stop and does
the same (`MainUnInitialize`, `Destroy`, `DestroyNext`, `Return`), which the code
does not order. `sdk` is the manager pointer; a call that finds it cleared fails.
`main`'s destructor polls the lock, which the cloud thread may hold. When `main`
has returned the process is over, and with it every thread. `AllClosed` says what
both leave behind, `Ends` that the program ends.

### FrameGate

`check_frame` stands between SendPacket and the queue. All calls hold the manager's
lock, so a call is one action. A packet is the bytes the function reads: zeros, the
start code, the unit header; a header past the end of the packet can be any byte.
For an empty packet `nSize - 1` wraps, and the bytes are whatever lies where the
packet would (`Scanned`). Two definitions stand side by side: what the code computes
(`StartCode`, `UnitType`, `EndsGap`, `KeyFrame`) and what the two video standards say
(`TrueStart`, `TrueType`), and the properties compare them. Which types end a gap is
the code's choice, three of them for each codec; the properties say that these units
are recognised, not that a decoder can go on behind them. It often cannot: a lone
parameter set ends the gap and the next picture may refer to a refused one, and the
gate has decided before the push, so an IDR picture that the full queue refuses ends
the gap as well. Encrypted packets leave SendPacket before the gate, so the branch of
check_frame for them never runs.

### SegmentRecorder

One connection seen from its segments. SendPacket is split at each use of
`m_pRecMuxer`: the test and creation, the open, the second test, the write, the
push. OnSegmentSendEnd on the muxer thread is split likewise: test, close, delete,
clear. `recorder` and `file` keep what became of each; a file is the packets in it
and whether its header says complete, which only `close` writes. A packet is
recorded before the gate and the queue are asked, so the refused ones are in the
file too. `told` is what PUSH_SEGMENT_END said: the time stamp of the last picture sent,
INT64_MIN if none was. This is not the "segment video duration" of isvpush.h:42 (see
Findings). `Careful` is an application that
waits for PUSH_SEGMENT_END before the next segment and asks for a record between
segments; the header asks for no such thing, and `segment_recorder_race` shows why
it should. The demo records every channel to the same `./test.rec`
(cloud_sunvalley.c:881) and does not wait.

### How they fit together

BasePush has the bytes of the queue but not its pool, because FrameQueue shows
that the pool does not show outside except by aborting the process. PushMgr uses
of BasePush that a thread asked to end does so (`CloseReturns`) and that Close
does not return earlier (`EndsBeforeDeletion`). CloudChannel uses of PushMgr that
calls are serialised and that an id names one connection for ever, and of
BasePush that a failure is told (`ErrorIsTold`) and a close ends with one event
(`EndsBeforeDeletion`). Both leave out a connection without a thread and one closed
before its thread has passed `m_bExit = 0`, which BasePush alone models. FrameGate and
SegmentRecorder refine what BasePush leaves open: BasePush lets a frame be refused
at any time, which FrameGate explains, and forgets what a frame is, which
SegmentRecorder remembers; both use of BasePush that a call holds the lock, and
SegmentRecorder that Close waits for the thread.

## The runs

| run | states | what it shows |
|---|---|---|
| frame_queue | 5 455 | Accounts, places and assertions of the queue; it implements BoundedFifo |
| base_push | 244 454 | The connection implements LossyChannel; a thread that reached its loop is over and has told one event, which says why, before the object is deleted; a segment end is told when its frames are done; Close returns, frames move on, a recorded pause is resumed, a failure is told. The thread may start late or not at all |
| push_mgr | 409 293 | The limit, no use of a deleted object, nothing left; Close ends unless the thread it waits for has called the API |
| cloud_channel | 103 165 | Two channels, two connections: a flagged channel is connected, media follows STREAM_START, none orphaned, none left when the program is over; a lost channel is tried again; the program ends when it is told to stop |
| frame_gate | 261 | Outside a gap only what has no standard start code is refused; an H264 parameter set or IDR picture is never refused and leaves no gap |
| segment_recorder | 66 438 | For a careful application: one thread in the recorder, none lost, a complete file is one whole segment, recordings end. For any: the time told is that of the segment's last picture sent |
| base_push_pause | | *violated:* see Findings |
| base_push_start | | *violated:* see Findings |
| push_mgr_callback | | *violated:* see Findings |
| cloud_channel_resume | | *violated:* see Findings |
| frame_gate_hevc | | *violated:* see Findings |
| segment_recorder_race | | *violated:* see Findings |

Every property of a passing run has a mutant of the code, listed in
`PROJECT.json`, that TLC finds to violate it. The mutants stand in the modules
next to what they change.

### Bounds

* FrameQueue: two producers and the muxer thread, which is every pair of actors
  the code has; five addresses over a limit of four buffers and four bytes, with
  sizes one and two, so the byte limit is met with two to four frames and the
  buffer limit with frames queued, free, held and leaked at once. Sizes are
  bytes in the code and small numbers here: only their sum against the limit
  matters. The actions are symmetric in threads and addresses; the only temporal property checked with
  the symmetry, FifoSpec, is a safety property that names neither.
* BasePush: three frames of sizes 1 and 3 over four bytes: a frame can be refused for
  room, can pass the half that PAUSE tests, and there are enough frames for a refused
  one to be followed by two that depend on it. `base_push_start` has one frame, since
  its counterexample needs none.
* PushMgr: two threads, three connections over a table of two, so that the table
  is full while a third is asked for, and ids are not reused. `TypeOK` and `NothingLeft`
  also hold for callbacks that call anything over two connections (157 685 states)
  and that connect and close over three (1 373 487). A call nests one level, in the proofs too: a
  call made in a callback has no callback that calls again.
* CloudChannel: two channels, so that they share the cloud thread and the round is
  broken off for one of them, and two connections: a channel's first and its
  replacement, or one for each channel. When `MaxIds` is used up connecting fails, which
  it may at any time. The safety properties also hold with three connections (666 280
  states), and are theorems for any number.
* FrameGate: unbounded in time, since a state remembers one call. A packet is any
  string of at most four zeros and ones, followed by one unit header or by none: every
  start code, too few and too many zeros, a packet that ends inside its code, the empty packet. The
  headers are H264 slice, IDR, SPS and PPS, HEVC trailing picture, BLA, IDR, VPS, SPS
  and PPS, 96, an unspecified HEVC unit that the missing shift takes for a VPS, and 255.
* SegmentRecorder: two segments of three packets in all over a queue of three, three
  recorders and one file name, so that a segment can be started while the end of the
  one before is queued and both write to the same file. The inductive invariant of
  the proofs also holds with four segments and a queue of four (161 074 states).

In each live run a bound ends the model by refusing further work, never by
stopping a step the property waits for.

### Fairness

* BasePush: weak fairness of a call that is under way and of the muxer thread,
  since the operating system schedules both. The application need not call and
  the network need not recover; properties that need it say so (`socket =
  "stalled"` is an alternative). CloseReturns has no such exception.
* PushMgr: weak fairness of each thread's call and of a muxer thread that was
  asked to end, which BasePush justifies. A thread that waits for the lock is
  served only if the lock stays free; nothing checked needs more.
* CloudChannel: weak fairness of the cloud thread, of the senders and of the end
  of a connection that is being closed; strong fairness of the 60 s, which pass
  whenever the thread sleeps often enough; weak fairness of main once the program is
  told to stop. Nothing makes a connection fail or resume, a trigger fire, or the
  program stop.
* SegmentRecorder: weak fairness of a call that is under way and of the muxer thread,
  as in BasePush. A heartbeat need not fail.

### Assumptions about time

Some places in the code are right only because of sleeps, or of what the caller
does. Each is a constant that the configurations set and a reader can change.

| constant | the code | without it |
|---|---|---|
| StartsInTime (BasePush) | Run waits at most 50 ms for the thread (sv_thread.h:52) | `base_push` and every theorem do without it. `base_push_start` sets it, to show that NoThreadOutlives fails even when the 50 ms are enough |
| FlaggedInTime (CloudChannel) | the first heartbeat comes after two seconds | FlaggedIsLive fails: the flag is set after the end |
| LeavesInTime (CloudChannel) | a sender has a second and a connect to notice | MediaAfterStart fails: it goes on with the next connection |
| QuickConnect (CloudChannel) | an attempt is over before 60 s are | Retries fails: an earlier channel starves a later one |
| Careful (SegmentRecorder) | the application waits for PUSH_SEGMENT_END | OneInside fails (`segment_recorder_race`) |
| FileOpens (SegmentRecorder) | fopen succeeds; the result of open is not looked at (2068) | OneInside fails: the first packet is written to a null FILE |
| AppCalls (PushMgr) | what a callback on an application's thread calls | WithinLimit fails if it connects; WorksOnAlive if it closes the connection that Connect or SendPacket is telling of |
| MuxerCalls (PushMgr) | what a callback on a muxer thread calls | CloseEnds fails if it queries (`push_mgr_callback`); the safety properties hold whatever it calls |

## The proofs

Every safety property of the passing runs is a theorem: the invariants, the action
properties and the two refinements. The liveness properties are not.

| module | proved | assuming |
|---|---|---|
| FrameQueueProofs | TypeOK, SinglePlace, ByteAccounting, CountAccounting, OnlyLimitAborts, CountNeverRefuses, FifoSpec | |
| BasePushProofs | TypeOK, EndsBeforeDeletion, SkippedBehindRefused, SegmentEndSettled, EndTellsWhy | |
| ChannelProofs | ChannelSpec | |
| PushMgrProofs | TypeOK, NothingLeft | |
| | WithinLimit | no callback of Connect or SendPacket connects |
| | WorksOnAlive | no callback on an application's thread closes |
| CloudChannelProofs | TypeOK, NoOrphan, AllClosed | |
| | FlaggedIsLive | FlaggedInTime |
| | MediaAfterStart | LeavesInTime |
| FrameGateProofs | TypeOK, CodesAreStandard, SpsPpsIdrPass | |
| SegmentRecorderProofs | TypeOK, TellsLastPicture | |
| | NoneLost | Careful |
| | OneInside, WholeSegment | Careful, FileOpens |

Apart from these hypotheses, the only assumptions are the named ones of the modules
on their constants, which TLC evaluates in every run.

### The queue

The inductive invariant `IInv` of `FrameQueueProofs` is the conjunction of the safety
properties with `PcHeld` (a producer
holds a buffer exactly when it is not idle) and the finiteness of the queued
bytes. The parts need each other: `ByteAccounting` and `OnlyLimitAborts` rest on
a buffer being queued once (`SinglePlace`), and that `TypeOK` bounds the counter
rests on `CountAccounting`, which needs the places to be disjoint. `Room` shows that a
buffer in hand leaves room in the queue, hence `CountNeverRefuses`.

`FifoTheorem` is the refinement. BoundedFifo counts the bytes of a sequence of sizes,
the code those of a set of buffers; the two agree because no buffer is queued twice
(`LengthsCounted`). The code refuses a push for bytes or for frames, the FIFO for bytes
only: that it is bytes is `RefusedForBytes`, from `Room` again. Every other
step leaves the sizes as they are (`LengthsKept`).

`ByteCountsProofs` has the lemmas both the queue and the connection need: what is
added and removed when a thing joins or leaves a set, a sequence at its back, or a
sequence at its front. They follow from the library's facts about cardinalities.

### The connection

`Control` relates the place of the application's call, the place of the thread and the
two flags, and the end event to the end of the thread's loop; it holds whenever the
thread starts, and has `EndsBeforeDeletion` as one of its parts: Stop goes on waiting
exactly while `m_bExit` is 0, and that is from the loop's first step to the thread's
last. `FateInv` relates `fate`, the queue and
`ret` (a failed `ret` between frames means that the last frame with a result was
refused, and every one since was skipped); it gives `SkippedBehindRefused`
and `SegmentEndSettled`, since the frame a stream end is taken for
is the next one after those that are finished. `Why` adds what the thread knows when it
leaves its loop: it has failed or was stopped, and when `ret` says failed, a send has
failed or the last frame with a result was refused; with it, that nothing is queued as
taken behind the thread's back (`OnlyTaken`), `EndTellsWhy` follows. `TypeOK` needs the
queue to stay within its memory, which is a fact about sums (`QueueStored`, `TakeStored`).

`ChannelTheorem` is the refinement of LossyChannel, step by step: pushing a frame
accepts it (`AcceptStep`), finishing one delivers or drops it (`FinishStep`,
`DoneStep`), and every other step of the two threads is a stutter. What makes it true
is that the frames on the way are numbered from the one after the last finished
(`Numbered`); and that the object is never deleted with a frame in the
thread's hands (`EndsBeforeDeletion`): a thread that Stop has missed holds none yet.

### The manager

`IInv` holds whatever the callbacks call; two of its parts are conditional, each on
the hypothesis of the theorem it serves, and each hypothesis is sharp: TLC finds
`WithinLimit` violated with `AppCalls = {"connect"}` and `WorksOnAlive` with
`AppCalls = {"close"}`.

* `Shape`: a stack has at most two calls, the outer one telling, and each is where a
  call of its kind can be. `OneHolds`: one thread at most is past `entering`.
* `Apart`, `Own`: a connection opened inside the callback of another, or by a muxer
  thread, is another one. An id that is drawn is nobody's (`Numbers`).
* `Books`: what is alive is the table and what the one thread that has the lock is
  opening, two connections at most.
* `Room`: while a connection is being opened the table stays below the limit. The lock
  keeps the other threads out, and no callback of its own connects. With `Books` this
  is `WithinLimit`.
* `InUse`: what is sent on stays in the table, since only a callback of the same
  thread could close it. With `Books` and `Numbers` this is `WorksOnAlive`.
* `Gone`: after UnInitialize the application's threads have no call but the destructor,
  and the table is empty or the destructor is there.

`NothingLeft` has a case that is easily missed. A muxer thread that passed the test of
`g_pPushMgr` before UnInitialize cleared it may open a connection while the destructor
waits for the lock. Its own connection is then in the table (`Entered`: nobody else is
opening one, and it does not open its own), so the destructor is still there and finds
the new one too.

### The demo

`IInv` adds to the properties where a connection is while the cloud thread carries it
from Connect to the array (`Handed`), how many have been drawn (`Drawn`), what the
flag says between its three stores (`Flagged`) and what each of the two shutdowns
has done so far (`Ended`). `MediaAfterStart` is an action property with an invariant of
its own, `Started`: a sender in its loop whose channel's connection is in the table has
sent that connection a STREAM_START, or media since. It lasts because no channel gets a
new connection while its sender is in the loop, which is what `LeavesInTime` says.

### The frame check

`CodesAreStandard` compares the scan of the code, which looks at each byte in turn, with
the standard's two prefixes: where the scan stops is the least index with a byte that is not
zero (`Scan`, `LeastIndex`), and it stops behind two or three zeros exactly when one of
the prefixes is there (`StartCodeIsTrue`), for strings of any length.
`SpsPpsIdrPass` adds that the type of an H264 unit is read right and that these three
types end a gap. The same for HEVC is false: `frame_gate_hevc`.

### Segments and recording

For every application, `TellsLastPicture`: what PUSH_SEGMENT_END tells is the time stamp
of its own segment's last picture sent, and of no earlier segment's. Frames are in flight from the push until the
thread has finished with them. `Line` says how they are ordered: by segment, a
STREAM_START before the rest of its segment and a STREAM_END behind it, pictures by
their time (`Ordered`), with the start of the next segment between two segments
(`StartsFirst`). `Times` adds what the thread remembers: after the STREAM_START its
variable is the time of the segment's last picture (`Clock`), what was sent is older
than what is in flight (`Past`), and a segment whose end was told has nothing in flight
(`Over`), so that what was told stays true.

For a careful application, `NoneLost`, and with `FileOpens` `OneInside`: a STREAM_END is
the last thing in flight and only while the application waits (`Bracketed`); a recorded
segment has one STREAM_START (`OneStart`), so that the thread touches the recorder for a
STREAM_END only (`Closed`); and a call that is in the recorder is inside a segment
(`Held`), when no STREAM_END is in flight. `WholeSegment` rests on these: the file being
written has every packet offered since its first, all of the current segment
(`Growing`), and it is closed by the thread when the application has left that segment,
to which no packet is added any more (`Whole`).

### What stays with TLC

* The liveness properties: `CloseReturns`, `FramesMoveOn`, `FullIsResumed`,
  `ErrorIsTold` (BasePush), `CloseEndsUnlessCalled` (PushMgr), `Retries`, `Ends` (CloudChannel), `RecordingEnds`
  (SegmentRecorder). Fairness and ENABLED are out of the prover's reach.
* The six violations, which are about instances.

Induction over data is out of reach as well, which is why sums are cardinalities and
the order of frames is stated by indices. No module uses a RECURSIVE operator.

## Findings

Each is the counterexample of one run.

* `base_push_pause`: RESUME is told before the flag is cleared; a PAUSE in
  between is never taken back (`basepush.cpp:1380`).
* `base_push_start`: Run waits for `m_bRun` only, Stop looks at `m_bExit`, which the
  thread sets next; a Close between the two stores deletes the object of a thread that
  goes on to use it (`sv_thread.h:53`, 166-167).
* `push_mgr_callback`: a callback on the muxer thread that calls the API during
  Close waits for ever, and so does Close (`pushmgr.cpp:367`).
* `cloud_channel_resume`: after a long pause a sender keeps its packet for ever
  unless it is a key frame (`cloud_sunvalley.c:1022`).
* `frame_gate_hevc`: the type of an HEVC unit is read without the shift, so that a
  parameter set does not end a gap (`basepush.cpp:1719`).
* `segment_recorder_race`: a packet of the next segment is written to the recorder
  that the muxer thread is closing for the last one (`basepush.cpp:1863`).

More is plain in the models and has no run of its own.

* PUSH_SEGMENT_END does not tell what isvpush.h:42 says it does, the "segment video
  duration": it tells the time stamp of the last picture sent (`basepush.cpp:1335`). The
  two agree only when the time stamps begin at 0 in each segment, as those of the demo
  do (`cloud_sunvalley.c:966-971`); in `segment_recorder` they run on, and the second
  segment is told more than its duration. A segment none of whose pictures was sent is
  told INT64_MIN. `TellsLastPicture` says what the code does tell, which is not what
  the header promises.
* When pthread_create fails Connect succeeds and CONNECT_SUCCESS is told, but nothing is
  ever sent and no event ends the connection (`rtmppush.cpp:122`).
* A parameter set alone ends a gap, and so does an IDR picture that the full queue then
  refuses (`basepush.cpp:1697`): what follows may refer to pictures that were refused.
* An empty packet makes the scan for a start code run past it: `nSize - 1` wraps
  (`basepush.cpp:1681`, 1717).
* get_frame_buffer aborts the process when the limit on buffers is reached, before
  it looks at the free list (`framequeue.h:354`): `Abort("limit")` is a step of
  frame_queue, and `OnlyLimitAborts` says it is the only such step.
* PUSH_SEGMENT_END is told before the result of the send is looked at
  (`basepush.cpp:1332`), so also for a stream end that failed; `SegmentEndSettled`
  says what it can be relied on for.
* Is_Connected answers 1 after the thread has died of an error: Unpublish resets
  the flag only when the thread was stopped (`basepush.cpp:1405`). An orderly Close
  is reported as an exit with error when the last frame was refused by the packetiser
  (`basepush.cpp:1424`). `EndTellsWhy` says how much the end event does tell.
* STREAM_END of a sender can go to the next connection, and TIGGER_TYPE_CHANGE to
  none, because each call reads the id anew (`cloud_sunvalley.c:1078`).
* A crash before a recorder is closed leaves a file with an empty header, which
  rec_demux.c reads all the same, as H264. The header's count of pictures is the
  number of packets less one, the audio ones included.

## Not modelled

* The RTMP library: the submodule is empty. A send succeeds, fails or blocks.
* The encryption of a frame, the token request over HTTP: data of one call.
* The end of the process when the scan of an empty packet leaves the memory it may read.
  The other modules have no empty packets.
* The byte counters of a segment, which are only logged.
* What a sender or trigger that wakes up after `main` has freed the arrays reads
  there, in the instant before the process exits; and the two UnInitialize calls
  meeting on the manager pointer, which no lock covers.
* Live triggers, configuration, record files: the sender sees a sequence of
  packets of two kinds.
* The task pool (`push_task.hpp`, `lbsp_utility_thread.hpp`, `sdk/main.cpp`): in no
  makefile, and it does not compile against the headers beside it.
* Reading record files: one thread parses one file.
* Running one CLazyThread twice: no code does.

Most of the tree is not the project's: of some 350 000 lines nearly all are headers
and sources of OpenSSL and other libraries, in several copies for several boards.
The program's own code is about 14 000 lines, half of it samples, logging,
measurement and code that is compiled out; the models cover the part that runs when
frames are pushed. No mapping of the program's own lines could reach a third of the
tree.

## Plan

Done, in this order: FrameQueue with its proofs, BasePush, PushMgr, CloudChannel,
then main's shutdown, FrameGate, SegmentRecorder and the proofs of each; the
refinements as theorems, and the safety properties that were model-checked only. Left:

1. Calls that nest deeper than one level in PushMgr, and the proofs for them.
2. An abstract registry of connections that PushMgr implements, as a property of
   its run first.
