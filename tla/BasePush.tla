------------------------------ MODULE BasePush ------------------------------
(***************************************************************************)
(* One push connection (sdk/basepush.cpp, sdk/rtmppush.cpp) from Connect to*)
(* the deletion of the object: the calls of the application, the muxer     *)
(* thread (CBasePush::MuxerProc on a CLazyThread of common/sv_thread.h),   *)
(* and the events the application is told.                                 *)
(*                                                                         *)
(* The manager's lock serialises the application's calls, so the whole     *)
(* application is one process, "app".  The muxer thread takes no lock of   *)
(* the manager and runs between any two steps of a call.                   *)
(*                                                                         *)
(* Abstracted: the payload of a frame (its kind and size are kept), the    *)
(* RTMP library (a send succeeds, fails, or blocks until the socket is     *)
(* closed), the pool of buffers (see FrameQueue), check_frame (a frame it  *)
(* refuses changes nothing here), the local recording of sent packets.     *)
(***************************************************************************)
EXTENDS Naturals, Sequences, SequencesExt, FiniteSets, ByteCounts

CONSTANTS MaxFrames,     \* bound: frames accepted in one connection
          Sizes,         \* sizes of media frames
          MaxBytes,      \* g_nMemoryPoolSize
          StartsInTime   \* Run sees m_bRun before its 50 ms are over

ASSUME MaxFramesAssumption == MaxFrames \in Nat
ASSUME SizesAssumption == Sizes \subseteq Nat \ {0}
ASSUME MaxBytesAssumption == MaxBytes \in Nat
ASSUME StartsInTimeAssumption == StartsInTime \in BOOLEAN

Ids == 1 .. MaxFrames

\* Metadata is small; its exact size does not matter here.
MetadataSize == 1
Frame == [id : Ids, kind : {"media", "start", "end"}, size : Nat]

\* What can become of a frame: refused by the protocol's packetiser, packed
\* into nothing, skipped because of an earlier failure, failed while sent.
Fates == {"none", "queued", "taken", "sent", "refused", "empty", "skipped",
          "failed", "discarded"}

VARIABLES
  app,           \* what the application's call is doing
  thread,        \* where the muxer thread is
  m_bRun,        \* m_MuxerThread.m_bRun, what IsAlive returns
  m_bExit,       \* m_MuxerThread.m_bExit, what IsExit returns
  m_bConnected,
  m_bBufferFull,
  m_MuxerQueue,  \* the frames that wait for the muxer thread, oldest first
  taken,         \* the frames the muxer thread works on: at most one
  ret,           \* the local variable ret of MuxerProc: "ok" or "failed"
  socket,        \* "open", "stalled" (a send blocks) or "closed" by CloseSocket
  accepted,      \* how many frames have been accepted
  fate,          \* what became of each accepted frame
  delivered,     \* history: the frames sent, oldest first
  paused,        \* the last of PAUSE and RESUME the application was told
  segment_ends,  \* the stream ends announced by PUSH_SEGMENT_END
  closed_by,     \* the events that end the connection, oldest first
  send_errors    \* history: a send or a heartbeat has failed

callVars   == <<app, m_bConnected>>
threadVars == <<thread, m_bRun, m_bExit>>
frameVars  == <<m_MuxerQueue, taken, accepted, fate, delivered>>
toldVars   == <<paused, segment_ends, closed_by>>
sendVars   == <<ret, send_errors>>
vars == <<callVars, threadVars, frameVars, toldVars, sendVars, m_bBufferFull, socket>>

-----------------------------------------------------------------------------
QueuedBytes == Load([i \in DOMAIN m_MuxerQueue |-> m_MuxerQueue[i].size])

\* mutant: the size of the new frame is left out of the test
FitsBeforePush(n) == QueuedBytes <= MaxBytes

Fits(n) == QueuedBytes + n <= MaxBytes

Init == /\ app = "new" /\ thread = "none"
        /\ m_bRun = FALSE /\ m_bExit = TRUE
        /\ m_bConnected = FALSE /\ m_bBufferFull = FALSE
        /\ m_MuxerQueue = <<>> /\ taken = <<>>
        /\ ret = "ok" /\ socket = "open"
        /\ accepted = 0
        /\ fate = [i \in Ids |-> "none"]
        /\ delivered = <<>>
        /\ paused = FALSE /\ segment_ends = {} /\ closed_by = <<>>
        /\ send_errors = FALSE

-----------------------------------------------------------------------------
(* The application's calls.                                                *)

\* A step of CRtmpPush::Connect fails: PUBLISH_STREAM_FAILED, Close (no thread
\* to wait for), and the manager deletes the object.
ConnectFails == /\ app = "new"
                /\ app' = "deleted"
                /\ socket' = "closed"
                /\ UNCHANGED <<m_bConnected, m_bBufferFull>>
                /\ UNCHANGED <<threadVars, frameVars, toldVars, sendVars>>

\* OnConnect, and Start as far as pthread_create.  When that fails there is no
\* thread, and Connect, which does not look at the result, succeeds all the same.
ConnectServer == /\ app = "new"
                 /\ app' = "starting"
                 /\ m_bConnected' = TRUE
                 /\ thread' \in {"none", "created"}
                 /\ UNCHANGED <<m_bRun, m_bExit, m_bBufferFull, socket>>
                 /\ UNCHANGED <<frameVars, toldVars, sendVars>>

\* Run stops waiting, because the thread has set m_bRun or after 50 ms (it does
\* not wait for m_bExit = 0, the next store); CONNECT_SUCCESS is told, and the
\* call returns the connection's id.
ConnectReturns == /\ app = "starting"
                  /\ StartsInTime => thread # "created"
                  /\ app' = "idle"
                  /\ UNCHANGED <<m_bConnected, m_bBufferFull, socket>>
                  /\ UNCHANGED <<threadVars, frameVars, toldVars, sendVars>>

Queue(kind, size) ==
  /\ accepted < MaxFrames
  /\ accepted' = accepted + 1
  /\ m_MuxerQueue' = Append(m_MuxerQueue,
                            [id |-> accepted + 1, kind |-> kind, size |-> size])
  /\ fate' = [fate EXCEPT ![accepted + 1] = "queued"]
  /\ UNCHANGED <<taken, delivered>>

\* SendPacket, or SendEncryptPacket on its behalf, up to the push.  The size
\* test comes next, whether the push succeeded or not.
PushMedia(size) == \/ Fits(size) /\ Queue("media", size)
                   \/ ~Fits(size) /\ UNCHANGED frameVars

SendPacket(size) == /\ app = "idle" /\ m_bConnected
                    /\ app' = "pushed"
                    /\ PushMedia(size)
                    /\ UNCHANGED <<m_bConnected, m_bBufferFull, socket>>
                    /\ UNCHANGED <<threadVars, toldVars, sendVars>>

\* More than half of the memory is queued, or not.
TestQueueSize == /\ app = "pushed"
                 /\ app' = IF QueuedBytes > MaxBytes \div 2 THEN "pausing" ELSE "idle"
                 /\ UNCHANGED <<m_bConnected, m_bBufferFull, socket>>
                 /\ UNCHANGED <<threadVars, frameVars, toldVars, sendVars>>

\* OnCallbackNotify(PAUSE_MEDIA_PUSH), and then the flag.
NotifyPause == /\ app = "pausing"
               /\ app' = "flagging"
               /\ paused' = TRUE
               /\ UNCHANGED <<m_bConnected, m_bBufferFull, socket,
                              segment_ends, closed_by>>
               /\ UNCHANGED <<threadVars, frameVars, sendVars>>

SetBufferFull == /\ app = "flagging"
                 /\ app' = "idle"
                 /\ m_bBufferFull' = TRUE
                 /\ UNCHANGED <<m_bConnected, socket>>
                 /\ UNCHANGED <<threadVars, frameVars, toldVars, sendVars>>

\* SendMetadata tests neither m_bConnected nor the size of the queue; a frame
\* that does not fit goes back to the pool.
SendMetadata(kind) == /\ app = "idle"
                      /\ Fits(MetadataSize)
                      /\ Queue(kind, MetadataSize)
                      /\ UNCHANGED <<m_bBufferFull, socket>>
                      /\ UNCHANGED <<callVars, threadVars, toldVars, sendVars>>

\* CSVPushMgr::Close and CBasePush::Close begin with Stop.
Close == /\ app = "idle"
         /\ app' = "stopping"
         /\ UNCHANGED <<m_bConnected, m_bBufferFull, socket>>
         /\ UNCHANGED <<threadVars, frameVars, toldVars, sendVars>>

\* mutant: the socket is never closed
StopWithoutClosing == /\ app \in {"stopping", "restopping"}
                      /\ app' = "waiting"
                      /\ m_bRun' = FALSE
                      /\ UNCHANGED <<m_bConnected, m_bBufferFull, socket, thread, m_bExit>>
                      /\ UNCHANGED <<frameVars, toldVars, sendVars>>

\* One round of Stop's loop.  The first one closes the socket only when a send
\* has been blocked for a while, the next one always.
StopThread == /\ app \in {"stopping", "restopping"}
              /\ app' = "waiting"
              /\ m_bRun' = FALSE
              /\ \/ socket' = "closed"
                 \/ app = "stopping" /\ socket' = socket
              /\ UNCHANGED <<m_bConnected, m_bBufferFull, thread, m_bExit>>
              /\ UNCHANGED <<frameVars, toldVars, sendVars>>

\* The rest of Close, and the deletion of the object by the manager.
Delete == /\ app' = "deleted"
          /\ m_bConnected' = FALSE
          /\ m_MuxerQueue' = <<>>
          /\ fate' = [i \in Ids |-> IF fate[i] = "queued" THEN "discarded" ELSE fate[i]]
          /\ socket' = "closed"
          /\ UNCHANGED <<taken, accepted, delivered, m_bBufferFull>>
          /\ UNCHANGED <<threadVars, toldVars, sendVars>>

StopAgain == /\ app' = "restopping"
             /\ UNCHANGED <<m_bConnected, m_bBufferFull, socket>>
             /\ UNCHANGED <<threadVars, frameVars, toldVars, sendVars>>

\* mutant: Stop does not wait for the thread
DeleteAtOnce == app = "waiting" /\ Delete

WaitForExit == /\ app = "waiting"
               /\ \/ m_bExit /\ Delete
                  \/ ~m_bExit /\ StopAgain

-----------------------------------------------------------------------------
(* The muxer thread.  What it does after the deletion of the object has no *)
(* meaning, so its steps are only those of a live object.                  *)
(* NoThreadOutlives, which says that there are no others, does not hold;   *)
(* EndsBeforeDeletion says what does.                                      *)

\* InitialThreadProc sets m_bRun and then m_bExit.
ThreadStarts == /\ thread = "created"
                /\ thread' = "entered"
                /\ m_bRun' = TRUE
                /\ UNCHANGED <<m_bExit, m_bBufferFull, socket>>
                /\ UNCHANGED <<callVars, frameVars, toldVars, sendVars>>

ThreadEnters == /\ thread = "entered"
                /\ thread' = "looping"
                /\ m_bExit' = FALSE
                /\ UNCHANGED <<m_bRun, m_bBufferFull, socket>>
                /\ UNCHANGED <<callVars, frameVars, toldVars, sendVars>>

\* mutant: the newest frame is taken
TakeNewest == /\ thread = "looping" /\ m_bRun /\ m_MuxerQueue # <<>>
              /\ thread' = "muxing"
              /\ taken' = <<Last(m_MuxerQueue)>>
              /\ m_MuxerQueue' = Front(m_MuxerQueue)
              /\ fate' = [fate EXCEPT ![Last(m_MuxerQueue).id] = "taken"]
              /\ UNCHANGED <<m_bRun, m_bExit, m_bBufferFull, socket, accepted, delivered>>
              /\ UNCHANGED <<callVars, toldVars, sendVars>>

\* pop_frame
TakeFrame == /\ thread = "looping" /\ m_bRun /\ m_MuxerQueue # <<>>
             /\ thread' = "muxing"
             /\ taken' = <<Head(m_MuxerQueue)>>
             /\ m_MuxerQueue' = Tail(m_MuxerQueue)
             /\ fate' = [fate EXCEPT ![Head(m_MuxerQueue).id] = "taken"]
             /\ UNCHANGED <<m_bRun, m_bExit, m_bBufferFull, socket, accepted, delivered>>
             /\ UNCHANGED <<callVars, toldVars, sendVars>>

\* The frame leaves the thread's hands with the fate what.
Finish(what) == /\ taken' = <<>>
                /\ fate' = [fate EXCEPT ![taken[1].id] = what]
                /\ UNCHANGED <<m_MuxerQueue, accepted>>

\* OnSendPacket packs a media frame, into nothing (parameter sets are kept
\* back) or into a message, or refuses it.
MuxMedia == /\ thread = "muxing" /\ taken[1].kind = "media"
            /\ \/ /\ ret' = "failed" /\ Finish("refused")
                  /\ thread' = "looping"
               \/ /\ ret' = "ok" /\ Finish("empty")
                  /\ thread' = "looping"
               \/ /\ ret' = "ok" /\ UNCHANGED <<m_MuxerQueue, taken, accepted, fate>>
                  /\ thread' = "sending"
            /\ UNCHANGED <<m_bRun, m_bExit, m_bBufferFull, socket, delivered, send_errors>>
            /\ UNCHANGED <<callVars, toldVars>>

\* Metadata is only cloned, and ret keeps the result of the previous frame:
\* after a refused frame the metadata is dropped.
MuxMetadata == /\ thread = "muxing" /\ taken[1].kind # "media"
               /\ \/ /\ ret = "failed" /\ Finish("skipped")
                     /\ thread' = "looping"
                  \/ /\ ret = "ok" /\ UNCHANGED <<m_MuxerQueue, taken, accepted, fate>>
                     /\ thread' = "sending"
               /\ UNCHANGED <<m_bRun, m_bExit, m_bBufferFull, socket, delivered>>
               /\ UNCHANGED <<callVars, toldVars, sendVars>>

\* A stream end is announced before the result of the send is looked at.
Announce == segment_ends' = segment_ends
              \cup (IF taken[1].kind = "end" THEN {taken[1].id} ELSE {})

SendSucceeds == /\ socket = "open"
                /\ Finish("sent")
                /\ delivered' = Append(delivered, taken[1].id)
                /\ ret' = "ok"
                /\ thread' = "looping"
                /\ UNCHANGED send_errors

SendFails(next) == /\ socket # "stalled"
                   /\ Finish("failed")
                   /\ ret' = "failed"
                   /\ send_errors' = TRUE
                   /\ thread' = next
                   /\ UNCHANGED delivered

\* mutant: the loop goes on after a failed send
SendAndGoOn == /\ thread = "sending"
               /\ Announce
               /\ SendSucceeds \/ SendFails("looping")
               /\ UNCHANGED <<m_bRun, m_bExit, m_bBufferFull, socket, paused, closed_by>>
               /\ UNCHANGED callVars

SendFrame == /\ thread = "sending"
             /\ Announce
             /\ SendSucceeds \/ SendFails("leaving")
             /\ UNCHANGED <<m_bRun, m_bExit, m_bBufferFull, socket, paused, closed_by>>
             /\ UNCHANGED callVars

\* pop_frame finds nothing.
FindEmpty == /\ thread = "looping" /\ m_bRun /\ m_MuxerQueue = <<>>
             /\ thread' = "empty"
             /\ UNCHANGED <<m_bRun, m_bExit, m_bBufferFull, socket>>
             /\ UNCHANGED <<callVars, frameVars, toldVars, sendVars>>

TestBufferFull == /\ thread = "empty"
                  /\ thread' = IF m_bBufferFull THEN "resuming" ELSE "idling"
                  /\ UNCHANGED <<m_bRun, m_bExit, m_bBufferFull, socket>>
                  /\ UNCHANGED <<callVars, frameVars, toldVars, sendVars>>

\* mutant: the flag is cleared without the message
ResumeUntold == /\ thread = "resuming"
                /\ thread' = "clearing"
                /\ UNCHANGED <<m_bRun, m_bExit, m_bBufferFull, socket>>
                /\ UNCHANGED <<callVars, frameVars, toldVars, sendVars>>

\* OnCallbackNotify(RESUME_MEDIA_PUSH), and then the flag.
NotifyResume == /\ thread = "resuming"
                /\ thread' = "clearing"
                /\ paused' = FALSE
                /\ UNCHANGED <<m_bRun, m_bExit, m_bBufferFull, socket,
                               segment_ends, closed_by>>
                /\ UNCHANGED <<callVars, frameVars, sendVars>>

ClearBufferFull == /\ thread = "clearing"
                   /\ thread' = "idling"
                   /\ m_bBufferFull' = FALSE
                   /\ UNCHANGED <<m_bRun, m_bExit, socket>>
                   /\ UNCHANGED <<callVars, frameVars, toldVars, sendVars>>

\* mutant: the thread never looks at its queue again
SleepForever == /\ thread = "idling"
                /\ UNCHANGED <<thread, ret, send_errors>>
                /\ UNCHANGED <<m_bRun, m_bExit, m_bBufferFull, socket>>
                /\ UNCHANGED <<callVars, frameVars, toldVars>>

\* mutant: a failed heartbeat ends the thread and leaves ret alone
HeartBeatUnnoted == /\ thread = "idling"
                    /\ \/ thread' = "looping" /\ UNCHANGED send_errors
                       \/ /\ socket # "stalled"
                          /\ thread' = "leaving" /\ send_errors' = TRUE
                    /\ UNCHANGED ret
                    /\ UNCHANGED <<m_bRun, m_bExit, m_bBufferFull, socket>>
                    /\ UNCHANGED <<callVars, frameVars, toldVars>>

\* A heartbeat is sent when nothing has been for m_llintervalmsgtime; then the
\* thread sleeps for 20 ms.
HeartBeat == /\ thread = "idling"
             /\ \/ thread' = "looping" /\ UNCHANGED <<ret, send_errors>>
                \/ /\ socket = "open"
                   /\ thread' = "looping" /\ ret' = "ok" /\ UNCHANGED send_errors
                \/ /\ socket # "stalled"
                   /\ thread' = "leaving" /\ ret' = "failed" /\ send_errors' = TRUE
             /\ UNCHANGED <<m_bRun, m_bExit, m_bBufferFull, socket>>
             /\ UNCHANGED <<callVars, frameVars, toldVars>>

LeaveLoop == /\ thread = "looping" /\ ~m_bRun
             /\ thread' = "leaving"
             /\ UNCHANGED <<m_bRun, m_bExit, m_bBufferFull, socket>>
             /\ UNCHANGED <<callVars, frameVars, toldVars, sendVars>>

\* mutant: a stopped thread is not reported
UnpublishAndExit == /\ thread = "leaving"
                    /\ m_bConnected' = (m_bRun /\ m_bConnected)
                    /\ thread' = IF m_bRun THEN "reporting" ELSE "exiting"
                    /\ UNCHANGED <<app, m_bRun, m_bExit, m_bBufferFull, socket>>
                    /\ UNCHANGED <<frameVars, toldVars, sendVars>>

\* Unpublish, but only when the thread was stopped: after an error the
\* connection still counts as connected.
Unpublish == /\ thread = "leaving"
             /\ m_bConnected' = (m_bRun /\ m_bConnected)
             /\ thread' = "reporting"
             /\ UNCHANGED <<app, m_bRun, m_bExit, m_bBufferFull, socket>>
             /\ UNCHANGED <<frameVars, toldVars, sendVars>>

\* SEND_THREAD_EXIT_WITH_ERROR or CONNECT_CLOSE, as ret says.
NotifyEnd == /\ thread = "reporting"
             /\ closed_by' = Append(closed_by, IF ret = "failed" THEN "error" ELSE "close")
             /\ thread' = "exiting"
             /\ UNCHANGED <<m_bRun, m_bExit, m_bBufferFull, socket, paused, segment_ends>>
             /\ UNCHANGED <<callVars, frameVars, sendVars>>

ThreadExits == /\ thread = "exiting"
               /\ thread' = "done"
               /\ m_bRun' = FALSE /\ m_bExit' = TRUE
               /\ UNCHANGED <<m_bBufferFull, socket>>
               /\ UNCHANGED <<callVars, frameVars, toldVars, sendVars>>

\* The network: a send may block for as long as the socket is open.
Stall == /\ app # "deleted"
         /\ \/ socket = "open" /\ socket' = "stalled"
            \/ socket = "stalled" /\ socket' = "open"
         /\ UNCHANGED m_bBufferFull
         /\ UNCHANGED <<callVars, threadVars, frameVars, toldVars, sendVars>>

-----------------------------------------------------------------------------
\* Steps the application starts when it likes, and steps of a call under way.
NewCall == \/ ConnectFails \/ ConnectServer \/ Close
           \/ \E size \in Sizes : SendPacket(size)
           \/ \E kind \in {"start", "end"} : SendMetadata(kind)

CallStep == \/ ConnectReturns \/ TestQueueSize \/ NotifyPause \/ SetBufferFull
            \/ StopThread \/ WaitForExit

MuxerStep == /\ app # "deleted"
             /\ \/ ThreadStarts \/ ThreadEnters
                \/ TakeFrame \/ MuxMedia \/ MuxMetadata \/ SendFrame
                \/ FindEmpty \/ TestBufferFull \/ NotifyResume \/ ClearBufferFull \/ HeartBeat
                \/ LeaveLoop \/ Unpublish \/ NotifyEnd \/ ThreadExits

Next == NewCall \/ CallStep \/ MuxerStep \/ Stall

\* A call that has begun goes on, and the operating system runs the thread.
\* The application need not call, and the network need not recover.
Fairness == WF_vars(CallStep) /\ WF_vars(MuxerStep)

Spec == Init /\ [][Next]_vars
FairSpec == Spec /\ Fairness

-----------------------------------------------------------------------------
(* What is checked.                                                        *)

\* The variables have their types, and the queue keeps within its memory.
TypeOK ==
  /\ app \in {"new", "starting", "idle", "pushed", "pausing", "flagging",
              "stopping", "restopping", "waiting", "deleted"}
  /\ thread \in {"none", "created", "entered", "looping", "muxing", "sending",
                 "empty", "resuming", "clearing", "idling", "leaving", "reporting",
                 "exiting", "done"}
  /\ {m_bRun, m_bExit, m_bConnected, m_bBufferFull, paused, send_errors} \subseteq BOOLEAN
  /\ m_MuxerQueue \in Seq(Frame) /\ QueuedBytes <= MaxBytes
  /\ taken \in Seq(Frame) /\ Len(taken) <= 1
  /\ ret \in {"ok", "failed"}
  /\ socket \in {"open", "stalled", "closed"}
  /\ accepted \in 0 .. MaxFrames
  /\ fate \in [Ids -> Fates]
  /\ delivered \in Seq(Ids)
  /\ segment_ends \subseteq Ids
  /\ closed_by \in Seq({"close", "error"})

\* An object is deleted before its thread has passed m_bExit = 0, or after the
\* thread is over and has told exactly one of CONNECT_CLOSE and
\* SEND_THREAD_EXIT_WITH_ERROR: a thread that has reached its loop never uses a
\* deleted connection, and its application knows of the end when Close returns.
\* Stop has no join to rely on (the thread is detached), only the two flags.
EndsBeforeDeletion ==
  app = "deleted" => \/ thread \in {"none", "created", "entered"} /\ closed_by = <<>>
                     \/ thread = "done" /\ Len(closed_by) = 1

\* The loop of Stop says "waiting for m_MuxerThread stop" (basepush.cpp:1652).
\* It does not wait for a thread that has not passed m_bExit = 0.
NoThreadOutlives == app = "deleted" => thread \in {"none", "done"}

\* A metadata frame is dropped for no reason but the media frame right before
\* it (or before its dropped predecessors) being refused.
SkippedBehindRefused ==
  \A i \in Ids : fate[i] = "skipped" =>
    \E j \in 1 .. i - 1 : /\ fate[j] = "refused"
                          /\ \A k \in j + 1 .. i - 1 : fate[k] = "skipped"

\* When PUSH_SEGMENT_END is told, nothing of the segment is on its way any more:
\* the stream end and every frame before it have had their turn.  (It does not
\* say that the stream end arrived: Announce comes before the result.)
SegmentEndSettled ==
  \A i \in segment_ends : \A j \in 1 .. i : fate[j] \notin {"queued", "taken"}

\* The media frame i was refused, and every frame since has been left alone.
LastRefused(i) == /\ fate[i] = "refused"
                  /\ \A k \in i + 1 .. MaxFrames :
                       fate[k] \in {"skipped", "queued", "discarded", "none"}

\* The event that ends a connection says how: a failed send or heartbeat is never
\* told as an orderly end; an end with error has a failure behind it, or a last
\* frame the packetiser refused; and an application that still sees the
\* connection as connected when its thread is over has been told of an error.
EndTellsWhy ==
  closed_by # <<>> =>
    /\ send_errors \/ m_bConnected => closed_by = <<"error">>
    /\ closed_by = <<"error">> => send_errors \/ \E i \in Ids : LastRefused(i)

\* The connection is the lossy channel: in order, nothing twice, nothing after
\* its end.  On the way are the frames in the thread's hands and in the queue.
OnTheWay == [i \in DOMAIN (taken \o m_MuxerQueue) |-> (taken \o m_MuxerQueue)[i].id]
Over == app = "deleted" \/ thread \in {"reporting", "exiting", "done"}
Channel == INSTANCE LossyChannel WITH pending <- OnTheWay, ended <- Over
ChannelSpec == Channel!Spec

\* Close returns, even when a send is blocked and stays so.
CloseReturns == app = "stopping" ~> app = "deleted"

\* A frame leaves the queue, unless there is no thread or the network stalls.
FramesMoveOn ==
  \A i \in Ids : fate[i] = "queued"
     ~> (fate[i] # "queued" \/ thread \in {"none", "done"} \/ socket = "stalled")

\* An application that was told to pause, and whose pause m_bBufferFull records,
\* is told to resume, unless the thread ends, the object is deleted or the
\* network stalls.  A pause told while the thread is about to clear the flag for
\* the RESUME before is another matter: see PausedIsResumed.
FullIsResumed ==
  paused /\ m_bBufferFull /\ thread # "clearing"
    ~> (~paused \/ thread \in {"none", "done"} \/ app = "deleted" \/ socket = "stalled")

\* A connection that fails is told to the application without its doing, also
\* when Close comes in between: it is what makes the application connect again.
ErrorIsTold == send_errors ~> closed_by # <<>>

\* isvpush.h: PAUSE_MEDIA_PUSH is due to a full queue.  While the application
\* is paused with nothing queued, something will still tell it to resume.
PausedIsResumed == /\ paused /\ app = "idle" /\ m_MuxerQueue = <<>>
                   /\ thread \in {"looping", "idling"}
                   => m_bBufferFull
=============================================================================
