--------------------------- MODULE SegmentRecorder ---------------------------
(***************************************************************************)
(* The segments of one connection (sdk/basepush.cpp) and the recorder that *)
(* goes with them.  An application brackets its media by the metadata      *)
(* STREAM_START and STREAM_END.  If it has asked for it (RecordSendPacket),*)
(* SendPacket opens a file with the first video packet and writes every    *)
(* packet to it on the application's thread; the muxer thread closes the   *)
(* file and deletes the recorder when the STREAM_END has come through the  *)
(* queue.  m_pRecMuxer is all they share, and no lock covers it.  The muxer*)
(* thread also tells PUSH_SEGMENT_END, with the time of the last picture.  *)
(*                                                                         *)
(* A file is the packets written to it and whether its header has been:    *)
(* HS004RecordMuxer (sdk/lbsp_ipc_record.hpp) leaves room for the header   *)
(* and writes it, marked complete, when it is closed.                      *)
(*                                                                         *)
(* Time stamps are the numbers of the packets.  Audio has a time stamp of  *)
(* its own, which is treated alike and left out.                           *)
(***************************************************************************)
EXTENDS Naturals, Sequences, FiniteSets

CONSTANTS Urls, NoUrl,
          MaxRecorders,  \* bound: recorders ever created
          MaxPackets,    \* bound: media packets ever sent
          MaxSegments,   \* bound: segments ever started
          MaxQueue,      \* how many frames the queue takes
          Careful,       \* the application waits for PUSH_SEGMENT_END before
                         \* it starts the next segment, and asks for a record
                         \* between two segments only
          FileOpens      \* fopen always succeeds

ASSUME UrlAssumption   == NoUrl \notin Urls
ASSUME BoundAssumption == {MaxRecorders, MaxPackets, MaxSegments, MaxQueue} \subseteq Nat
ASSUME UseAssumption   == {Careful, FileOpens} \subseteq BOOLEAN

Recorders == 1 .. MaxRecorders
Segments  == 1 .. MaxSegments
None      == 0      \* the null pointer
NoTime    == 0      \* INT64_MIN
Frame     == [kind : {"video", "audio", "start", "end"}, segment : Segments,
              pts : 0 .. MaxPackets]

VARIABLES
  m_precord_url,
  m_pRecMuxer,         \* the recorder, or None
  recorder,            \* the recorders and the files they write
  file,                \* the files
  app,                 \* what the application's call is doing,
  hold,                \* with which recorder,
  packet,              \* and with which packet
  inside,              \* the application is between START and END
  waiting,             \* it has sent an END and not been told
  segment,             \* segments started so far
  packets,             \* the packets sent so far: their kinds and segments
  m_MuxerQueue,
  thread,              \* where the muxer thread is,
  taken,               \* and the frame it works on: at most one
  ret,                 \* ret of MuxerProc: "ok" or "failed"
  m_bStreamSendStart,
  m_llLastSendVPts,
  sent,                \* history: the pictures of each segment that were sent
  told                 \* history: what PUSH_SEGMENT_END said of each segment

recVars  == <<m_pRecMuxer, recorder, file>>
appVars  == <<m_precord_url, app, hold, packet, inside, segment, packets>>
muxVars  == <<thread, taken, ret, m_bStreamSendStart, m_llLastSendVPts, sent, told>>
vars == <<recVars, appVars, waiting, m_MuxerQueue, muxVars>>

NewFile == [complete |-> FALSE, frames |-> <<>>]

Init == /\ m_precord_url = NoUrl
        /\ m_pRecMuxer = None
        /\ recorder = [r \in Recorders |-> [state |-> "none", url |-> NoUrl]]
        /\ file = [u \in Urls |-> NewFile]
        /\ app = "idle" /\ hold = None /\ packet = <<>>
        /\ inside = FALSE /\ waiting = FALSE
        /\ segment = 0 /\ packets = <<>>
        /\ m_MuxerQueue = <<>>
        /\ thread = "looping" /\ taken = <<>> /\ ret = "ok"
        /\ m_bStreamSendStart = FALSE
        /\ m_llLastSendVPts = NoTime
        /\ sent = [s \in Segments |-> {}]
        /\ told = [s \in Segments |-> {}]

-----------------------------------------------------------------------------
(* The application's calls.                                                *)

RecordSendPacket(url) == /\ app = "idle"
                         /\ Careful => ~inside /\ ~waiting
                         /\ m_precord_url' = url
                         /\ UNCHANGED <<app, hold, packet, inside, segment, packets>>
                         /\ UNCHANGED <<recVars, waiting, m_MuxerQueue, muxVars>>

\* SendPacket: on_recv_packet looks whether there is a recorder.
SendPacket(kind) ==
  /\ app = "idle" /\ inside /\ Len(packets) < MaxPackets
  /\ packets' = Append(packets, [kind |-> kind, segment |-> segment])
  /\ packet' = <<[kind |-> kind, segment |-> segment, pts |-> Len(packets) + 1]>>
  /\ app' = IF m_pRecMuxer = None /\ m_precord_url # NoUrl /\ kind = "video"
            THEN "creating" ELSE "testing"
  /\ UNCHANGED <<m_precord_url, hold, inside, segment>>
  /\ UNCHANGED <<recVars, waiting, m_MuxerQueue, muxVars>>

Unused == {r \in Recorders : recorder[r].state = "none"}
Become(r, state) == recorder' = [recorder EXCEPT ![r].state = state]

CreateRecorder ==
  /\ app = "creating"
  /\ \E r \in Unused : /\ \A q \in Unused : r <= q
                        /\ Become(r, "new")
                        /\ m_pRecMuxer' = r
                        /\ hold' = r
  /\ app' = "opening"
  /\ UNCHANGED <<file, m_precord_url, packet, inside, segment, packets>>
  /\ UNCHANGED <<waiting, m_MuxerQueue, muxVars>>

\* open creates the file, or empties the one that has this name.  Its result is
\* not looked at.
OpenRecorder ==
  /\ app = "opening"
  /\ \E result \in {"open"} \cup (IF FileOpens THEN {} ELSE {"unopened"}) :
       /\ recorder' = [recorder EXCEPT ![hold] = [state |-> result, url |-> m_precord_url]]
       /\ file' = IF result = "open" THEN [file EXCEPT ![m_precord_url] = NewFile] ELSE file
  /\ app' = "testing" /\ hold' = None
  /\ UNCHANGED <<m_pRecMuxer, m_precord_url, packet, inside, segment, packets>>
  /\ UNCHANGED <<waiting, m_MuxerQueue, muxVars>>

TestRecorder ==
  /\ app = "testing"
  /\ app' = IF m_pRecMuxer # None THEN "writing" ELSE "pushing"
  /\ hold' = m_pRecMuxer
  /\ UNCHANGED <<m_precord_url, packet, inside, segment, packets>>
  /\ UNCHANGED <<recVars, waiting, m_MuxerQueue, muxVars>>

\* writeframe, for a recorder that has a file (see OneInside).
WriteFrame ==
  /\ app = "writing"
  /\ file' = [u \in Urls |-> IF u = recorder[hold].url
                            THEN [file[u] EXCEPT !.frames = Append(@, packet[1].pts)]
                            ELSE file[u]]
  /\ app' = "pushing" /\ hold' = None
  /\ UNCHANGED <<m_pRecMuxer, recorder, m_precord_url, packet, inside, segment, packets>>
  /\ UNCHANGED <<waiting, m_MuxerQueue, muxVars>>

\* mutant: a full queue takes one more
FitsOneMore == Len(m_MuxerQueue) <= MaxQueue

Fits == Len(m_MuxerQueue) < MaxQueue

\* The rest of SendPacket: the gate or a full queue may refuse the packet,
\* which has been recorded by then.
PushPacket ==
  /\ app = "pushing"
  /\ \/ Fits /\ m_MuxerQueue' = m_MuxerQueue \o packet
     \/ UNCHANGED m_MuxerQueue
  /\ app' = "idle" /\ packet' = <<>>
  /\ UNCHANGED <<m_precord_url, hold, inside, segment, packets>>
  /\ UNCHANGED <<recVars, waiting, muxVars>>

PushMetadata(kind, s) == /\ app = "idle" /\ Fits
                         /\ m_MuxerQueue' = Append(m_MuxerQueue,
                              [kind |-> kind, segment |-> s, pts |-> NoTime])
                         /\ UNCHANGED <<m_precord_url, app, hold, packet, packets>>
                         /\ UNCHANGED <<recVars, muxVars>>

\* SendMetadata.  The application sees a refusal and has then not started, or
\* not ended, the segment.  A START may follow a START.
SendStart == /\ segment < MaxSegments
             /\ Careful => ~waiting /\ (inside => m_precord_url = NoUrl)
             /\ PushMetadata("start", segment + 1)
             /\ inside' = TRUE /\ segment' = segment + 1
             /\ UNCHANGED waiting

SendEnd == /\ inside
           /\ PushMetadata("end", segment)
           /\ inside' = FALSE /\ waiting' = TRUE
           /\ UNCHANGED segment

\* Close stops the thread and waits for it; then the recorder is its own.
Close == /\ app = "idle"
         /\ app' = "stopping"
         /\ UNCHANGED <<m_precord_url, hold, packet, inside, segment, packets>>
         /\ UNCHANGED <<recVars, waiting, m_MuxerQueue, muxVars>>

\* mutant: Close forgets the recorder
CloseForgets == /\ app = "stopping" /\ thread = "gone"
                /\ app' = "deleted"
                /\ m_MuxerQueue' = <<>>
                /\ UNCHANGED <<m_precord_url, hold, packet, inside, segment, packets>>
                /\ UNCHANGED <<recVars, waiting, muxVars>>

\* close writes the header of the recorder's file; only the open ones have one.
Completed(r) == [u \in Urls |-> IF recorder[r].state = "open" /\ u = recorder[r].url
                               THEN [file[u] EXCEPT !.complete = TRUE] ELSE file[u]]

CloseRest ==
  /\ app = "stopping" /\ thread = "gone"
  /\ app' = "deleted"
  /\ m_MuxerQueue' = <<>>
  /\ m_pRecMuxer' = None
  /\ IF m_pRecMuxer = None THEN UNCHANGED <<recorder, file>>
     ELSE Become(m_pRecMuxer, "deleted") /\ file' = Completed(m_pRecMuxer)
  /\ UNCHANGED <<m_precord_url, hold, packet, inside, segment, packets>>
  /\ UNCHANGED <<waiting, muxVars>>

-----------------------------------------------------------------------------
(* The muxer thread.                                                       *)

\* mutant: the time stamps of the last segment stay
StartKeepsTime == /\ m_bStreamSendStart' = TRUE
                  /\ UNCHANGED m_llLastSendVPts

\* The rest of OnSegmentSendStart.
SegmentStarts == /\ m_bStreamSendStart' = TRUE
                 /\ m_llLastSendVPts' = NoTime

\* mutant: the end of a segment does not close its recording
EndKeepsRecorder == "ended"

\* OnSegmentSendEnd begins: the test of m_pRecMuxer decides where it goes on.
EndBegins == IF m_pRecMuxer # None THEN "closing" ELSE "ended"

TakeFrame ==
  /\ thread = "looping" /\ app # "stopping" /\ m_MuxerQueue # <<>>
  /\ taken' = <<Head(m_MuxerQueue)>>
  /\ m_MuxerQueue' = Tail(m_MuxerQueue)
  /\ LET kind == Head(m_MuxerQueue).kind
     IN  \/ /\ kind \in {"video", "audio"}
            /\ thread' = "muxing"
            /\ UNCHANGED <<m_bStreamSendStart, m_llLastSendVPts>>
         \/ /\ kind = "start" /\ ~m_bStreamSendStart
            /\ thread' = "sending"
            /\ SegmentStarts
         \/ /\ kind = "end" \/ (kind = "start" /\ m_bStreamSendStart)
            /\ thread' = EndBegins
            /\ m_bStreamSendStart' = FALSE
            /\ UNCHANGED m_llLastSendVPts
  /\ UNCHANGED <<recVars, appVars, waiting, ret, sent, told>>

CloseRecorder == /\ thread = "closing"
                 /\ thread' = "deleting"
                 /\ Become(m_pRecMuxer, "closed")
                 /\ file' = Completed(m_pRecMuxer)
                 /\ UNCHANGED <<m_pRecMuxer, taken, ret, m_bStreamSendStart,
                                m_llLastSendVPts, sent, told>>
                 /\ UNCHANGED <<appVars, waiting, m_MuxerQueue>>

DeleteRecorder == /\ thread = "deleting"
                  /\ thread' = "clearing"
                  /\ Become(m_pRecMuxer, "deleted")
                  /\ UNCHANGED <<m_pRecMuxer, file, taken, ret, m_bStreamSendStart,
                                 m_llLastSendVPts, sent, told>>
                  /\ UNCHANGED <<appVars, waiting, m_MuxerQueue>>

\* mutant: the pointer keeps the deleted recorder
KeepPointer == /\ thread = "clearing"
               /\ thread' = "ended"
               /\ UNCHANGED <<taken, ret, m_bStreamSendStart, m_llLastSendVPts, sent, told>>
               /\ UNCHANGED <<recVars, appVars, waiting, m_MuxerQueue>>

ClearRecorder == /\ thread = "clearing"
                 /\ thread' = "ended"
                 /\ m_pRecMuxer' = None
                 /\ UNCHANGED <<recorder, file, taken, ret, m_bStreamSendStart,
                                m_llLastSendVPts, sent, told>>
                 /\ UNCHANGED <<appVars, waiting, m_MuxerQueue>>

\* OnSegmentSendEnd returns, to the loop or to OnSegmentSendStart.
EndReturns == /\ thread = "ended"
              /\ thread' = "sending"
              /\ \/ taken[1].kind = "start" /\ SegmentStarts
                 \/ /\ taken[1].kind = "end"
                    /\ UNCHANGED <<m_bStreamSendStart, m_llLastSendVPts>>
              /\ UNCHANGED <<taken, ret, sent, told>>
              /\ UNCHANGED <<recVars, appVars, waiting, m_MuxerQueue>>

\* OnSendPacket refuses the packet, packs it into nothing or into a message.
MuxMedia == /\ thread = "muxing"
            /\ \/ /\ thread' = "looping" /\ taken' = <<>>
                  /\ ret' \in {"failed", "ok"}
               \/ /\ thread' = "sending" /\ ret' = "ok" /\ UNCHANGED taken
            /\ UNCHANGED <<m_bStreamSendStart, m_llLastSendVPts, sent, told>>
            /\ UNCHANGED <<recVars, appVars, waiting, m_MuxerQueue>>

\* Metadata is dropped when the packet before it failed: its ret is looked at.
DropMetadata == /\ thread = "sending" /\ ret = "failed"
                /\ thread' = "looping" /\ taken' = <<>>
                /\ UNCHANGED <<ret, m_bStreamSendStart, m_llLastSendVPts, sent, told>>
                /\ UNCHANGED <<recVars, appVars, waiting, m_MuxerQueue>>

TimeOfPicture(f) == /\ m_llLastSendVPts' = IF f.kind = "video" THEN f.pts ELSE m_llLastSendVPts
                    /\ sent' = IF f.kind = "video"
                               THEN [sent EXCEPT ![f.segment] = @ \cup {f.pts}] ELSE sent

\* SendFrame; then the time stamp and PUSH_SEGMENT_END, and only then the result.
SendFrame == /\ thread = "sending" /\ ret = "ok"
             /\ TimeOfPicture(taken[1])
             /\ IF taken[1].kind = "end"
                THEN /\ told' = [told EXCEPT ![taken[1].segment] = {m_llLastSendVPts}]
                     /\ waiting' = FALSE
                ELSE UNCHANGED <<told, waiting>>
             /\ taken' = <<>>
             /\ thread' \in {"looping", "gone"}
             /\ UNCHANGED <<ret, m_bStreamSendStart>>
             /\ UNCHANGED <<recVars, appVars, m_MuxerQueue>>

\* A heartbeat fails, or the thread sees that it is stopped.
ThreadEnds == /\ thread = "looping"
              /\ app = "stopping" \/ m_MuxerQueue = <<>>
              /\ thread' = "gone"
              /\ UNCHANGED <<taken, ret, m_bStreamSendStart, m_llLastSendVPts, sent, told>>
              /\ UNCHANGED <<recVars, appVars, waiting, m_MuxerQueue>>

-----------------------------------------------------------------------------
CallStep == CreateRecorder \/ OpenRecorder \/ TestRecorder \/ WriteFrame \/ PushPacket
              \/ CloseRest
AppStep == \/ \E url \in Urls \cup {NoUrl} : RecordSendPacket(url)
           \/ \E kind \in {"video", "audio"} : SendPacket(kind)
           \/ SendStart \/ SendEnd \/ Close
           \/ CallStep

ThreadStep == TakeFrame \/ CloseRecorder \/ DeleteRecorder \/ ClearRecorder \/ EndReturns
                \/ MuxMedia \/ DropMetadata \/ SendFrame \/ (app = "stopping" /\ ThreadEnds)

Next == AppStep \/ ThreadStep \/ ThreadEnds

Spec == Init /\ [][Next]_vars
FairSpec == Spec /\ WF_vars(CallStep) /\ WF_vars(ThreadStep)

-----------------------------------------------------------------------------
(* What is checked.                                                        *)

TypeOK == /\ m_precord_url \in Urls \cup {NoUrl}
          /\ m_pRecMuxer \in Recorders \cup {None}
          /\ recorder \in [Recorders ->
               [state : {"none", "new", "open", "unopened", "closed", "deleted"},
                url : Urls \cup {NoUrl}]]
          /\ file \in [Urls -> [complete : BOOLEAN, frames : Seq(1 .. MaxPackets)]]
          /\ app \in {"idle", "creating", "opening", "testing", "writing", "pushing",
                      "stopping", "deleted"}
          /\ hold \in Recorders \cup {None}
          /\ packet \in Seq(Frame) /\ Len(packet) <= 1
          /\ inside \in BOOLEAN /\ waiting \in BOOLEAN
          /\ segment \in 0 .. MaxSegments 
          /\ packets \in Seq([kind : {"video", "audio"}, segment : Segments])
          /\ Len(packets) <= MaxPackets
          /\ m_MuxerQueue \in Seq(Frame) /\ Len(m_MuxerQueue) <= MaxQueue
          /\ thread \in {"looping", "muxing", "closing", "deleting", "clearing", "ended",
                         "sending", "gone"}
          /\ taken \in Seq(Frame) /\ Len(taken) <= 1
          /\ ret \in {"ok", "failed"}
          /\ m_bStreamSendStart \in BOOLEAN
          /\ m_llLastSendVPts \in 0 .. MaxPackets
          /\ sent \in [Segments -> SUBSET (1 .. MaxPackets)]
          /\ told \in [Segments -> SUBSET (0 .. MaxPackets)]

Ending == thread \in {"closing", "deleting", "clearing"}

\* The two threads are never inside the recorder together, and nobody writes to
\* one that is deleted or has no file.
OneInside == /\ app \in {"opening", "writing"} => ~Ending
             /\ app = "opening" => recorder[hold].state = "new"
             /\ app = "writing" => recorder[hold].state = "open"

\* Every recorder that exists can be reached, by m_pRecMuxer, so that somebody
\* closes its file; Close leaves none.
Exists(r) == recorder[r].state \notin {"none", "deleted"}
NoneLost == \A r \in Recorders : Exists(r) => r = m_pRecMuxer /\ app # "deleted"

\* A complete file holds one segment, from its first recorded packet to its last
\* packet, and nothing else: the end of a segment, which travels through the
\* queue, is not overtaken by the packets of the next one.
WholeSegment == \A u \in Urls : file[u].complete =>
  LET f == file[u].frames
      s == packets[f[1]].segment
  IN  /\ f = [i \in DOMAIN f |-> f[1] + i - 1]
      /\ \A k \in DOMAIN packets : k >= f[1] => (packets[k].segment = s <=> k <= f[Len(f)])

\* PUSH_SEGMENT_END tells the time stamp of the last picture of that segment which
\* was sent, and of no earlier segment; if none was, it tells INT64_MIN.  This is
\* NOT the "segment video duration" of isvpush.h:42, except for an application
\* whose time stamps begin at 0 in each segment, as the demo's do; here they run
\* on, and the second segment is told more than its duration.
TellsLastPicture == \A s \in Segments : \A t \in told[s] :
  IF sent[s] = {} THEN t = NoTime ELSE t \in sent[s] /\ \A u \in sent[s] : u <= t

\* A recording whose segment has ended is closed, unless the thread is gone; then
\* Close does it.
Records(r, s) == /\ recorder[r].state = "open"
                 /\ \E i \in DOMAIN file[recorder[r].url].frames :
                      packets[file[recorder[r].url].frames[i]].segment = s
Ended(s) == s < segment \/ (s = segment /\ ~inside)
RecordingEnds == \A r \in Recorders, s \in Segments :
  Records(r, s) /\ Ended(s) ~> recorder[r].state = "deleted" \/ thread = "gone"
=============================================================================
