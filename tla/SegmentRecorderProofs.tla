------------------------ MODULE SegmentRecorderProofs ------------------------
(***************************************************************************)
(* Theorems about SegmentRecorder.                                         *)
(*                                                                         *)
(* For an application that waits for PUSH_SEGMENT_END and asks for a record*)
(* between two segments (Careful): the recorder the two threads share is   *)
(* never in the hands of both, none is ever lost, and a complete file holds*)
(* one segment.  The point of the proof is that a STREAM_END, which is what*)
(* makes the muxer thread touch the recorder, is in flight only while the  *)
(* application is outside a segment.                                       *)
(*                                                                         *)
(* For every application: PUSH_SEGMENT_END tells the last picture that was *)
(* sent.  The argument is the order of the frames in flight, segment by    *)
(* segment and each after its STREAM_START, where the thread forgets the   *)
(* time stamp of the segment before.                                       *)
(***************************************************************************)
EXTENDS SegmentRecorder, SequenceTheorems, TLAPS

Is(f, kind) == f # <<>> /\ f[1].kind = kind

Kinds == {"video", "audio"}
InCall == {"creating", "opening", "testing", "writing", "pushing"}

\* A call of the application has a packet and is inside a segment, the thread
\* has a frame except in its loop, and a recorder when it closes one; media has a
\* time stamp.
Held == /\ taken = <<>> <=> thread \in {"looping", "gone"}
        /\ thread = "muxing" => taken[1].kind \in Kinds
        /\ app \in InCall => inside /\ packet # <<>>
        /\ packet # <<>> => packet[1].kind \in Kinds /\ packet[1].pts # NoTime
        /\ inside => segment \in Segments
        /\ \A i \in DOMAIN m_MuxerQueue :
             m_MuxerQueue[i].kind \in Kinds => m_MuxerQueue[i].pts # NoTime
        /\ taken # <<>> /\ taken[1].kind \in Kinds => taken[1].pts # NoTime
        /\ Ending => m_pRecMuxer # None

\* A STREAM_END is the last thing in flight, and the application waits for it;
\* once it knows that the segment is over nothing of it is left.
Bracketed ==
  /\ waiting => ~inside
  /\ \A i \in DOMAIN m_MuxerQueue :
       m_MuxerQueue[i].kind = "end" => waiting /\ i = Len(m_MuxerQueue)
  /\ Is(taken, "end") => waiting /\ m_MuxerQueue = <<>> /\ ~m_bStreamSendStart
  /\ ~inside /\ ~waiting => ~m_bStreamSendStart /\ ~Is(taken, "start")
  /\ \A i \in DOMAIN m_MuxerQueue :
       m_MuxerQueue[i].kind = "start" => inside \/ waiting

\* A segment that is recorded has one STREAM_START.
OneStart ==
  m_precord_url # NoUrl =>
    /\ \A i, j \in DOMAIN m_MuxerQueue :
         m_MuxerQueue[i].kind = "start" /\ m_MuxerQueue[j].kind = "start" => i = j
    /\ \A i \in DOMAIN m_MuxerQueue :
         m_MuxerQueue[i].kind = "start" => ~m_bStreamSendStart /\ ~Is(taken, "start")

\* The thread has the recorder for a STREAM_END only, and afterwards there is none.
Closed ==
  /\ Ending => Is(taken, "end")
  /\ Is(taken, "end") /\ thread \in {"ended", "sending"} => m_pRecMuxer = None
  /\ ~inside /\ ~waiting => m_pRecMuxer = None
  /\ m_precord_url = NoUrl => m_pRecMuxer = None /\ app \notin {"creating", "opening"}

\* What the application's call holds is the recorder, in the state it expects.
Owned ==
  /\ NoneLost
  /\ app = "creating" => m_pRecMuxer = None
  /\ app \in {"opening", "writing"} => hold = m_pRecMuxer /\ m_pRecMuxer # None
  /\ app = "opening" => recorder[m_pRecMuxer].state = "new"
  /\ FileOpens /\ m_pRecMuxer # None /\ app # "opening" /\ thread \notin {"deleting", "clearing"}
       => recorder[m_pRecMuxer].state = "open"
  /\ thread = "clearing" => ~Exists(m_pRecMuxer)
  /\ app = "deleted" => thread = "gone" /\ m_pRecMuxer = None

IInv == TypeOK /\ Held /\ Bracketed /\ OneStart /\ Closed /\ Owned

LEMMA Bounds == /\ MaxRecorders \in Nat /\ MaxPackets \in Nat
                /\ MaxSegments \in Nat /\ MaxQueue \in Nat
BY BoundAssumption

\* The type invariant in four parts: the recorders and files, the frames, the
\* history of the time stamps, and the rest.
Stores == /\ recorder \in [Recorders ->
               [state : {"none", "new", "open", "unopened", "closed", "deleted"},
                url : Urls \cup {NoUrl}]]
          /\ file \in [Urls -> [complete : BOOLEAN, frames : Seq(1 .. MaxPackets)]]

Lanes == /\ packet \in Seq(Frame) /\ Len(packet) <= 1
         /\ packets \in Seq([kind : Kinds, segment : Segments]) /\ Len(packets) <= MaxPackets
         /\ m_MuxerQueue \in Seq(Frame) /\ Len(m_MuxerQueue) <= MaxQueue
         /\ taken \in Seq(Frame) /\ Len(taken) <= 1

Facts == /\ sent \in [Segments -> SUBSET (1 .. MaxPackets)]
         /\ told \in [Segments -> SUBSET (0 .. MaxPackets)]
         /\ m_llLastSendVPts \in 0 .. MaxPackets

Words == /\ m_precord_url \in Urls \cup {NoUrl}
         /\ m_pRecMuxer \in Recorders \cup {None}
         /\ app \in InCall \cup {"idle", "stopping", "deleted"}
         /\ hold \in Recorders \cup {None}
         /\ inside \in BOOLEAN /\ waiting \in BOOLEAN
         /\ segment \in 0 .. MaxSegments
         /\ thread \in {"looping", "muxing", "closing", "deleting", "clearing", "ended",
                        "sending", "gone"}
         /\ ret \in {"ok", "failed"}
         /\ m_bStreamSendStart \in BOOLEAN

LEMMA TypeParts == TypeOK <=> Stores /\ Lanes /\ Facts /\ Words
BY DEF TypeOK, Stores, Lanes, Facts, Words, InCall, Kinds

LEMMA InitInv == Init => IInv
<1>. SUFFICES ASSUME Init PROVE IInv
  OBVIOUS
<1>. USE DEF Init
<1>1. TypeOK
  <2>1. file \in [Urls -> [complete : BOOLEAN, frames : Seq(1 .. MaxPackets)]]
    BY DEF NewFile
  <2>2. recorder \in [Recorders ->
                      [state : {"none", "new", "open", "unopened", "closed", "deleted"},
                       url : Urls \cup {NoUrl}]]
    OBVIOUS
  <2>3. /\ packet \in Seq(Frame) /\ m_MuxerQueue \in Seq(Frame) /\ taken \in Seq(Frame)
        /\ Len(packet) = 0 /\ Len(m_MuxerQueue) = 0 /\ Len(taken) = 0 /\ Len(packets) = 0
        /\ packets \in Seq([kind : Kinds, segment : Segments])
    OBVIOUS
  <2>4. sent \in [Segments -> SUBSET (1 .. MaxPackets)]
        /\ told \in [Segments -> SUBSET (0 .. MaxPackets)]
    OBVIOUS
  <2>5. Stores /\ Lanes
    BY <2>1, <2>2, <2>3, Bounds DEF Stores, Lanes
  <2>6. Facts
    BY <2>4, Bounds DEF Facts, NoTime
  <2>7. Words
    <3>1. app \in InCall \cup {"idle", "stopping", "deleted"}
      OBVIOUS
    <3>2. m_pRecMuxer \in Recorders \cup {None} /\ hold \in Recorders \cup {None}
      OBVIOUS
    <3>3. segment \in 0 .. MaxSegments
      BY Bounds
    <3>. QED BY <3>1, <3>2, <3>3 DEF Words
  <2>. QED BY <2>5, <2>6, <2>7, TypeParts
<1>2. Held
  BY DEF Held, Ending, InCall
<1>3. Bracketed /\ OneStart
  BY DEF Bracketed, OneStart, Is
<1>4. Closed /\ Owned
  BY DEF Closed, Owned, NoneLost, Exists, Ending, Is
<1>. QED BY <1>1, <1>2, <1>3, <1>4 DEF IInv

-----------------------------------------------------------------------------
LEMMA NextStores == Stores /\ Lanes /\ Words /\ Held /\ [Next]_vars => Stores'
<1>. SUFFICES ASSUME Stores, Lanes, Words, Held, [Next]_vars PROVE Stores'
  OBVIOUS
<1>. USE DEF recVars, appVars, muxVars
<1>1. CASE UNCHANGED <<recorder, file>>
  BY <1>1 DEF Stores
<1>2. CASE CreateRecorder
  <2>1. PICK r \in Recorders : Become(r, "new") /\ file' = file
    BY <1>2 DEF CreateRecorder, Unused
  <2>. QED BY <2>1 DEF Become, Stores
<1>3. CASE OpenRecorder
  <2>1. recorder' \in [Recorders ->
               [state : {"none", "new", "open", "unopened", "closed", "deleted"},
                url : Urls \cup {NoUrl}]]
    <3>1. PICK result \in {"open", "unopened"} :
             recorder' = [recorder EXCEPT ![hold] = [state |-> result, url |-> m_precord_url]]
      BY <1>3 DEF OpenRecorder
    <3>. QED BY <3>1 DEF Stores, Words
  <2>2. NewFile \in [complete : BOOLEAN, frames : Seq(1 .. MaxPackets)]
    BY DEF NewFile
  <2>3. file' = file \/ file' = [file EXCEPT ![m_precord_url] = NewFile]
    BY <1>3 DEF OpenRecorder
  <2>. QED BY <2>1, <2>2, <2>3 DEF Stores
<1>4. CASE WriteFrame
  <2>1. packet[1].pts \in 1 .. MaxPackets
    <3>1. packet # <<>> /\ packet[1].pts # NoTime
      BY <1>4 DEF WriteFrame, Held, InCall
    <3>2. packet[1] \in Frame
      BY <3>1 DEF Lanes
    <3>. QED BY <3>1, <3>2, Bounds DEF Frame, NoTime
  <2>2. ASSUME NEW u \in Urls
        PROVE  [file[u] EXCEPT !.frames = Append(@, packet[1].pts)]
                 \in [complete : BOOLEAN, frames : Seq(1 .. MaxPackets)]
    <3>1. file[u] \in [complete : BOOLEAN, frames : Seq(1 .. MaxPackets)]
      BY DEF Stores
    <3>2. Append(file[u].frames, packet[1].pts) \in Seq(1 .. MaxPackets)
      BY <2>1, <3>1
    <3>. QED BY <3>1, <3>2
  <2>. QED BY <1>4, <2>2 DEF WriteFrame, Stores
<1>5. ASSUME NEW r \in Recorders, NEW state \in {"closed", "deleted"}, Become(r, state),
             file' = file \/ file' = Completed(r)
      PROVE  Stores'
  <2>1. recorder' \in [Recorders ->
               [state : {"none", "new", "open", "unopened", "closed", "deleted"},
                url : Urls \cup {NoUrl}]]
    BY <1>5 DEF Become, Stores
  <2>2. Completed(r) \in [Urls -> [complete : BOOLEAN, frames : Seq(1 .. MaxPackets)]]
    BY DEF Completed, Stores
  <2>. QED BY <1>5, <2>1, <2>2 DEF Stores
<1>6. CASE CloseRest \/ CloseRecorder \/ DeleteRecorder
  <2>1. \/ UNCHANGED <<recorder, file>>
        \/ /\ m_pRecMuxer # None
           /\ \E state \in {"closed", "deleted"} : Become(m_pRecMuxer, state)
           /\ file' = file \/ file' = Completed(m_pRecMuxer)
    BY <1>6 DEF CloseRest, CloseRecorder, DeleteRecorder, Held, Ending
  <2>. QED BY <1>1, <1>5, <2>1 DEF Words
<1>. QED BY <1>1, <1>2, <1>3, <1>4, <1>6
         DEF Next, AppStep, CallStep, ThreadStep, vars, RecordSendPacket, SendPacket, SendStart,
             SendEnd, PushMetadata, Close, TestRecorder, PushPacket, TakeFrame, ClearRecorder,
             EndReturns, MuxMedia, DropMetadata, SendFrame, ThreadEnds

LEMMA NextLanes == Lanes /\ Words /\ Held /\ [Next]_vars => Lanes'
<1>. SUFFICES ASSUME Lanes, Words, Held, [Next]_vars PROVE Lanes'
  OBVIOUS
<1>. USE Bounds DEF recVars, appVars, muxVars
<1>1. ASSUME UNCHANGED <<packet, packets, m_MuxerQueue>>, taken' \in {taken, <<>>} PROVE Lanes'
  <2>1. taken' \in Seq(Frame) /\ Len(taken') <= 1
    <3>1. CASE taken' = taken
      BY <3>1 DEF Lanes
    <3>2. CASE taken' = <<>>
      BY <3>2
    <3>. QED BY <1>1, <3>1, <3>2
  <2>. QED BY <1>1, <2>1 DEF Lanes
<1>2. ASSUME NEW kind \in {"video", "audio"}, SendPacket(kind) PROVE Lanes'
  <2>1. segment \in Segments
    BY <1>2 DEF SendPacket, Held
  <2>2. /\ packet' = <<[kind |-> kind, segment |-> segment, pts |-> Len(packets) + 1]>>
        /\ packets' = Append(packets, [kind |-> kind, segment |-> segment])
        /\ Len(packets) < MaxPackets /\ UNCHANGED <<m_MuxerQueue, taken>>
    BY <1>2 DEF SendPacket
  <2>3. [kind |-> kind, segment |-> segment, pts |-> Len(packets) + 1] \in Frame
    BY <2>1, <2>2 DEF Lanes, Frame
  <2>4. [kind |-> kind, segment |-> segment] \in [kind : Kinds, segment : Segments]
    BY <2>1 DEF Kinds
  <2>. QED BY <2>2, <2>3, <2>4 DEF Lanes
<1>3. ASSUME SendStart \/ SendEnd PROVE Lanes'
  <2>1. PICK f \in Frame : m_MuxerQueue' = Append(m_MuxerQueue, f)
    <3>1. ASSUME NEW kind \in {"start", "end"}, NEW s \in Segments, PushMetadata(kind, s)
          PROVE  \E f \in Frame : m_MuxerQueue' = Append(m_MuxerQueue, f)
      <4>1. [kind |-> kind, segment |-> s, pts |-> NoTime] \in Frame
        BY DEF Frame, NoTime
      <4>. QED BY <3>1, <4>1 DEF PushMetadata
    <3>2. CASE SendStart
      <4>1. segment + 1 \in Segments /\ PushMetadata("start", segment + 1)
        BY <3>2 DEF SendStart, Words, Segments
      <4>. QED BY <3>1, <4>1
    <3>3. CASE SendEnd
      <4>1. segment \in Segments /\ PushMetadata("end", segment)
        BY <3>3 DEF SendEnd, Held
      <4>. QED BY <3>1, <4>1
    <3>. QED BY <1>3, <3>2, <3>3
  <2>2. Len(m_MuxerQueue) < MaxQueue /\ UNCHANGED <<packet, packets, taken>>
    BY <1>3 DEF SendStart, SendEnd, PushMetadata, Fits
  <2>. QED BY <2>1, <2>2 DEF Lanes
<1>4. CASE PushPacket
  <2>1. \/ UNCHANGED m_MuxerQueue
        \/ Len(m_MuxerQueue) < MaxQueue /\ m_MuxerQueue' = m_MuxerQueue \o packet
    BY <1>4 DEF PushPacket, Fits
  <2>2. packet' = <<>> /\ UNCHANGED <<packets, taken>>
    BY <1>4 DEF PushPacket
  <2>3. m_MuxerQueue' \in Seq(Frame) /\ Len(m_MuxerQueue') <= MaxQueue
    <3>1. /\ m_MuxerQueue \in Seq(Frame) /\ packet \in Seq(Frame) /\ Len(packet) <= 1
          /\ Len(m_MuxerQueue) \in Nat /\ Len(packet) \in Nat /\ Len(m_MuxerQueue) <= MaxQueue
      BY DEF Lanes
    <3>2. /\ m_MuxerQueue \o packet \in Seq(Frame)
          /\ Len(m_MuxerQueue \o packet) = Len(m_MuxerQueue) + Len(packet)
      BY <3>1, ConcatProperties
    <3>3. Len(m_MuxerQueue) < MaxQueue => Len(m_MuxerQueue \o packet) <= MaxQueue
      BY <3>1, <3>2
    <3>. QED BY <2>1, <3>1, <3>2, <3>3
  <2>4. packet' \in Seq(Frame) /\ Len(packet') = 0
    BY <2>2
  <2>. QED BY <2>2, <2>3, <2>4 DEF Lanes
<1>5. CASE CloseRest
  BY <1>5 DEF CloseRest, Lanes
<1>6. CASE TakeFrame
  <2>1. /\ m_MuxerQueue # <<>> /\ taken' = <<Head(m_MuxerQueue)>>
        /\ m_MuxerQueue' = Tail(m_MuxerQueue) /\ UNCHANGED <<packet, packets>>
    BY <1>6 DEF TakeFrame
  <2>2. Head(m_MuxerQueue) \in Frame /\ Tail(m_MuxerQueue) \in Seq(Frame)
        /\ Len(Tail(m_MuxerQueue)) <= MaxQueue
    BY <2>1 DEF Lanes
  <2>. QED BY <2>1, <2>2 DEF Lanes
<1>. QED BY <1>1, <1>2, <1>3, <1>4, <1>5, <1>6
         DEF Next, AppStep, CallStep, ThreadStep, vars, RecordSendPacket, Close, CreateRecorder,
             OpenRecorder, TestRecorder, WriteFrame, CloseRecorder, DeleteRecorder,
             ClearRecorder, EndReturns, MuxMedia, DropMetadata, SendFrame, ThreadEnds

LEMMA NextFacts == Facts /\ Lanes /\ Held /\ [Next]_vars => Facts'
<1>. SUFFICES ASSUME Facts, Lanes, Held, [Next]_vars PROVE Facts'
  OBVIOUS
<1>. USE Bounds DEF recVars, appVars, muxVars, NoTime
<1>1. ASSUME UNCHANGED <<sent, told>>, m_llLastSendVPts' \in {m_llLastSendVPts, NoTime}
      PROVE  Facts'
  BY <1>1 DEF Facts
<1>2. CASE SendFrame
  <2>1. taken[1] \in Frame /\ (taken[1].kind \in Kinds => taken[1].pts # NoTime)
    BY <1>2 DEF SendFrame, Held, Lanes
  <2>2. taken[1].kind = "video" => taken[1].pts \in 1 .. MaxPackets
    BY <2>1 DEF Frame, Kinds
  <2>3. m_llLastSendVPts' \in 0 .. MaxPackets
    BY <1>2, <2>2 DEF SendFrame, TimeOfPicture, Facts
  <2>4. sent' \in [Segments -> SUBSET (1 .. MaxPackets)]
    BY <1>2, <2>2 DEF SendFrame, TimeOfPicture, Facts
  <2>5. told' \in [Segments -> SUBSET (0 .. MaxPackets)]
    BY <1>2 DEF SendFrame, Facts
  <2>. QED BY <2>3, <2>4, <2>5 DEF Facts
<1>. QED BY <1>1, <1>2
         DEF Next, AppStep, CallStep, ThreadStep, vars, RecordSendPacket, SendPacket, SendStart,
             SendEnd, PushMetadata, Close, CreateRecorder, OpenRecorder, TestRecorder,
             WriteFrame, PushPacket, CloseRest, TakeFrame, SegmentStarts, CloseRecorder,
             DeleteRecorder, ClearRecorder, EndReturns, MuxMedia, DropMetadata, ThreadEnds

LEMMA NextWords == Words /\ [Next]_vars => Words'
<1>. SUFFICES ASSUME Words, [Next]_vars PROVE Words'
  OBVIOUS
<1>. USE Bounds DEF recVars, appVars, muxVars, Words, InCall
<1>1. ASSUME NEW url \in Urls \cup {NoUrl}, RecordSendPacket(url) PROVE Words'
  BY <1>1 DEF RecordSendPacket
<1>2. ASSUME NEW kind \in {"video", "audio"}, SendPacket(kind) PROVE Words'
  BY <1>2 DEF SendPacket
<1>3. CASE SendStart \/ SendEnd
  <2>1. /\ UNCHANGED <<m_precord_url, m_pRecMuxer, app, hold, thread, ret, m_bStreamSendStart>>
        /\ inside' \in BOOLEAN /\ waiting' \in {waiting, TRUE}
        /\ segment' = segment \/ (segment < MaxSegments /\ segment' = segment + 1)
    BY <1>3 DEF SendStart, SendEnd, PushMetadata
  <2>2. segment' \in 0 .. MaxSegments
    BY <2>1
  <2>3. waiting' \in BOOLEAN
    BY <2>1
  <2>. QED BY <2>1, <2>2, <2>3
<1>4. CASE Close \/ CreateRecorder \/ OpenRecorder \/ TestRecorder \/ WriteFrame \/ PushPacket
  BY <1>4 DEF Close, CreateRecorder, OpenRecorder, TestRecorder, WriteFrame, PushPacket, Unused
<1>5. CASE CloseRest
  BY <1>5 DEF CloseRest
<1>6. CASE TakeFrame
  BY <1>6, ZenonT(60) DEF TakeFrame, SegmentStarts, EndBegins
<1>7. CASE CloseRecorder \/ DeleteRecorder \/ ClearRecorder \/ ThreadEnds
  BY <1>7 DEF CloseRecorder, DeleteRecorder, ClearRecorder, ThreadEnds
<1>8. CASE EndReturns \/ MuxMedia \/ DropMetadata
  BY <1>8, ZenonT(60) DEF EndReturns, MuxMedia, DropMetadata, SegmentStarts
<1>9. CASE SendFrame
  BY <1>9 DEF SendFrame
<1>10. CASE UNCHANGED vars
  BY <1>10 DEF vars
<1>. QED BY <1>1, <1>2, <1>3, <1>4, <1>5, <1>6, <1>7, <1>8, <1>9, <1>10
         DEF Next, AppStep, CallStep, ThreadStep

LEMMA NextHeld == Lanes /\ Words /\ Held /\ [Next]_vars => Held'
<1>. SUFFICES ASSUME Lanes, Words, Held, [Next]_vars PROVE Held'
  OBVIOUS
<1>. USE Bounds DEF Held, Ending, InCall, Kinds, NoTime, recVars, appVars, muxVars
<1>1. ASSUME NEW url \in Urls \cup {NoUrl}, RecordSendPacket(url) PROVE Held'
  BY <1>1 DEF RecordSendPacket
<1>2. ASSUME NEW kind \in {"video", "audio"}, SendPacket(kind) PROVE Held'
  BY <1>2 DEF SendPacket, Lanes, Words
<1>3. ASSUME SendStart \/ SendEnd PROVE Held'
  <2>1. PICK f \in [kind : {"start", "end"}, segment : Nat, pts : {NoTime}] :
          m_MuxerQueue' = Append(m_MuxerQueue, f)
    BY <1>3 DEF SendStart, SendEnd, PushMetadata, Words
  <2>2. \A i \in DOMAIN m_MuxerQueue' :
           m_MuxerQueue'[i].kind \in Kinds => m_MuxerQueue'[i].pts # NoTime
    BY <2>1 DEF Lanes
  <2>3. inside' => segment' \in Segments
    BY <1>3 DEF SendStart, SendEnd, Words, Segments
  <2>4. app = "idle" /\ UNCHANGED <<app, packet, thread, taken, m_pRecMuxer>>
    BY <1>3 DEF SendStart, SendEnd, PushMetadata
  <2>. QED BY <2>2, <2>3, <2>4
<1>4. CASE Close \/ CreateRecorder \/ OpenRecorder \/ TestRecorder \/ WriteFrame
  BY <1>4 DEF Close, CreateRecorder, OpenRecorder, TestRecorder, WriteFrame, Unused, Recorders,
              None
<1>5. CASE PushPacket
  <2>1. \A i \in DOMAIN (m_MuxerQueue \o packet) :
           \/ i \in DOMAIN m_MuxerQueue /\ (m_MuxerQueue \o packet)[i] = m_MuxerQueue[i]
           \/ packet # <<>> /\ (m_MuxerQueue \o packet)[i] = packet[1]
    <3>. HIDE DEF Held
    <3>. QED BY DEF Lanes
  <2>2. \A i \in DOMAIN m_MuxerQueue' :
           m_MuxerQueue'[i].kind \in Kinds => m_MuxerQueue'[i].pts # NoTime
    BY <1>5, <2>1 DEF PushPacket
  <2>3. app' = "idle" /\ packet' = <<>> /\ UNCHANGED <<thread, taken, inside, segment, m_pRecMuxer>>
    BY <1>5 DEF PushPacket
  <2>. QED BY <2>2, <2>3
<1>6. CASE CloseRest
  BY <1>6 DEF CloseRest
<1>7. CASE TakeFrame
  BY <1>7 DEF TakeFrame, EndBegins, Lanes
<1>8. CASE \/ CloseRecorder \/ DeleteRecorder \/ ClearRecorder \/ EndReturns \/ MuxMedia
           \/ DropMetadata \/ ThreadEnds \/ SendFrame
  BY <1>8 DEF CloseRecorder, DeleteRecorder, ClearRecorder, EndReturns, MuxMedia,
              DropMetadata, ThreadEnds, SendFrame
<1>9. CASE UNCHANGED vars
  BY <1>9 DEF vars
<1>. QED BY <1>1, <1>2, <1>3, <1>4, <1>5, <1>6, <1>7, <1>8, <1>9
         DEF Next, AppStep, CallStep, ThreadStep

\* What the frames are and where the thread and the call are: this much holds of
\* every application.
Shapes == Lanes /\ Facts /\ Words /\ Held

LEMMA NextShapes == Shapes /\ [Next]_vars => Shapes'
BY NextLanes, NextFacts, NextWords, NextHeld DEF Shapes

LEMMA NextTypes == TypeOK /\ Held /\ [Next]_vars => TypeOK' /\ Held'
<1>. SUFFICES ASSUME TypeOK, Held, [Next]_vars PROVE TypeOK' /\ Held'
  OBVIOUS
<1>1. Stores' /\ Shapes'
  BY NextStores, NextShapes, TypeParts DEF Shapes
<1>. QED BY <1>1 DEF TypeOK, Shapes, Stores, Lanes, Facts, Words, InCall, Kinds

\* The types of the recorder's state, whatever the application does.
THEOREM TypeCorrect == Spec => []TypeOK
<1>1. Init => TypeOK /\ Held
  BY InitInv DEF IInv
<1>. QED BY <1>1, NextTypes, PTL DEF Spec

-----------------------------------------------------------------------------
\* The queue's operations, frame by frame.
LEMMA Taken ==
  ASSUME TypeOK, TakeFrame
  PROVE  /\ m_MuxerQueue # <<>> /\ Head(m_MuxerQueue) = m_MuxerQueue[1] /\ taken' # <<>>
         /\ taken'[1] = m_MuxerQueue[1]
         /\ Len(m_MuxerQueue) \in Nat \ {0} /\ DOMAIN m_MuxerQueue = 1 .. Len(m_MuxerQueue)
         /\ DOMAIN m_MuxerQueue' = 1 .. Len(m_MuxerQueue) - 1
         /\ Len(m_MuxerQueue') = Len(m_MuxerQueue) - 1
         /\ Len(m_MuxerQueue) = 1 => m_MuxerQueue' = <<>>
         /\ \A i \in DOMAIN m_MuxerQueue' :
               i + 1 \in DOMAIN m_MuxerQueue /\ m_MuxerQueue'[i] = m_MuxerQueue[i + 1]
<1>1. /\ m_MuxerQueue # <<>> /\ m_MuxerQueue \in Seq(Frame)
      /\ taken' = <<Head(m_MuxerQueue)>> /\ m_MuxerQueue' = Tail(m_MuxerQueue)
  BY DEF TypeOK, TakeFrame
<1>. QED BY <1>1

LEMMA Appended ==
  ASSUME TypeOK, NEW kind, NEW s, PushMetadata(kind, s)
  PROVE  /\ Len(m_MuxerQueue') = Len(m_MuxerQueue) + 1 /\ Len(m_MuxerQueue) \in Nat
         /\ \A i \in DOMAIN m_MuxerQueue' :
               \/ i \in DOMAIN m_MuxerQueue /\ m_MuxerQueue'[i] = m_MuxerQueue[i]
               \/ i = Len(m_MuxerQueue) + 1 /\ m_MuxerQueue'[i].kind = kind
<1>1. /\ m_MuxerQueue \in Seq(Frame)
      /\ m_MuxerQueue' = Append(m_MuxerQueue, [kind |-> kind, segment |-> s, pts |-> NoTime])
  BY DEF TypeOK, PushMetadata
<1>. QED BY <1>1

LEMMA Pushed ==
  ASSUME TypeOK, Held, PushPacket
  PROVE  /\ Len(m_MuxerQueue) \in Nat
         /\ \A i \in DOMAIN m_MuxerQueue' :
               \/ i \in DOMAIN m_MuxerQueue /\ m_MuxerQueue'[i] = m_MuxerQueue[i]
               \/ m_MuxerQueue'[i].kind \in Kinds
<1>1. /\ m_MuxerQueue \in Seq(Frame) /\ packet \in Seq(Frame) /\ Len(packet) <= 1
      /\ packet # <<>> => packet[1].kind \in Kinds
  BY DEF TypeOK, Held
<1>2. m_MuxerQueue' = m_MuxerQueue \/ m_MuxerQueue' = m_MuxerQueue \o packet
  BY DEF PushPacket
<1>. QED BY <1>1, <1>2

LEMMA NextBracketed ==
  ASSUME Careful, TypeOK, Held, Bracketed, [Next]_vars
  PROVE  Bracketed'
<1>. USE DEF Bracketed, Is, recVars, appVars, muxVars
<1>1. CASE UNCHANGED <<waiting, inside, m_MuxerQueue, taken, m_bStreamSendStart>>
  BY <1>1
<1>2. CASE SendStart
  BY <1>2, Appended DEF SendStart, PushMetadata
<1>3. CASE SendEnd
  BY <1>3, Appended DEF SendEnd, PushMetadata, Held
<1>4. CASE PushPacket
  <2>1. inside /\ UNCHANGED <<waiting, inside, taken, m_bStreamSendStart>>
    BY <1>4 DEF PushPacket, Held, InCall
  <2>. QED BY <1>4, <2>1, Pushed DEF Kinds
<1>5. CASE CloseRest
  <2>1. DOMAIN m_MuxerQueue' = {} /\ taken = <<>> /\ UNCHANGED muxVars
    BY <1>5 DEF CloseRest, Held
  <2>2. UNCHANGED <<waiting, inside>>
    BY <1>5 DEF CloseRest
  <2>. QED BY <2>1, <2>2
<1>6. CASE TakeFrame
  <2>1. /\ UNCHANGED <<waiting, inside, m_precord_url>>
        /\ \/ /\ m_MuxerQueue[1].kind \in {"video", "audio"}
              /\ UNCHANGED m_bStreamSendStart
           \/ /\ m_MuxerQueue[1].kind = "start" /\ ~m_bStreamSendStart
              /\ m_bStreamSendStart' = TRUE
           \/ /\ m_MuxerQueue[1].kind = "end"
              /\ m_bStreamSendStart' = FALSE
           \/ /\ m_MuxerQueue[1].kind = "start" /\ m_bStreamSendStart
              /\ m_bStreamSendStart' = FALSE
    BY <1>6, Taken DEF TakeFrame, SegmentStarts
  <2>2. taken' # <<>> /\ taken'[1] = m_MuxerQueue[1] /\ 1 \in DOMAIN m_MuxerQueue
    BY <1>6, Taken
  <2>3. \A i \in DOMAIN m_MuxerQueue' :
          /\ m_MuxerQueue'[i].kind = "end" => waiting' /\ i = Len(m_MuxerQueue')
          /\ m_MuxerQueue'[i].kind = "start" => inside' \/ waiting'
    BY <1>6, <2>1, Taken
  <2>4. Is(taken, "end")' => waiting' /\ m_MuxerQueue' = <<>> /\ ~m_bStreamSendStart'
    BY <1>6, <2>1, <2>2, Taken
  <2>5. ~inside' /\ ~waiting' => ~m_bStreamSendStart' /\ ~Is(taken, "start")'
    BY <2>1, <2>2
  <2>. QED BY <2>1, <2>3, <2>4, <2>5
<1>7. CASE EndReturns
  BY <1>7 DEF EndReturns, SegmentStarts, Held
<1>8. CASE MuxMedia \/ DropMetadata
  BY <1>8 DEF MuxMedia, DropMetadata
<1>9. CASE SendFrame
  <2>1. taken' = <<>> /\ UNCHANGED <<m_MuxerQueue, inside, m_bStreamSendStart>>
    BY <1>9 DEF SendFrame
  <2>2. CASE UNCHANGED waiting
    BY <2>1, <2>2
  <2>3. CASE taken[1].kind = "end"
    <3>1. waiting /\ ~inside /\ m_MuxerQueue = <<>> /\ ~m_bStreamSendStart
      BY <1>9, <2>3 DEF SendFrame, Held
    <3>2. DOMAIN m_MuxerQueue' = {}
      BY <2>1, <3>1
    <3>. QED BY <2>1, <3>1, <3>2
  <2>. QED BY <1>9, <2>2, <2>3 DEF SendFrame
<1>. QED BY <1>1, <1>2, <1>3, <1>4, <1>5, <1>6, <1>7, <1>8, <1>9
         DEF Next, AppStep, CallStep, ThreadStep, vars, RecordSendPacket, SendPacket, Close,
             CreateRecorder, OpenRecorder, TestRecorder, WriteFrame, CloseRecorder,
             DeleteRecorder, ClearRecorder, ThreadEnds

LEMMA NextOneStart ==
  ASSUME Careful, TypeOK, Held, Bracketed, OneStart, [Next]_vars
  PROVE  OneStart'
<1>. USE DEF OneStart, Is, recVars, appVars, muxVars
<1>1. CASE UNCHANGED <<m_precord_url, m_MuxerQueue, taken, m_bStreamSendStart>>
  BY <1>1
<1>2. ASSUME NEW url \in Urls \cup {NoUrl}, RecordSendPacket(url) PROVE OneStart'
  BY <1>2 DEF RecordSendPacket, Bracketed
<1>3. CASE SendStart
  BY <1>3, Appended DEF SendStart, PushMetadata, Bracketed
<1>4. CASE SendEnd
  BY <1>4, Appended DEF SendEnd, PushMetadata
<1>5. CASE PushPacket
  BY <1>5, Pushed DEF PushPacket, Kinds
<1>6. CASE CloseRest
  BY <1>6 DEF CloseRest
<1>7. CASE TakeFrame
  <2>1. /\ UNCHANGED <<waiting, inside, m_precord_url>>
        /\ \/ /\ m_MuxerQueue[1].kind \in {"video", "audio"}
              /\ UNCHANGED m_bStreamSendStart
           \/ /\ m_MuxerQueue[1].kind = "start" /\ ~m_bStreamSendStart
              /\ m_bStreamSendStart' = TRUE
           \/ /\ m_MuxerQueue[1].kind = "end"
              /\ m_bStreamSendStart' = FALSE
           \/ /\ m_MuxerQueue[1].kind = "start" /\ m_bStreamSendStart
              /\ m_bStreamSendStart' = FALSE
    BY <1>7, Taken DEF TakeFrame, SegmentStarts
  <2>2. taken'[1] = m_MuxerQueue[1] /\ 1 \in DOMAIN m_MuxerQueue
    BY <1>7, Taken
  <2>. SUFFICES ASSUME m_precord_url # NoUrl PROVE OneStart'
    BY <2>1
  <2>3. ASSUME NEW i \in DOMAIN m_MuxerQueue', NEW j \in DOMAIN m_MuxerQueue',
               m_MuxerQueue'[i].kind = "start", m_MuxerQueue'[j].kind = "start"
        PROVE  i = j
    <3>1. i + 1 = j + 1 /\ i \in Nat /\ j \in Nat
      BY <1>7, <2>3, Taken
    <3>. QED BY <3>1
  <2>4. ASSUME NEW i \in DOMAIN m_MuxerQueue', m_MuxerQueue'[i].kind = "start"
        PROVE  ~m_bStreamSendStart' /\ ~Is(taken, "start")'
    <3>1. /\ i + 1 \in DOMAIN m_MuxerQueue /\ m_MuxerQueue[i + 1].kind = "start"
          /\ i + 1 # 1
      BY <1>7, <2>4, Taken
    <3>2. m_MuxerQueue[1].kind # "start" /\ ~m_bStreamSendStart
      BY <2>2, <3>1
    <3>. QED BY <2>1, <2>2, <3>2
  <2>. QED BY <2>3, <2>4
<1>8. CASE EndReturns
  BY <1>8 DEF EndReturns, SegmentStarts, Held
<1>9. CASE MuxMedia \/ DropMetadata \/ SendFrame
  BY <1>9 DEF MuxMedia, DropMetadata, SendFrame
<1>. QED BY <1>1, <1>2, <1>3, <1>4, <1>5, <1>6, <1>7, <1>8, <1>9
         DEF Next, AppStep, CallStep, ThreadStep, vars, SendPacket, Close,
             CreateRecorder, OpenRecorder, TestRecorder, WriteFrame, CloseRecorder,
             DeleteRecorder, ClearRecorder, ThreadEnds

LEMMA NextClosed ==
  ASSUME Careful, TypeOK, Held, Bracketed, OneStart, Closed, [Next]_vars
  PROVE  Closed'
<1>. USE DEF Closed, Ending, Is, recVars, appVars, muxVars
<1>1. CASE UNCHANGED <<waiting, inside, m_pRecMuxer, m_precord_url, app, thread, taken>>
  BY <1>1
<1>2. ASSUME NEW url \in Urls \cup {NoUrl}, RecordSendPacket(url) PROVE Closed'
  BY <1>2 DEF RecordSendPacket
<1>3. ASSUME NEW kind \in {"video", "audio"}, SendPacket(kind) PROVE Closed'
  BY <1>3 DEF SendPacket
<1>4. CASE SendStart \/ SendEnd
  <2>1. /\ UNCHANGED <<m_pRecMuxer, m_precord_url, app, thread, taken>>
        /\ inside' \/ waiting'
    BY <1>4 DEF SendStart, SendEnd, PushMetadata
  <2>. QED BY <2>1
<1>5. CASE CreateRecorder
  BY <1>5 DEF CreateRecorder, Held, InCall, Bracketed, Unused, Recorders, None
<1>6. CASE Close \/ OpenRecorder \/ TestRecorder \/ WriteFrame \/ PushPacket
  BY <1>6 DEF Close, OpenRecorder, TestRecorder, WriteFrame, PushPacket
<1>7. CASE CloseRest
  BY <1>7 DEF CloseRest
<1>8. CASE TakeFrame
  <2>1. taken' # <<>> /\ taken'[1] = m_MuxerQueue[1] /\ 1 \in DOMAIN m_MuxerQueue
    BY <1>8, Taken
  <2>2. /\ UNCHANGED <<m_pRecMuxer, inside, waiting, m_precord_url, app>>
        /\ \/ m_MuxerQueue[1].kind \in {"video", "audio"} /\ thread' = "muxing"
           \/ m_MuxerQueue[1].kind = "start" /\ ~m_bStreamSendStart /\ thread' = "sending"
           \/ m_MuxerQueue[1].kind = "end" /\ thread' = EndBegins
           \/ /\ m_MuxerQueue[1].kind = "start" /\ m_bStreamSendStart
              /\ thread' = EndBegins
    BY <1>8, Taken DEF TakeFrame
  <2>3. m_MuxerQueue[1].kind = "start" /\ m_bStreamSendStart => m_pRecMuxer = None
    BY <2>1 DEF OneStart
  <2>. QED BY <2>1, <2>2, <2>3 DEF EndBegins
<1>9. CASE CloseRecorder \/ DeleteRecorder \/ ClearRecorder \/ ThreadEnds
  BY <1>9 DEF CloseRecorder, DeleteRecorder, ClearRecorder, ThreadEnds
<1>10. CASE EndReturns \/ MuxMedia \/ DropMetadata
  BY <1>10 DEF EndReturns, MuxMedia, DropMetadata, Held, Kinds
<1>11. CASE SendFrame
  BY <1>11 DEF SendFrame, Held
<1>. QED BY <1>1, <1>2, <1>3, <1>4, <1>5, <1>6, <1>7, <1>8, <1>9, <1>10, <1>11
         DEF Next, AppStep, CallStep, ThreadStep, vars

\* A step that leaves the recorders alone need only keep the call's view of them.
LEMMA OwnedKept ==
  ASSUME Owned, UNCHANGED <<recorder, m_pRecMuxer>>,
         thread' = thread \/ {thread, thread'} \cap {"deleting", "clearing"} = {},
         thread = "gone" => thread' = "gone",
         \/ UNCHANGED <<app, hold>>
         \/ /\ app # "opening" /\ app' \notin {"opening", "deleted"}
            /\ app' = "creating" => m_pRecMuxer = None
            /\ app' = "writing" => hold' = m_pRecMuxer /\ m_pRecMuxer # None
  PROVE  Owned'
<1>1. NoneLost'
  BY DEF Owned, NoneLost, Exists
<1>2. thread' = "clearing" => thread = "clearing"
  OBVIOUS
<1>. QED BY <1>1, <1>2 DEF Owned, Exists

LEMMA NextOwned ==
  ASSUME Careful, TypeOK, Held, Bracketed, Closed, Owned, [Next]_vars
  PROVE  Owned'
<1>. USE DEF recVars, appVars, muxVars
<1>1. \/ UNCHANGED vars
      \/ \E url \in Urls \cup {NoUrl} : RecordSendPacket(url)
      \/ \E kind \in {"video", "audio"} : SendPacket(kind)
      \/ SendStart \/ SendEnd \/ Close \/ TestRecorder \/ PushPacket \/ WriteFrame
      \/ TakeFrame \/ EndReturns \/ MuxMedia \/ DropMetadata \/ ThreadEnds \/ SendFrame
      \/ CreateRecorder \/ OpenRecorder \/ CloseRest
      \/ CloseRecorder \/ DeleteRecorder \/ ClearRecorder
  BY DEF Next, AppStep, CallStep, ThreadStep
<1>2. ASSUME NEW url \in Urls \cup {NoUrl}, RecordSendPacket(url) PROVE Owned'
  BY <1>2, OwnedKept DEF RecordSendPacket
<1>3. ASSUME NEW kind \in {"video", "audio"}, SendPacket(kind) PROVE Owned'
  <2>1. /\ app = "idle" /\ app' \in {"creating", "testing"}
        /\ app' = "creating" => m_pRecMuxer = None
        /\ UNCHANGED <<recorder, m_pRecMuxer, thread>>
    BY <1>3 DEF SendPacket
  <2>. QED BY <2>1, OwnedKept
<1>4. CASE SendStart \/ SendEnd \/ UNCHANGED vars
  <2>1. UNCHANGED <<recorder, m_pRecMuxer, thread, app, hold>>
    BY <1>4 DEF SendStart, SendEnd, PushMetadata, vars
  <2>. QED BY <2>1, OwnedKept
<1>5. CASE Close \/ TestRecorder \/ PushPacket \/ WriteFrame
  <2>1. /\ app # "opening" /\ app' \in {"stopping", "writing", "pushing", "idle"}
        /\ app' = "writing" => hold' = m_pRecMuxer /\ m_pRecMuxer # None
        /\ UNCHANGED <<recorder, m_pRecMuxer, thread>>
    BY <1>5 DEF Close, TestRecorder, PushPacket, WriteFrame
  <2>. QED BY <2>1, OwnedKept
<1>6. CASE TakeFrame \/ EndReturns \/ MuxMedia \/ DropMetadata \/ ThreadEnds \/ SendFrame
  <2>1. /\ {thread, thread'} \cap {"deleting", "clearing"} = {} /\ thread # "gone"
        /\ UNCHANGED <<recorder, m_pRecMuxer, app, hold>>
    BY <1>6 DEF TakeFrame, EndBegins, EndReturns, MuxMedia, DropMetadata, ThreadEnds, SendFrame
  <2>. QED BY <2>1, OwnedKept
<1>. USE DEF Owned, NoneLost, Exists
<1>7. CASE CreateRecorder
  <2>1. PICK r \in Recorders : /\ Become(r, "new") /\ m_pRecMuxer' = r /\ hold' = r
    BY <1>7 DEF CreateRecorder, Unused
  <2>2. /\ app = "creating" /\ app' = "opening" /\ UNCHANGED thread
        /\ m_pRecMuxer = None /\ thread # "clearing" /\ r # None
    BY <1>7 DEF CreateRecorder, Held, Ending, Recorders, None
  <2>3. \A q \in Recorders : recorder[q].state \in {"none", "deleted"}
    BY <2>2 DEF Recorders, None
  <2>4. /\ recorder'[r].state = "new"
        /\ \A q \in Recorders : q # r => recorder'[q].state \in {"none", "deleted"}
    BY <2>1, <2>3 DEF Become, TypeOK
  <2>. QED BY <2>1, <2>2, <2>4
<1>8. CASE OpenRecorder
  BY <1>8, UseAssumption DEF OpenRecorder, TypeOK, Recorders, None, Closed, Held, InCall, Bracketed
<1>9. CASE CloseRest
  <2>1. thread = "gone" /\ app' = "deleted" /\ m_pRecMuxer' = None /\ UNCHANGED thread
    BY <1>9 DEF CloseRest
  <2>2. CASE m_pRecMuxer = None
    <3>1. UNCHANGED recorder
      BY <1>9, <2>2 DEF CloseRest
    <3>. QED BY <2>1, <2>2, <3>1 DEF None, Recorders
  <2>3. CASE m_pRecMuxer # None
    <3>1. Become(m_pRecMuxer, "deleted") /\ m_pRecMuxer \in Recorders
      BY <1>9, <2>3 DEF CloseRest, TypeOK
    <3>2. \A q \in Recorders : recorder'[q].state \in {"none", "deleted"}
      BY <3>1 DEF Become, TypeOK
    <3>. QED BY <2>1, <3>2
  <2>. QED BY <2>2, <2>3
<1>10. CASE CloseRecorder \/ DeleteRecorder
  <2>1. m_pRecMuxer \in Recorders /\ app \notin InCall /\ app # "deleted"
    BY <1>10 DEF CloseRecorder, DeleteRecorder, TypeOK, Held, Closed, Bracketed, Ending
  <2>2. \E state \in {"closed", "deleted"} :
          /\ Become(m_pRecMuxer, state)
          /\ thread' = IF state = "closed" THEN "deleting" ELSE "clearing"
    BY <1>10 DEF CloseRecorder, DeleteRecorder
  <2>3. UNCHANGED <<m_pRecMuxer, app>>
    BY <1>10 DEF CloseRecorder, DeleteRecorder
  <2>. QED BY <2>1, <2>2, <2>3 DEF Become, TypeOK, InCall
<1>11. CASE ClearRecorder
  <2>1. /\ thread = "clearing" /\ thread' = "ended" /\ m_pRecMuxer' = None
        /\ UNCHANGED <<recorder, app>>
    BY <1>11 DEF ClearRecorder
  <2>2. app \notin InCall /\ app # "deleted"
    BY <2>1 DEF Held, Closed, Bracketed, Ending
  <2>. QED BY <2>1, <2>2 DEF InCall, None, Recorders
<1>. QED BY <1>1, <1>2, <1>3, <1>4, <1>5, <1>6, <1>7, <1>8, <1>9, <1>10, <1>11

-----------------------------------------------------------------------------
LEMMA NextInv == Careful /\ IInv /\ [Next]_vars => IInv'
<1>. SUFFICES ASSUME Careful, IInv, [Next]_vars PROVE IInv'
  OBVIOUS
<1>. USE DEF IInv
<1>1. TypeOK' /\ Held'
  BY NextTypes
<1>2. Bracketed' /\ OneStart' /\ Closed' /\ Owned'
  BY NextBracketed, NextOneStart, NextClosed, NextOwned, TypeParts
<1>. QED BY <1>1, <1>2

LEMMA Invariant == Careful /\ Spec => []IInv
<1>1. SUFFICES ASSUME Careful PROVE Spec => []IInv
  OBVIOUS
<1>2. IInv /\ [Next]_vars => IInv'
  BY <1>1, NextInv
<1>. QED BY <1>2, InitInv, PTL DEF Spec

\* While an application waits for PUSH_SEGMENT_END, no recorder is lost: each that
\* exists is the one m_pRecMuxer names, and Close leaves none.
THEOREM NoneLostTheorem == Careful /\ Spec => []NoneLost
<1>1. IInv => NoneLost
  BY DEF IInv, Owned
<1>. QED BY <1>1, Invariant, PTL

\* If files also open, the thread and the call are never in the recorder together,
\* and what the call writes to is open.
THEOREM OneInsideTheorem == Careful /\ FileOpens /\ Spec => []OneInside
<1>1. SUFFICES ASSUME Careful, FileOpens PROVE Spec => []OneInside
  OBVIOUS
<1>2. IInv => OneInside
  <2>. SUFFICES ASSUME IInv PROVE OneInside
    OBVIOUS
  <2>1. app \in {"opening", "writing"} => ~Ending
    BY DEF IInv, Held, InCall, Bracketed, Closed
  <2>2. app = "opening" => recorder[hold].state = "new"
    BY DEF IInv, Owned
  <2>3. app = "writing" => recorder[hold].state = "open"
    BY <1>1, <2>1 DEF IInv, Owned, Ending
  <2>. QED BY <2>1, <2>2, <2>3 DEF OneInside
<1>. QED BY <1>1, <1>2, Invariant, PTL
-----------------------------------------------------------------------------
(* The order of the frames, whatever the application does.  A frame is in  *)
(* flight from its push until the muxer thread has finished with it.       *)

InFlight == taken \o m_MuxerQueue

\* Packets that have had their chance to be pushed.
Offered == Len(packets) - Len(packet)

Before(f, g) == /\ f.segment <= g.segment
                /\ f.kind = "end" \/ g.kind = "start" => f.segment < g.segment
                /\ f.kind \in Kinds /\ g.kind \in Kinds => f.pts < g.pts
Ordered == \A i, j \in DOMAIN InFlight : i < j => Before(InFlight[i], InFlight[j])

\* A frame belongs to a segment that was started, a STREAM_END to one that is over.
Dated(f, last, open, offered) == /\ f.segment <= last
                                 /\ f.kind = "end" => f.segment < last \/ ~open
                                 /\ f.kind \in Kinds => f.pts <= offered
Known == \A i \in DOMAIN InFlight : Dated(InFlight[i], segment, inside, Offered)

\* Between two segments in flight is the STREAM_START of the second.
StartsFirst ==
  \A i \in DOMAIN InFlight, s \in Segments :
     InFlight[i].segment < s /\ s <= segment =>
       \E j \in DOMAIN InFlight : i < j /\ InFlight[j].kind = "start" /\ InFlight[j].segment = s

\* The packet of the call under way.
Calling == packet # <<>> => /\ packet[1].segment = segment /\ packet[1].pts = Len(packets)
                            /\ packets[Len(packets)].segment = segment
                            /\ app \in InCall

Line == Ordered /\ Known /\ StartsFirst /\ Calling

\* What a step does to the frames in flight.
Same     == DOMAIN InFlight' = DOMAIN InFlight
              /\ \A i \in DOMAIN InFlight : InFlight'[i] = InFlight[i]
Grown(f) == /\ DOMAIN InFlight' = 1 .. Len(InFlight) + 1
            /\ \A i \in DOMAIN InFlight : InFlight'[i] = InFlight[i]
            /\ InFlight'[Len(InFlight) + 1] = f
Shifted  == /\ DOMAIN InFlight' = 1 .. Len(InFlight) - 1
            /\ \A i \in 1 .. Len(InFlight) - 1 : InFlight'[i] = InFlight[i + 1]

LEMMA Flight ==
  ASSUME Lanes
  PROVE  /\ InFlight \in Seq(Frame) /\ Len(InFlight) \in Nat
         /\ DOMAIN InFlight = 1 .. Len(InFlight)
         /\ \A i \in DOMAIN InFlight : InFlight[i] \in Frame
BY DEF Lanes, InFlight

LEMMA OneFrame ==
  ASSUME NEW s \in Seq(Frame), s # <<>>, Len(s) <= 1
  PROVE  Len(s) = 1 /\ s[1] \in Frame
<1>. DEFINE n == Len(s)
<1>1. n \in Nat \ {0} /\ n <= 1
  BY EmptySeq
<1>2. n = 1
  <2>. HIDE DEF n
  <2>. QED BY <1>1
<1>. QED BY <1>2, ElementOfSeq

LEMMA FlightHead ==
  ASSUME Lanes, taken # <<>>
  PROVE  1 \in DOMAIN InFlight /\ InFlight[1] = taken[1] /\ taken[1] \in Frame
BY DEF Lanes, InFlight

LEMMA FlightTaken ==
  ASSUME Lanes, taken = <<>>, TakeFrame
  PROVE  Same /\ 1 \in DOMAIN InFlight /\ InFlight[1] = Head(m_MuxerQueue) /\ taken' # <<>>
<1>1. /\ m_MuxerQueue \in Seq(Frame) /\ m_MuxerQueue # <<>>
      /\ taken' = <<Head(m_MuxerQueue)>> /\ m_MuxerQueue' = Tail(m_MuxerQueue)
  BY DEF TakeFrame, Lanes
<1>2. InFlight' = <<Head(m_MuxerQueue)>> \o Tail(m_MuxerQueue)
  BY <1>1 DEF InFlight
<1>3. /\ Len(InFlight) = Len(m_MuxerQueue) /\ DOMAIN InFlight = DOMAIN m_MuxerQueue
      /\ \A i \in DOMAIN m_MuxerQueue : InFlight[i] = m_MuxerQueue[i]
  BY <1>1 DEF InFlight
<1>4. /\ Len(InFlight') = Len(m_MuxerQueue) /\ DOMAIN InFlight' = DOMAIN m_MuxerQueue
      /\ \A i \in DOMAIN m_MuxerQueue : InFlight'[i] = m_MuxerQueue[i]
  BY <1>1, <1>2
<1>5. Head(m_MuxerQueue) = m_MuxerQueue[1] /\ 1 \in DOMAIN m_MuxerQueue
  BY <1>1
<1>. QED BY <1>1, <1>3, <1>4, <1>5 DEF Same

LEMMA FlightGrows ==
  ASSUME Lanes, NEW f \in Frame, m_MuxerQueue' = Append(m_MuxerQueue, f), taken' = taken
  PROVE  Grown(f)
BY DEF Lanes, InFlight, Grown

LEMMA FlightPushed ==
  ASSUME Lanes, packet # <<>>, m_MuxerQueue' = m_MuxerQueue \o packet, taken' = taken
  PROVE  Grown(packet[1]) /\ Len(packet) = 1 /\ packet[1] \in Frame
<1>1. /\ m_MuxerQueue \in Seq(Frame) /\ taken \in Seq(Frame) /\ packet \in Seq(Frame)
      /\ Len(packet) = 1 /\ packet[1] \in Frame
  BY OneFrame DEF Lanes
<1>2. /\ Len(m_MuxerQueue') = Len(m_MuxerQueue) + 1 /\ m_MuxerQueue' \in Seq(Frame)
      /\ \A i \in 1 .. Len(m_MuxerQueue) : m_MuxerQueue'[i] = m_MuxerQueue[i]
      /\ m_MuxerQueue'[Len(m_MuxerQueue) + 1] = packet[1]
  <2>1. /\ Len(m_MuxerQueue \o packet) = Len(m_MuxerQueue) + Len(packet)
        /\ m_MuxerQueue \o packet \in Seq(Frame)
        /\ \A i \in 1 .. Len(m_MuxerQueue) + Len(packet) : (m_MuxerQueue \o packet)[i] =
              IF i <= Len(m_MuxerQueue) THEN m_MuxerQueue[i] ELSE packet[i - Len(m_MuxerQueue)]
    BY <1>1, ConcatProperties
  <2>2. Len(m_MuxerQueue) \in Nat /\ Len(m_MuxerQueue) + 1 - Len(m_MuxerQueue) = 1
    BY <1>1
  <2>. QED BY <1>1, <2>1, <2>2
<1>3. /\ Len(InFlight) = Len(taken) + Len(m_MuxerQueue)
      /\ Len(InFlight') = Len(taken) + Len(m_MuxerQueue) + 1
      /\ DOMAIN InFlight = 1 .. Len(InFlight) /\ DOMAIN InFlight' = 1 .. Len(InFlight')
      /\ Len(taken) \in Nat /\ Len(m_MuxerQueue) \in Nat
  <2>1. InFlight = taken \o m_MuxerQueue /\ InFlight' = taken \o m_MuxerQueue'
    BY DEF InFlight
  <2>2. InFlight \in Seq(Frame) /\ InFlight' \in Seq(Frame)
    BY <1>1, <1>2, <2>1, ConcatProperties
  <2>3. /\ Len(InFlight) = Len(taken) + Len(m_MuxerQueue)
        /\ Len(InFlight') = Len(taken) + Len(m_MuxerQueue')
    BY <1>1, <1>2, <2>1, ConcatProperties
  <2>4. Len(taken) \in Nat /\ Len(m_MuxerQueue) \in Nat
    BY <1>1
  <2>. QED BY <1>2, <2>2, <2>3, <2>4
<1>4. \A i \in DOMAIN InFlight :
        InFlight[i] = IF i <= Len(taken) THEN taken[i] ELSE m_MuxerQueue[i - Len(taken)]
  BY <1>1, <1>3 DEF InFlight
<1>5. \A i \in DOMAIN InFlight' :
        InFlight'[i] = IF i <= Len(taken) THEN taken[i] ELSE m_MuxerQueue'[i - Len(taken)]
  BY <1>1, <1>2, <1>3 DEF InFlight
<1>6. \A i \in DOMAIN InFlight : InFlight'[i] = InFlight[i]
  BY <1>2, <1>3, <1>4, <1>5
<1>7. InFlight'[Len(InFlight) + 1] = packet[1]
  BY <1>2, <1>3, <1>5, SMTT(60)
<1>. QED BY <1>1, <1>3, <1>6, <1>7 DEF Grown

LEMMA FlightShifts ==
  ASSUME Lanes, taken # <<>>, taken' = <<>>, m_MuxerQueue' = m_MuxerQueue
  PROVE  Shifted
<1>1. /\ m_MuxerQueue \in Seq(Frame) /\ taken \in Seq(Frame) /\ Len(taken) = 1
      /\ Len(m_MuxerQueue) \in Nat
  BY OneFrame DEF Lanes
<1>2. /\ Len(InFlight) = Len(m_MuxerQueue) + 1
      /\ \A i \in 1 .. Len(m_MuxerQueue) : InFlight[i + 1] = m_MuxerQueue[i]
  <2>1. /\ Len(InFlight) = 1 + Len(m_MuxerQueue)
        /\ \A i \in 1 .. 1 + Len(m_MuxerQueue) :
             InFlight[i] = IF i <= 1 THEN taken[i] ELSE m_MuxerQueue[i - 1]
    <3>. DEFINE a == taken
                b == m_MuxerQueue
    <3>1. a \in Seq(Frame) /\ b \in Seq(Frame)
      BY <1>1
    <3>2. InFlight = a \o b /\ Len(a) = 1
      BY <1>1 DEF InFlight
    <3>. HIDE DEF a, b
    <3>3. /\ Len(a \o b) = Len(a) + Len(b)
          /\ \A i \in 1 .. Len(a) + Len(b) :
               (a \o b)[i] = IF i <= Len(a) THEN a[i] ELSE b[i - Len(a)]
      BY <3>1, ConcatProperties
    <3>4. /\ Len(InFlight) = 1 + Len(b)
          /\ \A i \in 1 .. 1 + Len(b) : InFlight[i] = IF i <= 1 THEN a[i] ELSE b[i - 1]
      BY <3>2, <3>3
    <3>. QED BY <3>4 DEF a, b
  <2>2. \A i \in 1 .. Len(m_MuxerQueue) :
          i + 1 \in 1 .. 1 + Len(m_MuxerQueue) /\ ~(i + 1 <= 1) /\ i + 1 - 1 = i
    BY <1>1
  <2>. QED BY <1>1, <2>1, <2>2
<1>3. InFlight' = m_MuxerQueue
  BY <1>1 DEF InFlight
<1>. QED BY <1>1, <1>2, <1>3 DEF Shifted

-----------------------------------------------------------------------------
\* What was known of a frame stays known, also when the next segment starts.
LEMMA DatedStill ==
  ASSUME Shapes, NEW i \in DOMAIN InFlight, Known, segment' \in Nat, Offered' \in Int,
         segment <= segment', Offered <= Offered', inside' => inside \/ segment < segment'
  PROVE  Dated(InFlight[i], segment', inside', Offered')
<1>1. InFlight[i] \in Frame /\ Dated(InFlight[i], segment, inside, Offered)
  BY Flight DEF Known, Shapes
<1>2. InFlight[i].segment \in Nat /\ InFlight[i].pts \in Nat /\ segment \in Nat
  BY <1>1, Bounds DEF Frame, Segments, Shapes, Words
<1>3. Offered \in Int
  BY DEF Offered, Shapes, Lanes
<1>. QED BY <1>1, <1>2, <1>3 DEF Dated

\* Nothing joins or leaves.
LEMMA LineSame ==
  ASSUME Shapes, Line, Same, segment' = segment, inside' => inside,
         Offered' \in Int, Offered <= Offered', Calling'
  PROVE  Line'
<1>1. Ordered'
  BY DEF Line, Ordered, Same, Before
<1>2. Known'
  <2>1. segment' \in Nat /\ segment <= segment'
    BY Bounds DEF Shapes, Words
  <2>2. \A i \in DOMAIN InFlight : Dated(InFlight[i], segment', inside', Offered')
    BY <2>1, DatedStill DEF Line
  <2>. QED BY <2>2 DEF Known, Same
<1>3. StartsFirst'
  BY DEF Line, StartsFirst, Same
<1>. QED BY <1>1, <1>2, <1>3 DEF Line

\* The first frame leaves.
LEMMA LineShifted ==
  ASSUME Lanes, Line, Shifted, UNCHANGED <<segment, inside, packets, packet, app>>
  PROVE  Line'
<1>1. \A i \in DOMAIN InFlight' : i + 1 \in DOMAIN InFlight /\ InFlight'[i] = InFlight[i + 1]
  BY Flight DEF Shifted
<1>2. DOMAIN InFlight' \subseteq Nat
  BY DEF Shifted
<1>3. Ordered'
  BY <1>1, <1>2 DEF Line, Ordered, Before
<1>4. Known'
  BY <1>1 DEF Line, Known, Offered
<1>5. StartsFirst'
  <2>. SUFFICES ASSUME NEW i \in DOMAIN InFlight', NEW s \in Segments,
                       InFlight'[i].segment < s, s <= segment
                PROVE  \E j \in DOMAIN InFlight' : /\ i < j /\ InFlight'[j].kind = "start"
                                                   /\ InFlight'[j].segment = s
    BY DEF StartsFirst
  <2>1. PICK j \in DOMAIN InFlight : /\ i + 1 < j /\ InFlight[j].kind = "start"
                                     /\ InFlight[j].segment = s
    BY <1>1 DEF Line, StartsFirst
  <2>2. j - 1 \in DOMAIN InFlight' /\ i < j - 1 /\ InFlight'[j - 1] = InFlight[j]
    BY <1>2, <2>1, Flight DEF Shifted
  <2>. QED BY <2>1, <2>2
<1>6. Calling'
  BY DEF Line, Calling
<1>. QED BY <1>3, <1>4, <1>5, <1>6 DEF Line

\* A frame of the last segment joins, or the STREAM_START of the next one.
LEMMA LineGrown ==
  ASSUME Shapes, Line, NEW f \in Frame, Grown(f),
         \A i \in DOMAIN InFlight : Before(InFlight[i], f),
         f.segment = segment', Dated(f, segment', inside', Offered'),
         segment' = segment \/ (segment' = segment + 1 /\ f.kind = "start"),
         inside' => inside \/ segment < segment',
         Offered' \in Int, Offered <= Offered', Calling'
  PROVE  Line'
<1>. USE DEF Shapes
<1>. DEFINE n == Len(InFlight) + 1
<1>1. /\ n \in Nat /\ DOMAIN InFlight' = 1 .. n /\ DOMAIN InFlight = 1 .. n - 1
      /\ n \in DOMAIN InFlight'
  BY Flight DEF Grown
<1>2. \A i \in DOMAIN InFlight' : \/ i \in DOMAIN InFlight /\ InFlight'[i] = InFlight[i]
                                  \/ i = n /\ InFlight'[i] = f
  BY <1>1, Flight DEF Grown
<1>3. segment \in Nat /\ f.segment \in Nat
  BY Bounds DEF Words, Frame, Segments
<1>. HIDE DEF n
<1>4. Ordered'
  <2>. SUFFICES ASSUME NEW i \in DOMAIN InFlight', NEW j \in DOMAIN InFlight', i < j
                PROVE  Before(InFlight'[i], InFlight'[j])
    BY DEF Ordered, Before
  <2>1. i \in DOMAIN InFlight /\ InFlight'[i] = InFlight[i]
    BY <1>1 DEF Grown
  <2>2. CASE j \in DOMAIN InFlight /\ InFlight'[j] = InFlight[j]
    BY <2>1, <2>2 DEF Line, Ordered
  <2>3. CASE InFlight'[j] = f
    BY <2>1, <2>3
  <2>. QED BY <1>2, <2>2, <2>3
<1>5. StartsFirst'
  <2>. SUFFICES ASSUME NEW i \in DOMAIN InFlight', NEW s \in Segments,
                       InFlight'[i].segment < s, s <= segment'
                PROVE  \E j \in DOMAIN InFlight' : /\ i < j /\ InFlight'[j].kind = "start"
                                                   /\ InFlight'[j].segment = s
    BY DEF StartsFirst
  <2>1. i \in DOMAIN InFlight /\ InFlight'[i] = InFlight[i]
    BY <1>2, <1>3 DEF Segments
  <2>2. CASE s <= segment
    <3>1. PICK j \in DOMAIN InFlight : /\ i < j /\ InFlight[j].kind = "start"
                                       /\ InFlight[j].segment = s
      BY <2>1, <2>2 DEF Line, StartsFirst
    <3>. QED BY <1>1, <3>1 DEF Grown
  <2>3. CASE ~(s <= segment)
    <3>1. s = segment' /\ f.kind = "start"
      BY <1>3, <2>3 DEF Segments
    <3>2. i < n /\ InFlight'[n] = f
      BY <1>1, <2>1 DEF Grown, n
    <3>. QED BY <1>1, <3>1, <3>2
  <2>. QED BY <2>2, <2>3
<1>6. Known'
  <2>1. segment' \in Nat /\ segment <= segment'
    BY <1>3
  <2>2. \A i \in DOMAIN InFlight : Dated(InFlight[i], segment', inside', Offered')
    BY <2>1, DatedStill DEF Line
  <2>. QED BY <1>2, <2>2 DEF Known
<1>. QED BY <1>4, <1>5, <1>6 DEF Line

\* The steps of the connection: a frame in flight is left in its place ...
Moves == \/ RecordSendPacket(m_precord_url') \/ Close \/ CreateRecorder \/ OpenRecorder
         \/ TestRecorder \/ WriteFrame \/ CloseRecorder \/ DeleteRecorder \/ ClearRecorder
         \/ ThreadEnds \/ UNCHANGED vars
\* ... or is finished with unsent.
Drops == DropMetadata \/ (MuxMedia /\ thread' = "looping")

LEMMA Steps ==
  ASSUME [Next]_vars
  PROVE  \/ Moves \/ (\E kind \in Kinds : SendPacket(kind)) \/ PushPacket
         \/ SendStart \/ SendEnd \/ CloseRest \/ TakeFrame \/ EndReturns \/ Drops \/ SendFrame
         \/ (MuxMedia /\ thread' = "sending")
<1>1. ASSUME NEW url \in Urls \cup {NoUrl}, RecordSendPacket(url) PROVE Moves
  BY <1>1 DEF Moves, RecordSendPacket
<1>2. MuxMedia => thread' \in {"looping", "sending"}
  BY DEF MuxMedia
<1>. QED BY <1>1, <1>2 DEF Next, AppStep, CallStep, ThreadStep, Moves, Drops, Kinds

LEMMA MovesNothing ==
  ASSUME Shapes, Moves
  PROVE  /\ UNCHANGED <<taken, m_MuxerQueue, segment, inside, packets, packet>>
         /\ UNCHANGED <<sent, told, m_llLastSendVPts>>
         /\ packet # <<>> /\ app \in InCall => app' \in InCall
         /\ app' = "deleted" => app = "deleted"
<1>. USE DEF recVars, appVars, muxVars, InCall
<1>1. CASE RecordSendPacket(m_precord_url') \/ Close
  BY <1>1 DEF RecordSendPacket, Close
<1>2. CASE CreateRecorder \/ OpenRecorder \/ TestRecorder \/ WriteFrame
  BY <1>2 DEF CreateRecorder, OpenRecorder, TestRecorder, WriteFrame
<1>3. CASE CloseRecorder \/ DeleteRecorder \/ ClearRecorder \/ ThreadEnds
  BY <1>3 DEF CloseRecorder, DeleteRecorder, ClearRecorder, ThreadEnds
<1>4. CASE UNCHANGED vars
  BY <1>4 DEF vars
<1>. QED BY <1>1, <1>2, <1>3, <1>4 DEF Moves

\* The thread has a frame in its hands when it drops or sends one.
LEMMA Handing ==
  ASSUME Shapes, Drops \/ SendFrame
  PROVE  /\ taken # <<>> /\ taken' = <<>> /\ m_MuxerQueue' = m_MuxerQueue
         /\ thread \in {"muxing", "sending"}
         /\ UNCHANGED <<segment, inside, packets, packet, app>>
BY DEF Drops, DropMetadata, MuxMedia, SendFrame, Shapes, Held, recVars, appVars

LEMMA NextLine == Shapes /\ Line /\ [Next]_vars => Line'
<1>. SUFFICES ASSUME Shapes, Line, [Next]_vars PROVE Line'
  OBVIOUS
<1>. USE DEF recVars, appVars, muxVars
<1>1. CASE Moves \/ (MuxMedia /\ thread' = "sending")
  <2>1. /\ UNCHANGED <<taken, m_MuxerQueue, segment, inside, packets, packet>>
        /\ packet # <<>> /\ app \in InCall => app' \in InCall
    BY <1>1, MovesNothing DEF MuxMedia
  <2>2. Same /\ UNCHANGED <<segment, inside, Offered>> /\ Offered \in Int
    BY <2>1 DEF Same, InFlight, Offered, Shapes, Lanes
  <2>3. Calling'
    BY <2>1 DEF Line, Calling
  <2>. QED BY <2>2, <2>3, LineSame
<1>2. ASSUME NEW kind \in Kinds, SendPacket(kind) PROVE Line'
  <2>1. /\ UNCHANGED <<taken, m_MuxerQueue, segment, inside>>
        /\ packet' = <<[kind |-> kind, segment |-> segment, pts |-> Len(packets) + 1]>>
        /\ packets' = Append(packets, [kind |-> kind, segment |-> segment])
        /\ app' \in InCall /\ packet = <<>>
    BY <1>2 DEF SendPacket, InCall, Line, Calling
  <2>2. /\ Len(packet) = 0 /\ Len(packet') = 1 /\ Len(packets') = Len(packets) + 1
        /\ Len(packets) \in Nat
    BY <2>1 DEF Shapes, Lanes
  <2>3. Offered' = Offered /\ Offered \in Int
    BY <2>2 DEF Offered
  <2>4. Calling'
    BY <2>1, <2>2 DEF Calling
  <2>5. Same
    BY <2>1 DEF Same, InFlight
  <2>. QED BY <2>1, <2>3, <2>4, <2>5, LineSame
<1>3. CASE PushPacket
  <2>1. /\ UNCHANGED <<taken, segment, inside, packets>> /\ packet' = <<>>
        /\ Len(packets) \in Nat /\ Len(packet') = 0 /\ segment \in Nat
    BY <1>3, Bounds DEF PushPacket, Shapes, Lanes, Words
  <2>2. packet # <<>> /\ app \in InCall /\ inside /\ Calling'
    BY <1>3, <2>1 DEF PushPacket, Shapes, Held, InCall, Calling
  <2>3. /\ packet[1].segment = segment /\ packet[1].pts = Len(packets)
        /\ packet[1].kind \in Kinds
    BY <2>2 DEF Line, Calling, Shapes, Held
  <2>4. Len(packet) = 1 /\ packet[1] \in Frame
    BY <2>2, OneFrame DEF Shapes, Lanes
  <2>5. Offered = Len(packets) - 1 /\ Offered' = Len(packets)
    BY <2>1, <2>4 DEF Offered
  <2>6. CASE m_MuxerQueue' = m_MuxerQueue
    <3>1. Same
      BY <2>1, <2>6 DEF Same, InFlight
    <3>. QED BY <2>1, <2>2, <2>5, <3>1, LineSame
  <2>7. CASE m_MuxerQueue' = m_MuxerQueue \o packet
    <3>1. Grown(packet[1])
      BY <2>1, <2>2, <2>7, FlightPushed DEF Shapes
    <3>2. ASSUME NEW i \in DOMAIN InFlight PROVE Before(InFlight[i], packet[1])
      <4>1. InFlight[i] \in Frame /\ Dated(InFlight[i], segment, inside, Offered)
        BY Flight DEF Line, Known, Shapes
      <4>2. InFlight[i].segment \in Nat /\ InFlight[i].pts \in Nat
        BY <4>1, Bounds DEF Frame, Segments
      <4>3. InFlight[i].kind = "end" => InFlight[i].segment < segment
        BY <2>2, <4>1 DEF Dated
      <4>4. InFlight[i].segment <= segment
        BY <4>1 DEF Dated
      <4>5. InFlight[i].kind \in Kinds => InFlight[i].pts < packet[1].pts
        BY <2>1, <2>3, <2>5, <4>1, <4>2 DEF Dated
      <4>6. packet[1].kind # "start"
        BY <2>3 DEF Kinds
      <4>. QED BY <2>3, <4>3, <4>4, <4>5, <4>6 DEF Before
    <3>3. Dated(packet[1], segment', inside', Offered')
      BY <2>1, <2>3, <2>5 DEF Dated, Kinds
    <3>4. Offered' \in Int /\ Offered <= Offered'
      BY <2>1, <2>5
    <3>5. segment' = segment /\ packet[1].segment = segment' /\ inside' = inside
      BY <2>1, <2>3
    <3>. QED BY <2>2, <2>4, <3>1, <3>2, <3>3, <3>4, <3>5, LineGrown
  <2>. QED BY <1>3, <2>6, <2>7 DEF PushPacket
<1>4. CASE SendStart
  <2>. DEFINE f == [kind |-> "start", segment |-> segment + 1, pts |-> NoTime]
  <2>1. /\ m_MuxerQueue' = Append(m_MuxerQueue, f) /\ segment' = segment + 1
        /\ segment < MaxSegments /\ segment \in Nat /\ inside'
        /\ app = "idle" /\ UNCHANGED <<app, packet, packets, taken>>
    BY <1>4, Bounds DEF SendStart, PushMetadata, Shapes, Words
  <2>2. f \in Frame /\ f.segment = segment' /\ f.kind = "start"
    BY <2>1, Bounds DEF Frame, Segments, NoTime
  <2>3. Grown(f)
    BY <2>1, <2>2, FlightGrows DEF Shapes
  <2>4. Offered' = Offered /\ Offered \in Int
    BY <2>1 DEF Offered, Shapes, Lanes
  <2>5. packet = <<>> /\ Calling'
    BY <2>1 DEF Line, Calling, InCall
  <2>6. ASSUME NEW i \in DOMAIN InFlight PROVE Before(InFlight[i], f)
    <3>1. InFlight[i] \in Frame /\ InFlight[i].segment <= segment
      BY Flight DEF Line, Known, Dated, Shapes
    <3>2. InFlight[i].segment \in Nat
      BY <3>1, Bounds DEF Frame, Segments
    <3>3. f.segment \in Nat /\ InFlight[i].segment < f.segment /\ f.kind \notin Kinds
      BY <2>1, <3>1, <3>2 DEF Kinds
    <3>. HIDE DEF f
    <3>. QED BY <3>2, <3>3 DEF Before
  <2>7. Dated(f, segment', inside', Offered')
    BY <2>1 DEF Dated, Kinds
  <2>8. Offered' \in Int /\ Offered <= Offered' /\ segment < segment'
    BY <2>1, <2>4
  <2>. HIDE DEF f
  <2>. QED BY <2>1, <2>2, <2>3, <2>5, <2>6, <2>7, <2>8, LineGrown
<1>5. CASE SendEnd
  <2>. DEFINE f == [kind |-> "end", segment |-> segment, pts |-> NoTime]
  <2>1. /\ m_MuxerQueue' = Append(m_MuxerQueue, f) /\ segment' = segment
        /\ segment \in Segments /\ inside /\ ~inside'
        /\ app = "idle" /\ UNCHANGED <<app, packet, packets, taken>>
    BY <1>5 DEF SendEnd, PushMetadata, Shapes, Held
  <2>2. f \in Frame /\ f.segment = segment' /\ f.kind = "end" /\ segment \in Nat
    BY <2>1, Bounds DEF Frame, Segments, NoTime
  <2>3. Grown(f)
    BY <2>1, <2>2, FlightGrows DEF Shapes
  <2>4. Offered' = Offered /\ Offered \in Int
    BY <2>1 DEF Offered, Shapes, Lanes
  <2>5. packet = <<>> /\ Calling'
    BY <2>1 DEF Line, Calling, InCall
  <2>6. ASSUME NEW i \in DOMAIN InFlight PROVE Before(InFlight[i], f)
    <3>1. InFlight[i] \in Frame /\ Dated(InFlight[i], segment, inside, Offered)
      BY Flight DEF Line, Known, Shapes
    <3>. QED BY <2>1, <2>2, <3>1 DEF Before, Dated, Kinds, Frame, Segments
  <2>7. Dated(f, segment', inside', Offered')
    BY <2>1, <2>2 DEF Dated, Kinds
  <2>. HIDE DEF f
  <2>. QED BY <2>1, <2>2, <2>3, <2>4, <2>5, <2>6, <2>7, LineGrown
<1>6. CASE CloseRest
  <2>1. /\ taken = <<>> /\ taken' = <<>> /\ m_MuxerQueue' = <<>>
        /\ app = "stopping" /\ UNCHANGED packet
    BY <1>6 DEF CloseRest, Shapes, Held
  <2>2. DOMAIN InFlight' = {}
    BY <2>1 DEF InFlight
  <2>3. Calling'
    BY <2>1 DEF Line, Calling, InCall
  <2>. QED BY <2>2, <2>3 DEF Line, Ordered, Known, StartsFirst
<1>7. CASE TakeFrame \/ EndReturns
  <2>1. Same
    BY <1>7, FlightTaken DEF Shapes, Held, TakeFrame, EndReturns, Same, InFlight
  <2>2. UNCHANGED <<segment, inside, packets, packet, app>>
    BY <1>7 DEF TakeFrame, EndReturns
  <2>3. Offered' = Offered /\ Offered \in Int
    BY <2>2 DEF Offered, Shapes, Lanes
  <2>4. Calling'
    BY <2>2 DEF Line, Calling
  <2>. QED BY <2>1, <2>2, <2>3, <2>4, LineSame
<1>8. CASE Drops \/ SendFrame
  <2>1. /\ taken # <<>> /\ taken' = <<>> /\ m_MuxerQueue' = m_MuxerQueue
        /\ UNCHANGED <<segment, inside, packets, packet, app>>
    BY <1>8, Handing
  <2>. QED BY <2>1, FlightShifts, LineShifted DEF Shapes
<1>. QED BY <1>1, <1>2, <1>3, <1>4, <1>5, <1>6, <1>7, <1>8, Steps

-----------------------------------------------------------------------------
(* The time that PUSH_SEGMENT_END tells.                                   *)

\* The thread has come past the reset of the time stamp for the frame it has.
Begun == taken # <<>> /\ thread \notin {"closing", "deleting", "clearing", "ended"}

\* The STREAM_START of s is still ahead.
Awaits(s) == \E i \in DOMAIN InFlight :
               InFlight[i].kind = "start" /\ InFlight[i].segment = s /\ ~(i = 1 /\ Begun)

\* A picture or the STREAM_END of s can still come.
Live(s) == \/ s = segment /\ inside
           \/ \E i \in DOMAIN InFlight : InFlight[i].kind # "start" /\ InFlight[i].segment = s

LastOf(s, t) == IF sent[s] = {} THEN t = NoTime ELSE t \in sent[s] /\ \A u \in sent[s] : u <= t

\* For the segment the thread is at, the time stamp is the last picture's.
Clock == \A s \in Segments :
           /\ s > segment \/ Awaits(s) => sent[s] = {}
           /\ s <= segment /\ Live(s) /\ ~Awaits(s) => LastOf(s, m_llLastSendVPts)

\* What was sent is older than what is in flight.
Past == \A s \in Segments : \A u \in sent[s] :
          /\ u <= Offered
          /\ \A i \in DOMAIN InFlight : InFlight[i].kind \in Kinds => u < InFlight[i].pts

\* A segment that was told is over and has nothing in flight.
Over == \A s \in Segments : told[s] # {} =>
          /\ s <= segment /\ (s = segment => ~inside)
          /\ \A i \in DOMAIN InFlight : InFlight[i].segment # s

Times == /\ TellsLastPicture
         /\ app = "deleted" => thread = "gone"
         /\ app # "deleted" => Clock /\ Past /\ Over

\* Nothing joins or leaves, and no STREAM_START is begun.
LEMMA ClockSame ==
  ASSUME Clock, Same, UNCHANGED <<segment, inside, sent, m_llLastSendVPts>>,
         Begun' = Begun \/ (1 \in DOMAIN InFlight /\ InFlight[1].kind # "start")
  PROVE  Clock'
<1>1. ASSUME NEW s \in Segments PROVE Awaits(s)' <=> Awaits(s)
  BY DEF Awaits, Same
<1>2. ASSUME NEW s \in Segments PROVE Live(s)' <=> Live(s)
  BY DEF Live, Same
<1>. QED BY <1>1, <1>2 DEF Clock, LastOf

LEMMA RestSame ==
  ASSUME Past, Over, Same, UNCHANGED <<segment, inside, sent, told, Offered>>
  PROVE  Past' /\ Over'
BY DEF Past, Over, Same

\* Only the segment the thread has a frame of can still come without a START.
LEMMA OneLive ==
  ASSUME Shapes, Line, 1 \in DOMAIN InFlight, NEW s \in Segments, s <= segment,
         s # InFlight[1].segment,
         \A i \in DOMAIN InFlight :
            i > 1 => ~(InFlight[i].kind = "start" /\ InFlight[i].segment = s)
  PROVE  /\ ~(s = segment /\ inside)
         /\ \A i \in DOMAIN InFlight : InFlight[i].segment # s
<1>. DEFINE h == InFlight[1].segment
<1>1. h \in Nat /\ segment \in Nat /\ s \in Nat /\ h <= segment
  <2>1. InFlight[1] \in Frame
    BY Flight DEF Shapes
  <2>2. h \in Nat /\ segment \in Nat /\ s \in Nat
    BY <2>1, Bounds DEF Frame, Segments, Shapes, Words
  <2>3. h <= segment
    BY DEF Line, Known, Dated
  <2>. QED BY <2>2, <2>3
<1>2. ~(h < s)
  <2>1. h < s => \E j \in DOMAIN InFlight : 1 < j /\ InFlight[j].kind = "start"
                                               /\ InFlight[j].segment = s
    BY <1>1 DEF Line, StartsFirst
  <2>. QED BY <1>1, <2>1, Flight DEF Shapes
<1>3. s < h
  BY <1>1, <1>2
<1>4. ASSUME NEW i \in DOMAIN InFlight PROVE h <= InFlight[i].segment
  <2>1. CASE i = 1
    BY <1>1, <2>1
  <2>2. CASE i # 1
    BY <2>2, Flight DEF Line, Ordered, Before, Shapes
  <2>. QED BY <2>1, <2>2
<1>5. ASSUME NEW i \in DOMAIN InFlight PROVE InFlight[i].segment # s
  BY <1>1, <1>3, <1>4
<1>. QED BY <1>1, <1>3, <1>5

\* The thread begins the STREAM_START of a segment and forgets the last time stamp.
LEMMA ClockReset ==
  ASSUME Shapes, Line, Clock, Same, UNCHANGED <<segment, inside, sent>>,
         1 \in DOMAIN InFlight, InFlight[1].kind = "start", ~Begun, Begun',
         m_llLastSendVPts' = NoTime
  PROVE  Clock'
<1>. DEFINE h == InFlight[1].segment
<1>1. ASSUME NEW s \in Segments PROVE Awaits(s)' => Awaits(s)
  BY DEF Awaits, Same
<1>2. ASSUME NEW s \in Segments PROVE Live(s)' => Live(s)
  BY DEF Live, Same
<1>3. \A s \in Segments : ~Awaits(s)' => \A i \in DOMAIN InFlight :
         i > 1 => ~(InFlight[i].kind = "start" /\ InFlight[i].segment = s)
  BY DEF Awaits, Same
<1>4. ASSUME NEW s \in Segments, s <= segment, Live(s), ~Awaits(s)' PROVE sent[s] = {}
  <2>1. s = h
    BY <1>3, <1>4, OneLive DEF Live
  <2>2. Awaits(s)
    BY <2>1 DEF Awaits
  <2>. QED BY <2>2 DEF Clock
<1>. QED BY <1>1, <1>2, <1>4 DEF Clock, LastOf

\* The first frame leaves, which was begun: the same STREAM_STARTs are ahead.
LEMMA ShiftedAwaits ==
  ASSUME Shapes, Shifted, Begun, ~Begun', NEW s
  PROVE  Awaits(s)' <=> Awaits(s)
<1>1. ASSUME NEW i \in DOMAIN InFlight'
      PROVE  i \in Nat /\ i + 1 \in DOMAIN InFlight /\ InFlight'[i] = InFlight[i + 1]
               /\ i + 1 # 1
  BY <1>1, Flight DEF Shifted, Shapes
<1>2. ASSUME NEW i \in DOMAIN InFlight, i # 1
      PROVE  i - 1 \in DOMAIN InFlight' /\ InFlight'[i - 1] = InFlight[i]
  BY <1>2, Flight DEF Shifted, Shapes
<1>3. Awaits(s) <=> \E i \in DOMAIN InFlight : /\ i # 1 /\ InFlight[i].kind = "start"
                                               /\ InFlight[i].segment = s
  BY DEF Awaits
<1>4. Awaits(s)' <=> \E i \in DOMAIN InFlight' : /\ InFlight'[i].kind = "start"
                                                 /\ InFlight'[i].segment = s
  BY DEF Awaits
<1>. QED BY <1>1, <1>2, <1>3, <1>4

\* The first frame leaves without being sent.
LEMMA TimesDropped ==
  ASSUME Shapes, Clock, Past, Over, Shifted, taken' = <<>>, Begun,
         UNCHANGED <<segment, inside, packets, packet, sent, told, m_llLastSendVPts>>
  PROVE  Clock' /\ Past' /\ Over'
<1>1. \A i \in DOMAIN InFlight' : i + 1 \in DOMAIN InFlight /\ InFlight'[i] = InFlight[i + 1]
  BY Flight DEF Shifted, Shapes
<1>2. ~Begun'
  BY DEF Begun
<1>3. ASSUME NEW s \in Segments PROVE Awaits(s)' <=> Awaits(s)
  BY <1>2, ShiftedAwaits
<1>4. ASSUME NEW s \in Segments PROVE Live(s)' => Live(s)
  BY <1>1 DEF Live
<1>5. Clock'
  BY <1>3, <1>4 DEF Clock, LastOf
<1>6. Past'
  BY <1>1 DEF Past, Offered
<1>7. Over'
  BY <1>1 DEF Over
<1>. QED BY <1>5, <1>6, <1>7

\* A picture is sent: it is the last of its segment, and the only segment that the
\* time stamp speaks of is its own.
LEMMA PictureSent ==
  ASSUME Shapes, Line, Clock, Past, Over, Shifted, 1 \in DOMAIN InFlight,
         taken' = <<>>, Begun, InFlight[1].kind = "video",
         UNCHANGED <<segment, inside, packets, packet, told>>,
         m_llLastSendVPts' = InFlight[1].pts,
         sent' = [sent EXCEPT ![InFlight[1].segment] = @ \cup {InFlight[1].pts}]
  PROVE  /\ Clock' /\ Past' /\ Over'
         /\ \A s \in Segments : told[s] # {} => sent'[s] = sent[s]
<1>. DEFINE f == InFlight[1]
            h == f.segment
<1>1. /\ f \in Frame /\ h \in Segments /\ f.pts \in Nat /\ segment \in Nat /\ h <= segment
      /\ f.pts <= Offered
  <2>1. f \in Frame /\ Dated(f, segment, inside, Offered)
    BY Flight DEF Shapes, Line, Known
  <2>2. h \in Segments /\ f.pts \in Nat /\ segment \in Nat
    BY <2>1, Bounds DEF Frame, Shapes, Words
  <2>3. h <= segment /\ f.pts <= Offered
    BY <2>1 DEF Dated, Kinds
  <2>. QED BY <2>1, <2>2, <2>3
<1>2. \A i \in DOMAIN InFlight' : /\ i + 1 \in DOMAIN InFlight /\ InFlight'[i] = InFlight[i + 1]
                                  /\ 1 < i + 1
  BY Flight DEF Shifted, Shapes
<1>3. ~Begun'
  BY DEF Begun
<1>4. /\ sent'[h] = sent[h] \cup {f.pts}
      /\ \A s \in Segments : s # h => sent'[s] = sent[s]
  BY <1>1 DEF Shapes, Facts
<1>5. ASSUME NEW s \in Segments PROVE Awaits(s)' <=> Awaits(s)
  BY <1>3, ShiftedAwaits
<1>6. ASSUME NEW s \in Segments PROVE Live(s)' => Live(s)
  BY <1>2 DEF Live
<1>7. \A i \in DOMAIN InFlight : i > 1 => Before(f, InFlight[i])
  BY Flight DEF Line, Ordered, Shapes
<1>8. ~Awaits(h)
  BY <1>1, <1>7, Flight DEF Awaits, Before, Shapes, Segments
<1>9. ASSUME NEW s \in Segments, s # h, s <= segment, ~Awaits(s) PROVE ~Live(s)
  BY <1>9, OneLive DEF Awaits, Live
<1>10. \A u \in sent[h] : u <= f.pts
  BY <1>1 DEF Past, Kinds, Shapes, Facts
<1>11. Clock'
  <2>. SUFFICES ASSUME NEW s \in Segments
                PROVE  /\ s > segment \/ Awaits(s)' => sent'[s] = {}
                       /\ s <= segment /\ Live(s)' /\ ~Awaits(s)' => LastOf(s, m_llLastSendVPts)'
    BY DEF Clock
  <2>1. CASE s = h
    <3>1. ~(s > segment) /\ ~Awaits(s)'
      BY <1>1, <1>5, <1>8, <2>1 DEF Segments
    <3>2. sent'[s] # {} /\ f.pts \in sent'[s] /\ \A u \in sent'[s] : u <= f.pts
      <4>1. sent'[h] # {} /\ f.pts \in sent'[h]
        BY <1>4
      <4>2. \A u \in sent'[h] : u \in sent[h] \/ u = f.pts
        BY <1>4
      <4>3. f.pts <= f.pts
        BY <1>1
      <4>. HIDE DEF f
      <4>. QED BY <1>10, <2>1, <4>1, <4>2, <4>3
    <3>3. LastOf(s, m_llLastSendVPts)'
      BY <3>2 DEF LastOf
    <3>. QED BY <3>1, <3>3
  <2>2. CASE s # h
    <3>1. s > segment \/ Awaits(s)' => sent'[s] = {}
      BY <1>4, <1>5, <2>2 DEF Clock
    <3>2. ~(s <= segment /\ Live(s)' /\ ~Awaits(s)')
      BY <1>5, <1>6, <1>9, <2>2
    <3>. QED BY <3>1, <3>2
  <2>. QED BY <2>1, <2>2
<1>12. Past'
  <2>. SUFFICES ASSUME NEW s \in Segments, NEW u \in sent'[s]
                PROVE  /\ u <= Offered
                       /\ \A i \in DOMAIN InFlight' :
                             InFlight'[i].kind \in Kinds => u < InFlight'[i].pts
    BY DEF Past, Offered
  <2>1. CASE u \in sent[s]
    BY <1>2, <2>1 DEF Past
  <2>2. CASE u = f.pts
    BY <1>1, <1>2, <1>7, <2>2 DEF Before, Kinds
  <2>. QED BY <1>1, <1>4, <2>1, <2>2
<1>13. Over'
  BY <1>2 DEF Over
<1>14. \A s \in Segments : told[s] # {} => s # h
  BY DEF Over
<1>. QED BY <1>4, <1>11, <1>12, <1>13, <1>14

\* A STREAM_END is sent, and the segment is told.
LEMMA EndSent ==
  ASSUME Shapes, Line, Clock, Past, Over, Shifted, 1 \in DOMAIN InFlight,
         taken' = <<>>, Begun, InFlight[1].kind = "end",
         UNCHANGED <<segment, inside, packets, packet, sent, m_llLastSendVPts>>,
         told' = [told EXCEPT ![InFlight[1].segment] = {m_llLastSendVPts}]
  PROVE  /\ Clock' /\ Past' /\ Over'
         /\ LastOf(InFlight[1].segment, m_llLastSendVPts)
<1>. DEFINE f == InFlight[1]
            h == f.segment
<1>1. /\ f \in Frame /\ h \in Segments /\ segment \in Nat /\ h <= segment
      /\ h = segment => ~inside
  <2>1. f \in Frame /\ Dated(f, segment, inside, Offered)
    BY Flight DEF Shapes, Line, Known
  <2>2. h \in Segments
    BY <2>1 DEF Frame
  <2>3. segment \in Nat /\ h \in Nat
    BY <2>2, Bounds DEF Shapes, Words, Segments
  <2>4. h <= segment /\ (h = segment => ~inside)
    BY <2>1, <2>3 DEF Dated
  <2>. QED BY <2>1, <2>2, <2>3, <2>4
<1>2. \A i \in DOMAIN InFlight' : /\ i + 1 \in DOMAIN InFlight /\ InFlight'[i] = InFlight[i + 1]
                                  /\ 1 < i + 1
  BY Flight DEF Shifted, Shapes
<1>3. ~Begun'
  BY DEF Begun
<1>4. ASSUME NEW s \in Segments PROVE Awaits(s)' <=> Awaits(s)
  BY <1>3, ShiftedAwaits
<1>5. ASSUME NEW s \in Segments PROVE Live(s)' => Live(s)
  BY <1>2 DEF Live
<1>6. \A i \in DOMAIN InFlight : i > 1 => h < InFlight[i].segment
  BY Flight DEF Line, Ordered, Shapes, Before
<1>7. Clock'
  BY <1>4, <1>5 DEF Clock, LastOf
<1>8. Past'
  BY <1>2 DEF Past, Offered
<1>9. ASSUME NEW s \in Segments, told'[s] # {}
      PROVE  /\ s <= segment /\ (s = segment => ~inside)
             /\ \A i \in DOMAIN InFlight' : InFlight'[i].segment # s
  <2>1. CASE s = h
    BY <1>1, <1>2, <1>6, <2>1 DEF Segments
  <2>2. CASE s # h
    <3>1. told[s] # {}
      BY <1>9, <2>2 DEF Shapes, Facts
    <3>. QED BY <1>2, <3>1 DEF Over
  <2>. QED BY <2>1, <2>2
<1>10. Over'
  BY <1>9 DEF Over
<1>11. ~Awaits(h)
  <2>. SUFFICES ASSUME NEW i \in DOMAIN InFlight, InFlight[i].kind = "start",
                       InFlight[i].segment = h, ~(i = 1 /\ Begun)
                PROVE  FALSE
    BY DEF Awaits
  <2>1. i # 1 /\ i \in Nat /\ ~(i < 1)
    BY Flight DEF Shapes
  <2>2. h < h /\ h \in Nat
    BY <1>1, <1>6, <2>1 DEF Segments
  <2>. QED BY <2>2
<1>12. Live(h)
  BY DEF Live
<1>13. LastOf(h, m_llLastSendVPts)
  BY <1>1, <1>11, <1>12 DEF Clock
<1>. QED BY <1>7, <1>8, <1>10, <1>13
\* A frame of the segment the application is in joins, or the STREAM_START of the
\* next one.
LEMMA TimesGrown ==
  ASSUME Shapes, Clock, Past, Over, NEW f \in Frame, Grown(f), f.segment = segment',
         UNCHANGED <<taken, thread, sent, told, m_llLastSendVPts>>,
         Offered \in Int, Offered' \in Int, Offered <= Offered',
         f.kind \in Kinds => Offered < f.pts,
         \/ segment' = segment /\ inside /\ f.kind # "start"
         \/ segment' = segment + 1 /\ inside' /\ f.kind = "start"
  PROVE  Clock' /\ Past' /\ Over'
<1>. DEFINE n == Len(InFlight) + 1
<1>1. /\ n \in Nat /\ DOMAIN InFlight' = 1 .. n /\ DOMAIN InFlight = 1 .. n - 1
      /\ n \in DOMAIN InFlight' /\ n \notin DOMAIN InFlight /\ InFlight'[n] = f
  BY Flight DEF Grown, Shapes
<1>2. /\ \A i \in DOMAIN InFlight : i \in DOMAIN InFlight' /\ InFlight'[i] = InFlight[i]
      /\ \A i \in DOMAIN InFlight' : i \in DOMAIN InFlight \/ i = n
  BY <1>1, Flight DEF Grown, Shapes
<1>3. segment \in Nat /\ f.segment \in Nat /\ segment' \in Nat /\ f.pts \in Nat
  BY Bounds DEF Shapes, Words, Frame, Segments
<1>4. n = 1 => ~Begun
  <2>1. taken # <<>> => 1 \in DOMAIN InFlight
    BY FlightHead DEF Shapes
  <2>. QED BY <1>1, <2>1 DEF Begun
<1>5. Begun' = Begun
  BY DEF Begun
<1>. HIDE DEF n
<1>6. ASSUME NEW s \in Segments
      PROVE  Awaits(s)' <=> Awaits(s) \/ (f.kind = "start" /\ f.segment = s)
  BY <1>1, <1>2, <1>4, <1>5 DEF Awaits
<1>7. ASSUME NEW s \in Segments, Live(s)', ~Awaits(s)' PROVE Live(s)
  <2>1. CASE f.kind = "start"
    BY <1>1, <1>2, <1>6, <1>7, <2>1 DEF Live
  <2>2. CASE f.kind # "start"
    <3>1. segment' = segment /\ inside
      BY <2>2
    <3>. QED BY <1>1, <1>2, <1>7, <3>1 DEF Live
  <2>. QED BY <2>1, <2>2
<1>8. Clock'
  <2>. SUFFICES ASSUME NEW s \in Segments
                PROVE  /\ s > segment' \/ Awaits(s)' => sent[s] = {}
                       /\ s <= segment' /\ Live(s)' /\ ~Awaits(s)' => LastOf(s, m_llLastSendVPts)
    BY DEF Clock, LastOf
  <2>1. s \in Nat
    BY DEF Segments
  <2>2. s > segment' => s > segment
    BY <1>3, <2>1
  <2>3. f.kind = "start" /\ f.segment = s => s > segment
    BY <1>3, <2>1
  <2>4. s > segment' \/ Awaits(s)' => sent[s] = {}
    BY <1>6, <2>2, <2>3 DEF Clock
  <2>5. s <= segment' /\ ~Awaits(s)' => s <= segment
    BY <1>3, <1>6, <2>1
  <2>6. ~Awaits(s)' => ~Awaits(s)
    BY <1>6
  <2>. QED BY <1>7, <2>4, <2>5, <2>6 DEF Clock
<1>9. Past'
  <2>. SUFFICES ASSUME NEW s \in Segments, NEW u \in sent[s]
                PROVE  /\ u <= Offered'
                       /\ \A i \in DOMAIN InFlight' :
                             InFlight'[i].kind \in Kinds => u < InFlight'[i].pts
    BY DEF Past
  <2>1. u \in Nat /\ u <= Offered
    BY Bounds DEF Past, Shapes, Facts
  <2>2. u <= Offered' /\ (f.kind \in Kinds => u < f.pts)
    BY <1>3, <2>1
  <2>3. \A i \in DOMAIN InFlight : InFlight[i].kind \in Kinds => u < InFlight[i].pts
    BY DEF Past
  <2>. QED BY <1>1, <1>2, <2>2, <2>3
<1>10. Over'
  <2>. SUFFICES ASSUME NEW s \in Segments, told[s] # {}
                PROVE  /\ s <= segment' /\ (s = segment' => ~inside')
                       /\ \A i \in DOMAIN InFlight' : InFlight'[i].segment # s
    BY DEF Over
  <2>1. s <= segment /\ (s = segment => ~inside) /\ s \in Nat
    BY DEF Over, Segments
  <2>2. s <= segment' /\ s # segment'
    BY <1>3, <2>1
  <2>3. \A i \in DOMAIN InFlight : InFlight[i].segment # s
    BY DEF Over
  <2>. QED BY <1>1, <1>2, <2>2, <2>3
<1>. QED BY <1>8, <1>9, <1>10

\* Once Close has returned nothing moves.
LEMMA Stopped ==
  ASSUME app = "deleted", thread = "gone", [Next]_vars
  PROVE  UNCHANGED <<app, thread, sent, told>>
<1>1. CASE AppStep
  BY <1>1 DEF AppStep, RecordSendPacket, SendPacket, SendStart, SendEnd, PushMetadata, Close,
       CallStep, CreateRecorder, OpenRecorder, TestRecorder, WriteFrame, PushPacket, CloseRest
<1>2. CASE ThreadStep \/ ThreadEnds
  BY <1>2 DEF ThreadStep, TakeFrame, CloseRecorder, DeleteRecorder, ClearRecorder, EndReturns,
       MuxMedia, DropMetadata, SendFrame, ThreadEnds
<1>3. CASE UNCHANGED vars
  BY <1>3 DEF vars, appVars, muxVars
<1>. QED BY <1>1, <1>2, <1>3 DEF Next

LEMMA TellsSame ==
  ASSUME TellsLastPicture, \A s \in Segments : told'[s] = told[s],
         \A s \in Segments : told[s] # {} => sent'[s] = sent[s]
  PROVE  TellsLastPicture'
BY DEF TellsLastPicture

LEMMA NextTimes == Shapes /\ Line /\ Times /\ [Next]_vars => Times'
<1>. SUFFICES ASSUME Shapes, Line, Times, [Next]_vars PROVE Times'
  OBVIOUS
<1>1. CASE app = "deleted"
  <2>1. UNCHANGED <<app, thread, sent, told>>
    BY <1>1, Stopped DEF Times
  <2>2. TellsLastPicture'
    BY <2>1, TellsSame DEF Times
  <2>. QED BY <1>1, <2>1, <2>2 DEF Times
<1>2. CASE app # "deleted"
  <2>. USE <1>2 DEF recVars, appVars, muxVars
  <2>1. Clock /\ Past /\ Over /\ TellsLastPicture
    BY DEF Times
  <2>2. CASE Moves \/ (MuxMedia /\ thread' = "sending") \/ \E kind \in Kinds : SendPacket(kind)
    <3>1. /\ UNCHANGED <<taken, m_MuxerQueue, segment, inside, sent, told, m_llLastSendVPts>>
          /\ app' # "deleted"
      BY <2>2, MovesNothing DEF MuxMedia, SendPacket
    <3>2. Begun' = Begun
      BY <2>2 DEF Begun, Moves, MuxMedia, SendPacket, RecordSendPacket, Close, CreateRecorder,
           OpenRecorder, TestRecorder, WriteFrame, CloseRecorder, DeleteRecorder, ClearRecorder,
           ThreadEnds, Shapes, Held, vars
    <3>3. Same
      BY <3>1 DEF Same, InFlight
    <3>4. Offered' = Offered
      <4>1. CASE \E kind \in Kinds : SendPacket(kind)
        <5>1. packet = <<>> /\ packet' # <<>> /\ Len(packet) = 0 /\ Len(packet') = 1
          BY <4>1 DEF SendPacket, Line, Calling, InCall
        <5>2. Len(packets') = Len(packets) + 1 /\ Len(packets) \in Nat
          BY <4>1 DEF SendPacket, Shapes, Lanes
        <5>. QED BY <5>1, <5>2 DEF Offered
      <4>2. CASE Moves \/ (MuxMedia /\ thread' = "sending")
        BY <4>2, MovesNothing DEF MuxMedia, Offered
      <4>. QED BY <2>2, <4>1, <4>2
    <3>5. Clock' /\ Past' /\ Over' /\ TellsLastPicture'
      BY <2>1, <3>1, <3>2, <3>3, <3>4, ClockSame, RestSame, TellsSame
    <3>. QED BY <3>1, <3>5 DEF Times
  <2>3. CASE PushPacket
    <3>1. /\ UNCHANGED <<taken, thread, segment, inside, packets, sent, told, m_llLastSendVPts>>
          /\ app' = "idle" /\ packet' = <<>> /\ app \in InCall
      BY <2>3 DEF PushPacket, InCall
    <3>2. packet # <<>> /\ inside /\ segment \in Nat
      BY <3>1, Bounds DEF Shapes, Held, Words
    <3>3. /\ packet[1].segment = segment /\ packet[1].pts = Len(packets)
          /\ packet[1].kind \in Kinds /\ Len(packet) = 1 /\ packet[1] \in Frame
      BY <3>2, OneFrame DEF Line, Calling, Shapes, Held, Lanes
    <3>4. /\ Offered \in Int /\ Offered' \in Int /\ Offered <= Offered'
          /\ Offered < packet[1].pts
      <4>1. Len(packets) \in Nat /\ Len(packet') = 0
        BY <3>1 DEF Shapes, Lanes
      <4>. QED BY <3>1, <3>3, <4>1 DEF Offered
    <3>5. TellsLastPicture'
      BY <2>1, <3>1, TellsSame
    <3>6. Clock' /\ Past' /\ Over'
      <4>1. CASE m_MuxerQueue' = m_MuxerQueue
        <5>1. Same /\ Begun' = Begun
          BY <3>1, <4>1 DEF Same, InFlight, Begun
        <5>2. Clock'
          BY <2>1, <3>1, <5>1, ClockSame
        <5>3. Past'
          <6>. SUFFICES ASSUME NEW s \in Segments, NEW u \in sent[s] PROVE u <= Offered'
            BY <2>1, <3>1, <5>1 DEF Past, Same
          <6>1. u \in Nat /\ u <= Offered
            BY <2>1, Bounds DEF Past, Shapes, Facts
          <6>. QED BY <3>4, <6>1
        <5>4. Over'
          BY <2>1, <3>1, <5>1 DEF Over, Same
        <5>. QED BY <5>2, <5>3, <5>4
      <4>2. CASE m_MuxerQueue' = m_MuxerQueue \o packet
        <5>1. Grown(packet[1])
          BY <3>1, <3>2, <4>2, FlightPushed DEF Shapes
        <5>2. packet[1].kind # "start"
          BY <3>3 DEF Kinds
        <5>. QED BY <2>1, <3>1, <3>2, <3>3, <3>4, <5>1, <5>2, TimesGrown
      <4>. QED BY <2>3, <4>1, <4>2 DEF PushPacket
    <3>. QED BY <3>1, <3>5, <3>6 DEF Times
  <2>4. CASE SendStart \/ SendEnd
    <3>. DEFINE f == [kind |-> IF SendStart THEN "start" ELSE "end",
                      segment |-> segment', pts |-> NoTime]
    <3>1. /\ UNCHANGED <<taken, thread, packets, packet, sent, told, m_llLastSendVPts>>
          /\ app' = "idle" /\ segment \in Nat
      BY <2>4, Bounds DEF SendStart, SendEnd, PushMetadata, Shapes, Words
    <3>2. f \in Frame /\ m_MuxerQueue' = Append(m_MuxerQueue, f)
      <4>1. CASE SendStart
        BY <3>1, <4>1, Bounds DEF SendStart, PushMetadata, Frame, Segments, NoTime
      <4>2. CASE ~SendStart
        BY <2>4, <4>2, Bounds DEF SendEnd, PushMetadata, Frame, NoTime, Shapes, Held
      <4>. QED BY <4>1, <4>2
    <3>3. Grown(f)
      BY <3>1, <3>2, FlightGrows DEF Shapes
    <3>4. Offered' = Offered /\ Offered \in Int
      BY <3>1 DEF Offered, Shapes, Lanes
    <3>5. /\ f.segment = segment' /\ f.kind \notin Kinds
          /\ \/ segment' = segment /\ inside /\ f.kind # "start"
             \/ segment' = segment + 1 /\ inside' /\ f.kind = "start"
      BY <2>4 DEF Kinds, SendStart, SendEnd
    <3>. HIDE DEF f
    <3>6. Clock' /\ Past' /\ Over'
      BY <2>1, <3>1, <3>2, <3>3, <3>4, <3>5, TimesGrown
    <3>. QED BY <2>1, <3>1, <3>6, TellsSame DEF Times
  <2>5. CASE CloseRest
    BY <2>1, <2>5, TellsSame DEF CloseRest, Times
  <2>6. CASE TakeFrame
    <3>1. /\ UNCHANGED <<segment, inside, packets, packet, sent, told, app>>
          /\ taken = <<>>
      BY <2>6 DEF TakeFrame, Shapes, Held
    <3>2. /\ Same /\ 1 \in DOMAIN InFlight /\ InFlight[1] = Head(m_MuxerQueue)
          /\ taken' # <<>> /\ ~Begun /\ Offered' = Offered
      BY <2>6, <3>1, FlightTaken DEF Begun, Shapes, Offered
    <3>3. Clock'
      <4>1. CASE InFlight[1].kind # "start" /\ m_llLastSendVPts' = m_llLastSendVPts
        BY <2>1, <3>1, <3>2, <4>1, ClockSame
      <4>2. CASE InFlight[1].kind = "start" /\ thread' = "sending" /\ SegmentStarts
        <5>1. Begun' /\ m_llLastSendVPts' = NoTime
          BY <3>2, <4>2 DEF Begun, SegmentStarts
        <5>. QED BY <2>1, <3>1, <3>2, <4>2, <5>1, ClockReset
      <4>3. CASE thread' = EndBegins /\ m_llLastSendVPts' = m_llLastSendVPts
        <5>1. Begun' = Begun
          BY <3>2, <4>3 DEF Begun, EndBegins
        <5>. QED BY <2>1, <3>1, <3>2, <4>3, <5>1, ClockSame
      <4>. QED BY <2>6, <3>2, <4>1, <4>2, <4>3 DEF TakeFrame
    <3>4. Past' /\ Over' /\ TellsLastPicture'
      BY <2>1, <3>1, <3>2, RestSame, TellsSame
    <3>. QED BY <3>1, <3>3, <3>4 DEF Times
  <2>7. CASE EndReturns
    <3>1. /\ UNCHANGED <<segment, inside, packets, packet, sent, told, app, taken, m_MuxerQueue>>
          /\ taken # <<>> /\ thread = "ended" /\ thread' = "sending"
      BY <2>7 DEF EndReturns, Shapes, Held
    <3>2. /\ Same /\ 1 \in DOMAIN InFlight /\ InFlight[1] = taken[1]
          /\ ~Begun /\ Begun' /\ Offered' = Offered
      BY <3>1, FlightHead DEF Begun, Shapes, Offered, Same, InFlight
    <3>3. Clock'
      <4>1. CASE InFlight[1].kind = "end" /\ m_llLastSendVPts' = m_llLastSendVPts
        BY <2>1, <3>1, <3>2, <4>1, ClockSame
      <4>2. CASE InFlight[1].kind = "start" /\ SegmentStarts
        BY <2>1, <3>1, <3>2, <4>2, ClockReset DEF SegmentStarts
      <4>. QED BY <2>7, <3>2, <4>1, <4>2 DEF EndReturns
    <3>4. Past' /\ Over' /\ TellsLastPicture'
      BY <2>1, <3>1, <3>2, RestSame, TellsSame
    <3>. QED BY <3>1, <3>3, <3>4 DEF Times
  <2>8. CASE Drops \/ SendFrame
    <3>1. /\ taken # <<>> /\ taken' = <<>> /\ m_MuxerQueue' = m_MuxerQueue /\ Begun
          /\ UNCHANGED <<segment, inside, packets, packet, app>>
      BY <2>8, Handing DEF Begun
    <3>2. /\ Shifted /\ 1 \in DOMAIN InFlight /\ InFlight[1] = taken[1] /\ taken[1] \in Frame
      BY <3>1, FlightShifts, FlightHead DEF Shapes
    <3>3. CASE UNCHANGED <<sent, told, m_llLastSendVPts>>
      BY <2>1, <3>1, <3>2, <3>3, TimesDropped, TellsSame DEF Times
    <3>4. CASE SendFrame /\ taken[1].kind = "video"
      <4>1. /\ m_llLastSendVPts' = InFlight[1].pts /\ told' = told
            /\ sent' = [sent EXCEPT ![InFlight[1].segment] = @ \cup {InFlight[1].pts}]
        BY <3>2, <3>4 DEF SendFrame, TimeOfPicture
      <4>2. /\ Clock' /\ Past' /\ Over'
            /\ \A s \in Segments : told[s] # {} => sent'[s] = sent[s]
        BY <2>1, <3>1, <3>2, <3>4, <4>1, PictureSent
      <4>. QED BY <2>1, <3>1, <4>1, <4>2, TellsSame DEF Times
    <3>5. CASE SendFrame /\ taken[1].kind = "end"
      <4>. DEFINE h == InFlight[1].segment
      <4>1. /\ UNCHANGED <<sent, m_llLastSendVPts>>
            /\ told' = [told EXCEPT ![h] = {m_llLastSendVPts}]
        BY <3>2, <3>5 DEF SendFrame, TimeOfPicture
      <4>2. Clock' /\ Past' /\ Over' /\ LastOf(h, m_llLastSendVPts)
        BY <2>1, <3>1, <3>2, <3>5, <4>1, EndSent
      <4>3. /\ told'[h] = {m_llLastSendVPts} /\ \A s \in Segments : s # h => told'[s] = told[s]
        BY <3>2, <4>1 DEF Frame, Shapes, Facts
      <4>. HIDE DEF h
      <4>4. TellsLastPicture'
        <5>. SUFFICES ASSUME NEW s \in Segments, NEW t \in told'[s] PROVE LastOf(s, t)
          BY <4>1 DEF TellsLastPicture, LastOf
        <5>1. CASE s = h
          BY <4>2, <4>3, <5>1
        <5>2. CASE s # h
          BY <2>1, <4>3, <5>2 DEF TellsLastPicture, LastOf
        <5>. QED BY <5>1, <5>2
      <4>. QED BY <3>1, <4>2, <4>4 DEF Times
    <3>6. SendFrame => \/ taken[1].kind \in {"video", "end"}
                       \/ UNCHANGED <<sent, told, m_llLastSendVPts>>
      BY DEF SendFrame, TimeOfPicture
    <3>7. Drops => UNCHANGED <<sent, told, m_llLastSendVPts>>
      BY DEF Drops, DropMetadata, MuxMedia
    <3>. QED BY <2>8, <3>3, <3>4, <3>5, <3>6, <3>7
  <2>. QED BY <2>2, <2>3, <2>4, <2>5, <2>6, <2>7, <2>8, Steps
<1>. QED BY <1>1, <1>2

LEMMA InitLine == Init => Line
<1>1. Init => DOMAIN InFlight = {} /\ packet = <<>>
  BY DEF Init, InFlight
<1>. QED BY <1>1 DEF Line, Ordered, Known, StartsFirst, Calling

\* PUSH_SEGMENT_END tells the time stamp of the last picture of its segment that was sent,
\* whatever the application does and whatever is dropped on the way.
THEOREM LastPictureTheorem == Spec => []TellsLastPicture
<1>1. Init => Shapes /\ Line /\ Times
  <2>. SUFFICES ASSUME Init PROVE Shapes /\ Line /\ Times
    OBVIOUS
  <2>1. Shapes
    BY InitInv, TypeParts DEF IInv, Shapes
  <2>. USE DEF Init
  <2>2. DOMAIN InFlight = {} /\ Len(packets) = 0 /\ Len(packet) = 0
    BY DEF InFlight
  <2>3. Line
    BY InitLine
  <2>4. \A s \in Segments : sent[s] = {} /\ told[s] = {}
    OBVIOUS
  <2>5. Times
    BY <2>4 DEF Times, TellsLastPicture, Clock, Past, Over, LastOf
  <2>. QED BY <2>1, <2>3, <2>5
<1>2. Shapes /\ Line /\ Times /\ [Next]_vars => (Shapes /\ Line /\ Times)'
  BY NextShapes, NextLine, NextTimes
<1>3. Times => TellsLastPicture
  BY DEF Times
<1>. QED BY <1>1, <1>2, <1>3, PTL DEF Spec
-----------------------------------------------------------------------------
(* The files.  The one being written has every packet since its first, all *)
(* of the segment the application is in; a complete one has its segment to *)
(* the end, because the application has left it.                           *)

Packets == Seq([kind : Kinds, segment : Segments])

\* f has packets of segment s that follow each other.
Recorded(f, s, ps) == \A i \in DOMAIN f : /\ f[i] \in DOMAIN ps /\ ps[f[i]].segment = s
                                          /\ f[i] = f[1] + i - 1

\* f goes to the end of the segment of its first packet.
ToTheEnd(f, ps) ==
  /\ f # <<>> /\ Recorded(f, ps[f[1]].segment, ps)
  /\ \A k \in DOMAIN ps : k > f[Len(f)] => ps[k].segment # ps[f[1]].segment

\* The call has a packet that it has not yet written.
Unwritten == app \in {"testing", "writing"}

UpToNow(f) == IF f = <<>> THEN Unwritten
              ELSE f[Len(f)] = IF Unwritten THEN Len(packets) - 1 ELSE Len(packets)

Recording == m_pRecMuxer # None /\ recorder[m_pRecMuxer].state = "open"

Growing == Recording =>
  \E u \in Urls : /\ u = recorder[m_pRecMuxer].url /\ ~file[u].complete
                  /\ Recorded(file[u].frames, segment, packets) /\ UpToNow(file[u].frames)

Left(s) == s < segment \/ (s = segment /\ ~inside)

Whole == \A u \in Urls : file[u].complete =>
           /\ ToTheEnd(file[u].frames, packets)
           /\ app # "deleted" => Left(packets[file[u].frames[1]].segment)

LEMMA FileTypes ==
  ASSUME Stores, NEW u \in Urls
  PROVE  /\ file[u] \in [complete : BOOLEAN, frames : Seq(1 .. MaxPackets)]
         /\ file[u].frames \in Seq(1 .. MaxPackets) /\ file[u].complete \in BOOLEAN
         /\ file[u].frames \in Seq(Nat)
<1>1. file[u] \in [complete : BOOLEAN, frames : Seq(1 .. MaxPackets)]
  BY DEF Stores
<1>2. file[u].frames \in Seq(1 .. MaxPackets)
  BY <1>1
<1>3. 1 .. MaxPackets \subseteq Nat
  BY Bounds
<1>. QED BY <1>1, <1>2, <1>3, SeqMonotonic

LEMMA Ends ==
  ASSUME NEW f \in Seq(Nat), f # <<>>
  PROVE  /\ Len(f) \in Nat \ {0} /\ 1 \in DOMAIN f /\ Len(f) \in DOMAIN f
         /\ DOMAIN f = 1 .. Len(f) /\ f[1] \in Nat /\ f[Len(f)] \in Nat
BY EmptySeq

\* A recorded packet stays what it is when the next is sent.
LEMMA RecordedStill ==
  ASSUME NEW ps \in Packets, NEW p \in [kind : Kinds, segment : Segments],
         NEW f \in Seq(Nat), NEW s, Recorded(f, s, ps)
  PROVE  Recorded(f, s, Append(ps, p))
<1>1. ASSUME NEW k \in DOMAIN ps
      PROVE  k \in DOMAIN Append(ps, p) /\ Append(ps, p)[k] = ps[k]
  BY DEF Packets
<1>. QED BY <1>1 DEF Recorded

\* The next packet of the segment is written.
LEMMA RecordedNext ==
  ASSUME NEW ps \in Packets, NEW f \in Seq(Nat), NEW s, NEW n \in DOMAIN ps,
         Recorded(f, s, ps), ps[n].segment = s,
         f # <<>> => f[Len(f)] = n - 1
  PROVE  Recorded(Append(f, n), s, ps)
<1>. DEFINE g == Append(f, n)
<1>1. n \in Nat /\ Len(f) \in Nat
  BY DEF Packets
<1>2. /\ DOMAIN g = 1 .. Len(f) + 1 /\ g[Len(f) + 1] = n
      /\ \A i \in 1 .. Len(f) : g[i] = f[i] /\ i \in DOMAIN f
  BY <1>1
<1>. HIDE DEF g
<1>3. CASE f = <<>>
  <2>1. Len(f) = 0
    BY <1>3
  <2>2. \A i \in DOMAIN g : i = 1 /\ g[i] = n
    BY <1>1, <1>2, <2>1
  <2>. QED BY <1>1, <2>2 DEF Recorded, g
<1>4. CASE f # <<>>
  <2>1. Len(f) \in Nat \ {0} /\ 1 \in DOMAIN f /\ Len(f) \in DOMAIN f /\ f[1] \in Nat
    BY <1>4, Ends
  <2>2. f[Len(f)] = f[1] + Len(f) - 1
    BY <2>1 DEF Recorded
  <2>3. 1 \in 1 .. Len(f) /\ g[1] = f[1]
    BY <1>2, <2>1
  <2>4. n - 1 = f[1] + Len(f) - 1
    BY <1>4, <2>2
  <2>5. n = g[1] + (Len(f) + 1) - 1
    <3>. DEFINE a == f[1]
                L == Len(f)
                b == g[1]
    <3>1. a \in Nat /\ L \in Nat /\ b = a /\ n - 1 = a + L - 1
      BY <1>1, <2>1, <2>3, <2>4
    <3>2. n = b + (L + 1) - 1
      <4>. HIDE DEF a, L, b
      <4>. QED BY <1>1, <3>1
    <3>. QED BY <3>2
  <2>6. ASSUME NEW i \in DOMAIN g
        PROVE  g[i] \in DOMAIN ps /\ ps[g[i]].segment = s /\ g[i] = g[1] + i - 1
    <3>1. CASE i \in 1 .. Len(f)
      BY <1>2, <2>3, <3>1 DEF Recorded
    <3>2. CASE i = Len(f) + 1
      BY <1>2, <2>5, <3>2
    <3>3. i \in 1 .. Len(f) \/ i = Len(f) + 1
      BY <1>1, <1>2
    <3>. QED BY <3>1, <3>2, <3>3
  <2>. QED BY <2>6 DEF Recorded, g
<1>. QED BY <1>3, <1>4

\* A file that is written up to the last packet is complete.
LEMMA Finishes ==
  ASSUME NEW ps \in Packets, NEW f \in Seq(Nat), NEW s, f # <<>>, Recorded(f, s, ps),
         f[Len(f)] = Len(ps)
  PROVE  ToTheEnd(f, ps) /\ ps[f[1]].segment = s
<1>1. 1 \in DOMAIN f
  BY Ends
<1>2. ps[f[1]].segment = s
  BY <1>1 DEF Recorded
<1>3. \A k \in DOMAIN ps : ~(k > f[Len(f)])
  BY DEF Packets
<1>. QED BY <1>2, <1>3 DEF ToTheEnd

\* No file is written and no packet is sent.
LEMMA FilesSame ==
  ASSUME Stores, Lanes, Words, Growing, Whole, UNCHANGED <<file, packets>>,
         Recording' => Recording /\ UNCHANGED <<m_pRecMuxer, recorder, segment, Unwritten>>,
         app' # "deleted" => app # "deleted",
         \/ segment' = segment /\ (inside' => inside)
         \/ segment' = segment + 1
  PROVE  Growing' /\ Whole'
<1>1. Growing'
  BY DEF Growing, UpToNow
<1>2. segment \in Nat
  BY Bounds DEF Words
<1>3. ASSUME NEW u \in Urls, file[u].complete, app' # "deleted"
      PROVE  Left(packets[file[u].frames[1]].segment)'
  <2>. DEFINE s == packets[file[u].frames[1]].segment
  <2>1. Left(s) /\ file[u].frames # <<>> /\ Recorded(file[u].frames, s, packets)
    BY <1>3 DEF Whole, ToTheEnd
  <2>2. file[u].frames[1] \in DOMAIN packets
    BY <2>1, FileTypes, Ends DEF Recorded
  <2>3. s \in Nat
    <3>. DEFINE k == file[u].frames[1]
    <3>1. packets[k] \in [kind : Kinds, segment : Segments]
      <4>1. k \in DOMAIN packets /\ packets \in Seq([kind : Kinds, segment : Segments])
        BY <2>2 DEF Lanes
      <4>. HIDE DEF k
      <4>. QED BY <4>1, ElementOfSeq, LenProperties
    <3>2. packets[k].segment \in Segments
      <4>. HIDE DEF k
      <4>. QED BY <3>1
    <3>. QED BY <3>2 DEF Segments
  <2>. HIDE DEF s
  <2>4. s < segment' \/ (s = segment' /\ ~inside')
    BY <1>2, <2>1, <2>3 DEF Left
  <2>. QED BY <2>4 DEF Left, s
<1>4. Whole'
  BY <1>3 DEF Whole
<1>. QED BY <1>1, <1>4
\* close: the recorder's file has the segment to its end.
LEMMA FileCloses ==
  ASSUME Stores, packets \in Packets, Growing, Whole, Recording, ~Unwritten,
         file' = Completed(m_pRecMuxer), NEW u \in Urls, file'[u].complete
  PROVE  /\ ToTheEnd(file'[u].frames, packets)
         /\ \/ file[u].complete /\ file'[u] = file[u]
            \/ packets[file'[u].frames[1]].segment = segment
<1>1. CASE u = recorder[m_pRecMuxer].url
  <2>1. /\ Recorded(file[u].frames, segment, packets) /\ UpToNow(file[u].frames)
    BY <1>1 DEF Growing
  <2>2. file'[u].frames = file[u].frames /\ file[u].frames \in Seq(Nat)
    BY <1>1, FileTypes DEF Completed, Recording
  <2>3. file[u].frames # <<>> /\ file[u].frames[Len(file[u].frames)] = Len(packets)
    BY <2>1 DEF UpToNow
  <2>. QED BY <2>1, <2>2, <2>3, Finishes
<1>2. CASE u # recorder[m_pRecMuxer].url
  <2>1. file'[u] = file[u]
    BY <1>2 DEF Completed
  <2>. QED BY <2>1 DEF Whole
<1>. QED BY <1>1, <1>2

LEMMA NextFiles ==
  Careful /\ FileOpens /\ IInv /\ Calling /\ Growing /\ Whole /\ [Next]_vars
    => Growing' /\ Whole'
<1>. SUFFICES ASSUME Careful, FileOpens, IInv, Calling, Growing, Whole, [Next]_vars
              PROVE  Growing' /\ Whole'
  OBVIOUS
<1>. USE DEF recVars, appVars, muxVars
<1>0. /\ Stores /\ Lanes /\ Words /\ packets \in Packets
      /\ Held /\ Bracketed /\ Closed /\ Owned
  BY TypeParts DEF IInv, Lanes, Packets
<1>1. CASE \E url \in Urls \cup {NoUrl} : RecordSendPacket(url)
  <2>1. UNCHANGED <<file, packets, recorder, m_pRecMuxer, segment, inside, app>>
    BY <1>1 DEF RecordSendPacket
  <2>. QED BY <1>0, <2>1, FilesSame DEF Recording, Unwritten
<1>2. ASSUME NEW kind \in Kinds, SendPacket(kind) PROVE Growing' /\ Whole'
  <2>. DEFINE p == [kind |-> kind, segment |-> segment]
  <2>1. /\ UNCHANGED <<file, recorder, m_pRecMuxer, segment, inside>>
        /\ packets' = Append(packets, p) /\ app = "idle" /\ inside
        /\ app' # "deleted"
        /\ m_pRecMuxer # None => app' = "testing"
    BY <1>2 DEF SendPacket
  <2>2. segment \in Segments /\ p \in [kind : Kinds, segment : Segments] /\ segment \in Nat
    BY <1>0, <2>1 DEF Held, Segments
  <2>3. /\ Len(packets) \in Nat /\ Len(packets') = Len(packets) + 1
        /\ \A k \in DOMAIN packets : k \in DOMAIN packets' /\ packets'[k] = packets[k]
        /\ \A k \in DOMAIN packets' : k \in DOMAIN packets \/ packets'[k] = p
    BY <1>0, <2>1, <2>2 DEF Packets
  <2>4. ASSUME NEW f \in Seq(Nat), NEW s, Recorded(f, s, packets) PROVE Recorded(f, s, packets')
    BY <1>0, <2>1, <2>2, <2>4, RecordedStill
  <2>5. Growing'
    <3>. SUFFICES ASSUME Recording' PROVE Growing'
      BY DEF Growing
    <3>1. PICK u \in Urls : /\ u = recorder[m_pRecMuxer].url /\ ~file[u].complete
                            /\ Recorded(file[u].frames, segment, packets)
                            /\ UpToNow(file[u].frames)
      BY <2>1 DEF Recording, Growing
    <3>2. ~Unwritten /\ Unwritten'
      BY <2>1 DEF Recording, Unwritten
    <3>3. Recorded(file[u].frames, segment, packets')
      BY <1>0, <2>4, <3>1, FileTypes
    <3>4. Len(packets') - 1 = Len(packets)
      BY <2>3
    <3>5. UpToNow(file[u].frames)'
      BY <2>1, <3>1, <3>2, <3>4 DEF UpToNow
    <3>. QED BY <2>1, <3>1, <3>3, <3>5 DEF Growing
  <2>6. ASSUME NEW u \in Urls, file[u].complete
        PROVE  /\ ToTheEnd(file[u].frames, packets')
               /\ Left(packets'[file[u].frames[1]].segment)
    <3>. DEFINE f == file[u].frames
                s == packets[f[1]].segment
    <3>1. /\ f \in Seq(Nat) /\ f # <<>> /\ Recorded(f, s, packets) /\ Left(s)
          /\ \A k \in DOMAIN packets : k > f[Len(f)] => packets[k].segment # s
      BY <1>0, <2>1, <2>6, FileTypes DEF Whole, ToTheEnd
    <3>2. f[1] \in DOMAIN packets
      BY <3>1, Ends DEF Recorded
    <3>3. packets'[f[1]].segment = s
      BY <2>3, <3>2
    <3>4. s # segment
      BY <2>1, <2>2, <3>1 DEF Left
    <3>5. \A k \in DOMAIN packets' : k > f[Len(f)] => packets'[k].segment # s
      <4>. HIDE DEF s, f
      <4>. QED BY <2>3, <3>1, <3>4
    <3>6. Recorded(f, s, packets')
      BY <2>4, <3>1
    <3>. HIDE DEF s, f
    <3>7. ToTheEnd(f, packets')
      BY <3>1, <3>3, <3>5, <3>6 DEF ToTheEnd
    <3>. QED BY <3>1, <3>3, <3>7 DEF f
  <2>7. Whole'
    BY <2>1, <2>6 DEF Whole, Left
  <2>. QED BY <2>5, <2>7
<1>3. CASE CreateRecorder
  <2>1. UNCHANGED <<file, packets, segment, inside>> /\ app' = "opening"
    BY <1>3 DEF CreateRecorder
  <2>2. ~Recording'
    BY <1>0, <1>3 DEF CreateRecorder, Become, Recording, Stores, Unused
  <2>. QED BY <1>0, <1>3, <2>1, <2>2, FilesSame DEF CreateRecorder
<1>4. CASE OpenRecorder
  <2>. DEFINE url == m_precord_url
  <2>1. /\ recorder' = [recorder EXCEPT ![hold] = [state |-> "open", url |-> url]]
        /\ file' = [file EXCEPT ![url] = NewFile]
        /\ app = "opening" /\ app' = "testing" /\ m_pRecMuxer' = m_pRecMuxer
        /\ UNCHANGED <<packets, segment, inside>>
    BY <1>4 DEF OpenRecorder
  <2>2. url \in Urls /\ hold = m_pRecMuxer /\ m_pRecMuxer \in Recorders
    BY <1>0, <2>1 DEF Closed, Owned, Words
  <2>3. recorder'[m_pRecMuxer].url = url
    BY <1>0, <2>1, <2>2 DEF Stores
  <2>4. /\ file'[url] = NewFile
        /\ \A u \in Urls : u # url => file'[u] = file[u]
    BY <1>0, <2>1, <2>2 DEF Stores
  <2>. HIDE DEF url
  <2>5. Growing'
    <3>1. Unwritten' /\ ~NewFile.complete /\ NewFile.frames = <<>>
      BY <2>1 DEF Unwritten, NewFile
    <3>2. Recorded(<<>>, segment', packets')
      BY DEF Recorded
    <3>. QED BY <2>1, <2>2, <2>3, <2>4, <3>1, <3>2 DEF Growing, UpToNow
  <2>6. Whole'
    BY <2>1, <2>4 DEF Whole, NewFile, Left
  <2>. QED BY <2>5, <2>6
<1>5. CASE TestRecorder
  <2>1. /\ UNCHANGED <<file, packets, recorder, m_pRecMuxer, segment, inside>>
        /\ app = "testing" /\ app' # "deleted"
        /\ m_pRecMuxer # None => app' = "writing"
    BY <1>5 DEF TestRecorder
  <2>2. Recording' => Recording /\ Unwritten' = Unwritten
    BY <2>1 DEF Recording, Unwritten
  <2>. QED BY <1>0, <2>1, <2>2, FilesSame
<1>6. CASE WriteFrame
  <2>1. /\ UNCHANGED <<packets, recorder, m_pRecMuxer, segment, inside>>
        /\ file' = [u \in Urls |-> IF u = recorder[hold].url
                                  THEN [file[u] EXCEPT !.frames = Append(@, packet[1].pts)]
                                  ELSE file[u]]
        /\ app = "writing" /\ app' = "pushing"
    BY <1>6 DEF WriteFrame
  <2>2. /\ hold = m_pRecMuxer /\ m_pRecMuxer # None /\ inside /\ packet # <<>>
    BY <1>0, <2>1 DEF Owned, Held, InCall
  <2>3. /\ packet[1].segment = segment /\ packet[1].pts = Len(packets)
        /\ packet[1] \in Frame /\ packet[1].pts # NoTime
    BY <1>0, <2>2, OneFrame DEF Calling, Held, Lanes
  <2>4. thread \notin {"deleting", "clearing"}
    BY <1>0, <2>2 DEF Closed, Bracketed, Ending
  <2>5. Recording
    BY <1>0, <2>1, <2>2, <2>4 DEF Owned, Recording
  <2>6. PICK u \in Urls : /\ u = recorder[m_pRecMuxer].url /\ ~file[u].complete
                          /\ Recorded(file[u].frames, segment, packets)
                          /\ UpToNow(file[u].frames)
    BY <2>5 DEF Growing
  <2>. DEFINE f == file[u].frames
              n == Len(packets)
  <2>7. /\ file'[u].complete = file[u].complete /\ file'[u].frames = Append(f, n)
        /\ \A v \in Urls : v # u => file'[v] = file[v]
    BY <1>0, <2>1, <2>2, <2>3, <2>6, FileTypes
  <2>8. Growing'
    <3>1. f \in Seq(Nat) /\ n \in Nat /\ n # 0 /\ n \in DOMAIN packets
      BY <1>0, <2>3, FileTypes DEF Packets, NoTime
    <3>2. packets[n].segment = segment
      BY <2>2 DEF Calling
    <3>3. f # <<>> => f[Len(f)] = n - 1
      BY <2>1, <2>6 DEF UpToNow, Unwritten
    <3>4. Recorded(Append(f, n), segment, packets)
      <4>. HIDE DEF f, n
      <4>. QED BY <1>0, <2>6, <3>1, <3>2, <3>3, RecordedNext DEF f
    <3>5. Append(f, n) # <<>> /\ Append(f, n)[Len(Append(f, n))] = n
      <4>. HIDE DEF f, n
      <4>. QED BY <3>1
    <3>6. ~Unwritten'
      BY <2>1 DEF Unwritten
    <3>7. UpToNow(file[u].frames)'
      BY <2>1, <2>7, <3>5, <3>6 DEF UpToNow
    <3>. QED BY <2>1, <2>6, <2>7, <3>4, <3>7 DEF Growing
  <2>9. Whole'
    BY <2>1, <2>6, <2>7, ZenonT(60) DEF Whole, Left
  <2>. QED BY <2>8, <2>9
<1>7. CASE PushPacket \/ Close
  <2>1. /\ UNCHANGED <<file, packets, recorder, m_pRecMuxer, segment, inside>>
        /\ app \in {"pushing", "idle"} /\ app' \in {"idle", "stopping"}
    BY <1>7 DEF PushPacket, Close
  <2>2. UNCHANGED Unwritten /\ (Recording' => Recording)
    BY <2>1 DEF Unwritten, Recording
  <2>. QED BY <1>0, <2>1, <2>2, FilesSame
<1>8. CASE SendStart
  <2>1. /\ UNCHANGED <<file, packets, recorder, m_pRecMuxer, app>> /\ segment' = segment + 1
        /\ ~waiting /\ (inside => m_precord_url = NoUrl)
    BY <1>8 DEF SendStart, PushMetadata
  <2>2. ~Recording'
    BY <1>0, <2>1 DEF Closed, Recording
  <2>. QED BY <1>0, <2>1, <2>2, FilesSame
<1>9. CASE SendEnd
  <2>1. /\ UNCHANGED <<file, packets, recorder, m_pRecMuxer, app, segment>> /\ ~inside'
    BY <1>9 DEF SendEnd, PushMetadata
  <2>. QED BY <1>0, <2>1, FilesSame DEF Unwritten, Recording
<1>10. CASE CloseRecorder
  <2>1. /\ UNCHANGED <<m_pRecMuxer, packets, segment, inside, app>> /\ thread = "closing"
        /\ file' = Completed(m_pRecMuxer)
        /\ recorder' = [recorder EXCEPT ![m_pRecMuxer].state = "closed"]
    BY <1>10 DEF CloseRecorder, Become
  <2>2. /\ ~inside /\ m_pRecMuxer \in Recorders /\ m_pRecMuxer # None /\ app \notin InCall
    BY <1>0, <2>1 DEF Closed, Ending, Bracketed, Words, Held
  <2>3. Recording
    BY <1>0, <2>1, <2>2 DEF Owned, Recording, InCall
  <2>4. ~Recording'
    BY <1>0, <2>1, <2>2 DEF Recording, Stores
  <2>5. ~Unwritten
    BY <2>2 DEF Unwritten, InCall
  <2>6. ASSUME NEW u \in Urls, file'[u].complete
        PROVE  ToTheEnd(file'[u].frames, packets) /\ Left(packets[file'[u].frames[1]].segment)
    <3>1. Left(segment)
      BY <2>2 DEF Left
    <3>2. /\ ToTheEnd(file'[u].frames, packets)
          /\ \/ file[u].complete /\ file'[u] = file[u]
             \/ packets[file'[u].frames[1]].segment = segment
      BY <1>0, <2>1, <2>3, <2>5, <2>6, FileCloses
    <3>3. app # "deleted"
      BY <1>0, <2>1 DEF Owned
    <3>. QED BY <3>1, <3>2, <3>3 DEF Whole
  <2>. QED BY <2>1, <2>4, <2>6 DEF Growing, Whole, Left
<1>11. CASE CloseRest
  <2>1. /\ UNCHANGED <<packets, segment, inside>> /\ m_pRecMuxer' = None
        /\ app = "stopping" /\ app' = "deleted" /\ thread = "gone"
    BY <1>11 DEF CloseRest
  <2>2. ~Recording' /\ ~Unwritten
    BY <2>1 DEF Recording, Unwritten
  <2>3. ASSUME NEW u \in Urls, file'[u].complete PROVE ToTheEnd(file'[u].frames, packets)
    <3>1. CASE m_pRecMuxer = None
      BY <1>11, <2>3, <3>1 DEF CloseRest, Whole
    <3>2. CASE m_pRecMuxer # None
      <4>1. Recording
        BY <1>0, <2>1, <3>2 DEF Owned, Recording
      <4>. QED BY <1>0, <1>11, <2>1, <2>2, <2>3, <3>2, <4>1, FileCloses DEF CloseRest
    <3>. QED BY <3>1, <3>2
  <2>. QED BY <2>1, <2>2, <2>3 DEF Growing, Whole
<1>12. CASE DeleteRecorder \/ ClearRecorder
  <2>1. UNCHANGED <<file, packets, app, segment, inside>>
    BY <1>12 DEF DeleteRecorder, ClearRecorder
  <2>2. m_pRecMuxer \in Recorders
    BY <1>0, <1>12 DEF DeleteRecorder, ClearRecorder, Held, Ending, Words
  <2>3. ~Recording'
    BY <1>0, <1>12, <2>2 DEF DeleteRecorder, ClearRecorder, Become, Recording, Stores
  <2>. QED BY <1>0, <2>1, <2>3, FilesSame
<1>13. CASE TakeFrame \/ EndReturns \/ MuxMedia \/ DropMetadata \/ SendFrame \/ ThreadEnds
              \/ UNCHANGED vars
  <2>1. UNCHANGED <<file, packets, recorder, m_pRecMuxer, segment, inside, app>>
    BY <1>13 DEF TakeFrame, EndReturns, MuxMedia, DropMetadata, SendFrame, ThreadEnds, vars
  <2>. QED BY <1>0, <2>1, FilesSame DEF Recording, Unwritten
<1>. QED BY <1>1, <1>2, <1>3, <1>4, <1>5, <1>6, <1>7, <1>8, <1>9, <1>10, <1>11, <1>12, <1>13
     DEF Next, AppStep, CallStep, ThreadStep, Kinds

\* A complete file holds one segment from its first recorded packet to its last, and
\* nothing else, if the application waits for PUSH_SEGMENT_END and files open.
THEOREM WholeSegmentTheorem == Careful /\ FileOpens /\ Spec => []WholeSegment
<1>. SUFFICES ASSUME Careful, FileOpens PROVE Spec => []WholeSegment
  OBVIOUS
<1>. DEFINE FInv == IInv /\ Line /\ Growing /\ Whole
<1>1. Init => FInv
  <2>. SUFFICES ASSUME Init PROVE FInv
    OBVIOUS
  <2>1. IInv /\ Line
    BY InitInv, InitLine
  <2>2. Growing /\ Whole
    BY DEF Init, Growing, Whole, Recording, NewFile
  <2>. QED BY <2>1, <2>2
<1>2. FInv /\ [Next]_vars => FInv'
  <2>1. IInv => Shapes
    BY TypeParts DEF IInv, Shapes
  <2>2. Line => Calling
    BY DEF Line
  <2>. QED BY <2>1, <2>2, NextInv, NextLine, NextFiles
<1>3. FInv => WholeSegment
  <2>. SUFFICES ASSUME FInv, NEW u \in Urls, file[u].complete,
                       NEW f, f = file[u].frames, NEW s, s = packets[f[1]].segment
                PROVE  /\ f = [i \in DOMAIN f |-> f[1] + i - 1]
                       /\ \A k \in DOMAIN packets : k >= f[1] =>
                            (packets[k].segment = s <=> k <= f[Len(f)])
    BY DEF WholeSegment
  <2>1. f \in Seq(Nat) /\ packets \in Packets
    BY FileTypes, TypeParts DEF IInv, Lanes, Packets
  <2>2. /\ f # <<>> /\ Recorded(f, s, packets)
        /\ \A k \in DOMAIN packets : k > f[Len(f)] => packets[k].segment # s
    BY DEF Whole, ToTheEnd
  <2>3. f = [i \in DOMAIN f |-> f[1] + i - 1]
    BY <2>1, <2>2 DEF Recorded
  <2>4. ASSUME NEW k \in DOMAIN packets, k >= f[1], k <= f[Len(f)]
        PROVE  packets[k].segment = s
    <3>1. /\ f[1] \in Nat /\ Len(f) \in Nat /\ Len(f) \in DOMAIN f /\ DOMAIN f = 1 .. Len(f)
          /\ k \in Nat /\ f[Len(f)] \in Nat
      BY <2>1, <2>2, Ends DEF Packets
    <3>2. f[Len(f)] = f[1] + Len(f) - 1
      BY <2>2, <3>1 DEF Recorded
    <3>. DEFINE i == k - f[1] + 1
    <3>3. i \in DOMAIN f /\ f[1] + i - 1 = k
      <4>. DEFINE a == f[1]
                  b == f[Len(f)]
                  l == Len(f)
      <4>1. /\ a \in Nat /\ l \in Nat /\ b = a + l - 1 /\ k >= a /\ k <= b
            /\ DOMAIN f = 1 .. l /\ k \in Nat
        BY <2>4, <3>1, <3>2
      <4>2. k - a + 1 \in 1 .. l /\ a + (k - a + 1) - 1 = k
        <5>. HIDE DEF a, b, l
        <5>. QED BY <4>1
      <4>. QED BY <4>1, <4>2
    <3>. HIDE DEF i
    <3>. QED BY <2>2, <3>3 DEF Recorded
  <2>5. \A k \in DOMAIN packets : k \in Nat
    BY <2>1 DEF Packets
  <2>6. f[Len(f)] \in Nat
    BY <2>1, <2>2, Ends
  <2>. QED BY <2>2, <2>3, <2>4, <2>5, <2>6
<1>. QED BY <1>1, <1>2, <1>3, PTL DEF Spec
=============================================================================
