---------------------------- MODULE ChannelProofs ----------------------------
(***************************************************************************)
(* A push connection is the lossy channel of LossyChannel, for any number  *)
(* and sizes of frames: every step of BasePush is a step of the channel or *)
(* leaves the channel as it is.                                            *)
(*                                                                         *)
(* The argument is Numbered of BasePushProofs: the frames on the way are   *)
(* numbered from the one after the last that was finished.                 *)
(***************************************************************************)
EXTENDS BasePushProofs

\* What is on the way, by number: the frames after the last finished one.
Waiting == Len(taken) + Len(m_MuxerQueue)
Counts == /\ Waiting \in Nat
          /\ accepted = Finished + Waiting
          /\ OnTheWay = [i \in 1 .. Waiting |-> Finished + i]

LEMMA IndexBehind ==
  ASSUME NEW a \in {0, 1}, NEW b \in Nat, NEW i \in 1 .. a + b, ~(a = 1 /\ i = 1)
  PROVE  i - a \in 1 .. b /\ a + (i - a) = i
<1>1. CASE a = 0
  BY <1>1
<1>2. CASE a = 1
  BY <1>2
<1>. QED BY <1>1, <1>2

LEMMA NumberedCounts == Numbered => Counts
<1>. SUFFICES ASSUME Numbered PROVE Counts
  OBVIOUS
<1>. DEFINE all == taken \o m_MuxerQueue
            a == Len(taken)
            b == Len(m_MuxerQueue)
<1>1. /\ m_MuxerQueue \in Seq(Frame) /\ taken \in Seq(Frame) /\ b \in Nat /\ a \in {0, 1}
      /\ accepted \in Nat /\ Finished \in Nat
      /\ Finished = accepted - b - a
      /\ \A i \in 1 .. b : m_MuxerQueue[i].id = accepted - b + i
      /\ a = 1 => taken[1].id = Finished + 1
  BY DEF Numbered, Finished
<1>2. /\ DOMAIN all = 1 .. a + b
      /\ a = 1 => all[1] = taken[1]
      /\ \A i \in 1 .. b : all[a + i] = m_MuxerQueue[i]
  BY <1>1
<1>3. ASSUME NEW i \in 1 .. a + b PROVE all[i].id = Finished + i
  <2>1. CASE a = 1 /\ i = 1
    BY <1>1, <1>2, <2>1
  <2>2. CASE ~(a = 1 /\ i = 1)
    <3>. HIDE DEF a, b, all
    <3>1. i - a \in 1 .. b /\ a + (i - a) = i
      BY <1>1, <2>2, IndexBehind
    <3>2. all[i] = m_MuxerQueue[i - a]
      BY <1>2, <3>1
    <3>3. m_MuxerQueue[i - a].id = accepted - b + (i - a)
      BY <1>1, <3>1
    <3>4. a \in Int /\ b \in Int /\ i \in Int
      BY <1>1
    <3>. QED BY <1>1, <3>2, <3>3, <3>4
  <2>. QED BY <2>1, <2>2
<1>4. a + b \in Nat /\ accepted = Finished + (a + b)
  BY <1>1
<1>5. OnTheWay = [i \in 1 .. a + b |-> all[i].id]
  BY <1>2 DEF OnTheWay
<1>. QED BY <1>3, <1>4, <1>5 DEF Counts, Waiting

LEMMA NumberedCountsNext == Numbered' => Counts'
  BY NumberedCounts, PTL

-----------------------------------------------------------------------------
(* The steps of the channel.                                               *)

LEMMA WaitingCounts ==
  ASSUME Counts, Counts'
  PROVE  /\ Waiting \in Nat /\ accepted = Finished + Waiting
         /\ Waiting' \in Nat /\ accepted' = Finished' + Waiting'
<1>1. Waiting \in Nat /\ accepted = Finished + Waiting
  BY DEF Counts
<1>2. Waiting' \in Nat /\ accepted' = Finished' + Waiting'
  BY DEF Counts
<1>. QED BY <1>1, <1>2

Stutter == UNCHANGED <<OnTheWay, delivered, accepted, Over>>

\* A step that leaves the numbers alone leaves what is on the way alone.
LEMMA SameNumbers ==
  ASSUME Numbered, Numbered', Finished' = Finished, accepted' = accepted
  PROVE  OnTheWay' = OnTheWay
<1>1. Counts /\ Counts' /\ Finished \in Nat
  BY NumberedCounts, NumberedCountsNext DEF Numbered
<1>2. Waiting' = Waiting
  BY <1>1, WaitingCounts
<1>. QED BY <1>1, <1>2 DEF Counts

\* An accepted frame is the last on the way.
LEMMA AcceptStep ==
  ASSUME Numbered, Numbered', accepted < MaxFrames, accepted' = accepted + 1,
         Finished' = Finished, UNCHANGED <<delivered, Over>>
  PROVE  Channel!Accept
<1>1. Counts /\ Counts' /\ Finished \in Nat
  BY NumberedCounts, NumberedCountsNext DEF Numbered
<1>2. Waiting' = Waiting + 1
  BY <1>1, WaitingCounts
<1>3. OnTheWay' = Append(OnTheWay, accepted')
  BY <1>1, <1>2 DEF Counts
<1>. QED BY <1>3 DEF Channel!Accept

\* A finished frame was the first on the way.
LEMMA FinishStep ==
  ASSUME Numbered, Numbered', accepted' = accepted, Finished' = Finished + 1
  PROVE  /\ OnTheWay # <<>>
         /\ Head(OnTheWay) = Finished + 1
         /\ OnTheWay' = Tail(OnTheWay)
<1>1. Counts /\ Counts' /\ Finished \in Nat
  BY NumberedCounts, NumberedCountsNext DEF Numbered
<1>2. Waiting \in Nat \ {0} /\ Waiting' = Waiting - 1
  BY <1>1, WaitingCounts
<1>3. /\ Len(OnTheWay) = Waiting
      /\ \A i \in 1 .. Waiting : OnTheWay[i] = Finished + i
      /\ OnTheWay \in Seq(Nat)
  BY <1>1 DEF Counts
<1>4. OnTheWay # <<>> /\ Head(OnTheWay) = Finished + 1
  BY <1>2, <1>3
<1>5. Tail(OnTheWay) = [i \in 1 .. Waiting - 1 |-> OnTheWay[i + 1]]
  BY <1>3, <1>4, TailByIndex
<1>6. \A i \in 1 .. Waiting - 1 : OnTheWay[i + 1] = Finished + 1 + i
  BY <1>1, <1>2, <1>3
<1>7. OnTheWay' = [i \in 1 .. Waiting - 1 |-> Finished + 1 + i]
  BY <1>1, <1>2 DEF Counts
<1>. QED BY <1>4, <1>5, <1>6, <1>7

\* A frame that is sent is delivered, one that is not is dropped.
LEMMA DoneStep ==
  ASSUME FateInv, FateInv', app # "deleted", UNCHANGED app,
         thread \in {"muxing", "sending"}, thread' \in {"looping", "leaving"},
         NEW what, Finish(what),
         delivered' = delivered \/ delivered' = Append(delivered, taken[1].id)
  PROVE  Channel!Deliver \/ Channel!Drop
<1>. USE DEF Finish, FateInv, Books
<1>1. Numbered /\ Numbered' /\ accepted' = accepted
  OBVIOUS
<1>2. Finished' = Finished + 1 /\ taken[1].id = Finished + 1
  <2>1. Len(taken) = 1 /\ Len(taken') = 0 /\ accepted \in Nat /\ Len(m_MuxerQueue) \in Nat
    BY DEF Numbered
  <2>2. Finished' = accepted - Len(m_MuxerQueue) - 0
    BY <2>1 DEF Finished
  <2>3. Finished = accepted - Len(m_MuxerQueue) - 1
    BY <2>1 DEF Finished
  <2>. QED BY <2>1, <2>2, <2>3 DEF Numbered
<1>3. /\ OnTheWay # <<>> /\ Head(OnTheWay) = taken[1].id
      /\ OnTheWay' = Tail(OnTheWay)
  BY <1>1, <1>2, FinishStep
<1>4. ~Over /\ UNCHANGED Over
  BY DEF Over
<1>5. delivered' = delivered \/ delivered' = Append(delivered, Head(OnTheWay))
  BY <1>3
<1>. QED BY <1>1, <1>3, <1>4, <1>5 DEF Channel!Deliver, Channel!Drop

\* A frame that is accepted joins those on the way.
LEMMA QueueStep ==
  ASSUME FateInv, FateInv', app # "deleted", app' # "deleted", UNCHANGED thread,
         NEW kind, NEW size, Queue(kind, size)
  PROVE  Channel!Accept
<1>. USE DEF Queue, FateInv, Books
<1>1. /\ Numbered /\ Numbered' /\ accepted' = accepted + 1 /\ accepted < MaxFrames
      /\ UNCHANGED <<delivered, taken>>
  OBVIOUS
<1>2. Finished' = Finished
  <2>1. /\ accepted \in Nat /\ Len(m_MuxerQueue) \in Nat /\ Len(taken) \in Nat
        /\ m_MuxerQueue \in Seq(Frame)
    BY DEF Numbered
  <2>2. Len(m_MuxerQueue') = Len(m_MuxerQueue) + 1
    BY <2>1
  <2>. QED BY <2>1, <2>2 DEF Finished
<1>3. UNCHANGED Over
  BY DEF Over
<1>. QED BY <1>1, <1>2, <1>3, AcceptStep

\* The thread takes a frame off the queue, and it is still on the way.
LEMMA TakeStep ==
  ASSUME FateInv, FateInv', app # "deleted", TakeFrame
  PROVE  Stutter
<1>. USE DEF TakeFrame, FateInv, Books, callVars
<1>1. /\ Numbered /\ Numbered' /\ UNCHANGED <<accepted, delivered, app>>
      /\ thread = "looping" /\ thread' = "muxing"
  OBVIOUS
<1>2. Finished' = Finished
  <2>1. /\ accepted \in Nat /\ Len(m_MuxerQueue) \in Nat \ {0} /\ Len(taken) = 0
        /\ m_MuxerQueue \in Seq(Frame)
    BY DEF Numbered
  <2>2. Len(m_MuxerQueue') = Len(m_MuxerQueue) - 1 /\ Len(taken') = 1
    BY <2>1
  <2>. QED BY <2>1, <2>2 DEF Finished
<1>. QED BY <1>1, <1>2, SameNumbers DEF Stutter, Over

\* Nothing about the frames changes: the channel ends or stays as it is.
LEMMA FramesAlone ==
  ASSUME UNCHANGED frameVars, Over => Over'
  PROVE  Channel!End \/ Stutter
<1>1. UNCHANGED <<OnTheWay, delivered, accepted>>
  BY DEF OnTheWay, frameVars
<1>2. Over \in BOOLEAN /\ Over' \in BOOLEAN
  BY DEF Over
<1>. QED BY <1>1, <1>2 DEF Channel!End, Stutter

LEMMA NextChannel ==
  ASSUME FateInv, FateInv', Control, [Next]_vars
  PROVE  Channel!Next \/ Stutter
<1>. USE DEF threadVars, callVars
<1>1. CASE UNCHANGED vars \/ Stall
  BY <1>1, FramesAlone DEF vars, Stall, Over, Channel!Next
<1>2. CASE CallStep
  <2>1. CASE WaitForExit /\ m_bExit /\ Delete
    <3>1. Len(taken) = 0 /\ taken \in Seq(Frame) /\ UNCHANGED taken
      BY <2>1 DEF WaitForExit, Delete, Control, FateInv, Books, Numbered
    <3>2. OnTheWay' = <<>>
      BY <2>1, <3>1 DEF Delete, OnTheWay
    <3>. QED BY <2>1, <3>2 DEF Delete, Over, Channel!Discard, Channel!Next
  <2>2. CASE \/ ConnectReturns \/ TestQueueSize \/ NotifyPause \/ SetBufferFull \/ StopThread
             \/ WaitForExit /\ StopAgain
    <3>1. UNCHANGED frameVars /\ app # "deleted" /\ UNCHANGED thread
      BY <2>2 DEF ConnectReturns, TestQueueSize, NotifyPause, SetBufferFull, StopThread,
                  WaitForExit, StopAgain
    <3>. QED BY <3>1, FramesAlone DEF Over, Channel!Next
  <2>. QED BY <1>2, <2>1, <2>2 DEF CallStep, WaitForExit
<1>3. CASE NewCall
  <2>1. CASE ConnectFails \/ Close \/ ConnectServer
    <3>1. UNCHANGED frameVars /\ (Over => Over')
      BY <2>1 DEF ConnectFails, Close, ConnectServer, Over, FateInv, Books
    <3>. QED BY <3>1, FramesAlone DEF Channel!Next
  <2>2. ASSUME NEW size \in Sizes, SendPacket(size) PROVE Channel!Next \/ Stutter
    <3>1. app # "deleted" /\ app' # "deleted" /\ UNCHANGED thread
      BY <2>2 DEF SendPacket
    <3>2. CASE Queue("media", size)
      BY <3>1, <3>2, QueueStep DEF Channel!Next
    <3>3. CASE UNCHANGED frameVars
      BY <3>1, <3>3, FramesAlone DEF Over, Channel!Next
    <3>. QED BY <2>2, <3>2, <3>3 DEF SendPacket, PushMedia
  <2>3. ASSUME NEW kind \in {"start", "end"}, SendMetadata(kind) PROVE Channel!Next
    <3>1. app # "deleted" /\ app' # "deleted" /\ UNCHANGED thread /\ Queue(kind, MetadataSize)
      BY <2>3 DEF SendMetadata
    <3>. QED BY <3>1, QueueStep DEF Channel!Next
  <2>. QED BY <1>3, <2>1, <2>2, <2>3 DEF NewCall
<1>4. CASE MuxerStep
  <2>1. app # "deleted" /\ UNCHANGED app
    BY <1>4 DEF MuxerStep, ThreadStarts, ThreadEnters, TakeFrame, MuxMedia, MuxMetadata,
                SendFrame, FindEmpty, TestBufferFull, NotifyResume, ClearBufferFull,
                HeartBeat, LeaveLoop, Unpublish, NotifyEnd, ThreadExits
  <2>2. CASE TakeFrame
    BY <2>1, <2>2, TakeStep
  <2>3. CASE \/ ThreadStarts \/ ThreadEnters \/ FindEmpty \/ TestBufferFull
             \/ NotifyResume \/ ClearBufferFull \/ HeartBeat
             \/ LeaveLoop \/ Unpublish \/ NotifyEnd \/ ThreadExits
    <3>1. UNCHANGED frameVars /\ (Over => Over')
      BY <2>1, <2>3 DEF ThreadStarts, ThreadEnters, FindEmpty, TestBufferFull,
                        NotifyResume, ClearBufferFull, HeartBeat,
                        LeaveLoop, Unpublish, NotifyEnd, ThreadExits, Over
    <3>. QED BY <3>1, FramesAlone DEF Channel!Next
  <2>4. CASE MuxMedia \/ MuxMetadata \/ SendFrame
    <3>1. thread \in {"muxing", "sending"}
      BY <2>4 DEF MuxMedia, MuxMetadata, SendFrame
    <3>2. \/ /\ thread' \in {"looping", "leaving"}
             /\ delivered' = delivered \/ delivered' = Append(delivered, taken[1].id)
             /\ \E what \in Fates : Finish(what)
          \/ UNCHANGED frameVars /\ thread' = "sending"
      BY <2>4 DEF MuxMedia, MuxMetadata, SendFrame, SendSucceeds, SendFails, Fates, frameVars
    <3>3. CASE UNCHANGED frameVars /\ thread' = "sending"
      BY <2>1, <3>1, <3>3, FramesAlone DEF Over, Channel!Next
    <3>. QED BY <2>1, <3>1, <3>2, <3>3, DoneStep DEF Channel!Next
  <2>. QED BY <1>4, <2>2, <2>3, <2>4 DEF MuxerStep
<1>. QED BY <1>1, <1>2, <1>3, <1>4 DEF Next

\* What one connection promises: the frames it accepts are delivered in order, none
\* twice, and none once the end of the connection can be told.
THEOREM ChannelTheorem == Spec => ChannelSpec
<1>1. Init => FateInv /\ Control
  BY InitFate, InitControl
<1>2. FateInv /\ Control /\ [Next]_vars => FateInv' /\ Control'
  BY NextFate, NextControl
<1>3. Init => Channel!Init
  BY DEF Init, Channel!Init, OnTheWay, Over
<1>4. FateInv /\ FateInv' /\ Control /\ [Next]_vars
        => [Channel!Next]_(Channel!channelVars)
  BY NextChannel DEF Stutter, Channel!channelVars
<1>. QED BY <1>1, <1>2, <1>3, <1>4, PTL DEF Spec, ChannelSpec, Channel!Spec
=============================================================================
