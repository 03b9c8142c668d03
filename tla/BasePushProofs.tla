--------------------------- MODULE BasePushProofs ---------------------------
(***************************************************************************)
(* What holds of BasePush for every number and size of frames.             *)
(*                                                                         *)
(* Control is about the two threads: Close deletes the object before the   *)
(* muxer thread has passed m_bExit = 0, or after its end and its one event.*)
(* It assumes nothing of the thread's start.                               *)
(*                                                                         *)
(* Books is about the frames: they are numbered in the order of the queue, *)
(* so the last frame that was finished is the one right before those the   *)
(* connection still holds, and a failed ret speaks of that frame.          *)
(***************************************************************************)
EXTENDS BasePush, ByteCountsProofs

Calls == {"new", "starting", "idle", "pushed", "pausing", "flagging",
          "stopping", "restopping", "waiting", "deleted"}
Places == {"none", "created", "entered", "looping", "muxing", "sending",
           "empty", "resuming", "clearing", "idling", "leaving", "reporting",
           "exiting", "done"}

\* The thread does not exist before Connect, IsExit answers TRUE only before its
\* loop and after its end, and the end of its loop is the time of the one event.
Control == /\ app \in Calls /\ thread \in Places
           /\ m_bRun \in BOOLEAN /\ m_bExit \in BOOLEAN
           /\ closed_by \in Seq({"close", "error"})
           /\ app = "new" => thread = "none"
           /\ m_bExit => thread \in {"none", "created", "entered", "done"}
           /\ Len(closed_by) = IF thread \in {"exiting", "done"} THEN 1 ELSE 0
           /\ EndsBeforeDeletion

-----------------------------------------------------------------------------
LEMMA InitControl == Init => Control
<1>. SUFFICES ASSUME Init PROVE Control
  OBVIOUS
<1>1. /\ app = "new" /\ thread = "none" /\ m_bRun = FALSE /\ m_bExit = TRUE
      /\ closed_by = <<>>
  BY DEF Init
<1>2. closed_by \in Seq({"close", "error"}) /\ Len(closed_by) = 0
  BY <1>1
<1>3. EndsBeforeDeletion
  BY <1>1 DEF EndsBeforeDeletion
<1>4. /\ app \in Calls /\ thread \in Places
      /\ m_bRun \in BOOLEAN /\ m_bExit \in BOOLEAN
  BY <1>1 DEF Calls, Places
<1>. QED BY <1>1, <1>2, <1>3, <1>4 DEF Control

\* The steps of the application.
LEMMA AppControl ==
  ASSUME Control, NewCall \/ CallStep
  PROVE  Control'
<1>. USE DEF Control, Calls, Places, EndsBeforeDeletion,
             threadVars, toldVars, callVars
<1>1. CASE NewCall
  <2>1. CASE ConnectFails
    BY <2>1 DEF ConnectFails
  <2>2. CASE ConnectServer
    BY <2>2 DEF ConnectServer
  <2>3. CASE Close
    BY <2>3 DEF Close
  <2>4. ASSUME NEW size \in Sizes, SendPacket(size) PROVE Control'
    BY <2>4 DEF SendPacket
  <2>5. ASSUME NEW kind \in {"start", "end"}, SendMetadata(kind) PROVE Control'
    BY <2>5 DEF SendMetadata
  <2>. QED BY <1>1, <2>1, <2>2, <2>3, <2>4, <2>5 DEF NewCall
<1>2. CASE CallStep
  <2>1. CASE ConnectReturns
    BY <2>1 DEF ConnectReturns
  <2>2. CASE TestQueueSize
    BY <2>2 DEF TestQueueSize
  <2>3. CASE NotifyPause \/ SetBufferFull
    BY <2>3 DEF NotifyPause, SetBufferFull
  <2>4. CASE StopThread
    BY <2>4 DEF StopThread
  <2>5. CASE WaitForExit
    BY <2>5 DEF WaitForExit, Delete, StopAgain
  <2>. QED BY <1>2, <2>1, <2>2, <2>3, <2>4, <2>5 DEF CallStep
<1>. QED BY <1>1, <1>2

\* The steps of the muxer thread.
LEMMA MuxerControl ==
  ASSUME Control, MuxerStep
  PROVE  Control'
<1>. USE DEF Control, Calls, Places, EndsBeforeDeletion, callVars,
             toldVars
<1>1. CASE ThreadStarts \/ ThreadEnters
  BY <1>1 DEF ThreadStarts, ThreadEnters, MuxerStep
<1>2. CASE TakeFrame \/ LeaveLoop \/ ClearBufferFull
  BY <1>2 DEF TakeFrame, LeaveLoop, ClearBufferFull, MuxerStep
<1>3. CASE MuxMedia \/ MuxMetadata
  BY <1>3 DEF MuxMedia, MuxMetadata, MuxerStep
<1>4. CASE SendFrame
  BY <1>4 DEF SendFrame, SendSucceeds, SendFails, MuxerStep
<1>5. CASE FindEmpty \/ TestBufferFull \/ NotifyResume \/ HeartBeat
  BY <1>5 DEF FindEmpty, TestBufferFull, NotifyResume, HeartBeat, MuxerStep
<1>6. CASE Unpublish
  BY <1>6 DEF Unpublish, MuxerStep
<1>7. CASE NotifyEnd
  <2>1. Len(closed_by) = 0 /\ thread' = "exiting" /\ UNCHANGED <<app, m_bRun, m_bExit>>
    BY <1>7 DEF NotifyEnd
  <2>2. closed_by' \in Seq({"close", "error"}) /\ Len(closed_by') = 1
    BY <1>7, <2>1 DEF NotifyEnd
  <2>. QED BY <1>7, <2>1, <2>2 DEF NotifyEnd, MuxerStep
<1>8. CASE ThreadExits
  BY <1>8 DEF ThreadExits, MuxerStep
<1>. QED BY <1>1, <1>2, <1>3, <1>4, <1>5, <1>6, <1>7, <1>8 DEF MuxerStep

LEMMA NextControl == Control /\ [Next]_vars => Control'
<1>. SUFFICES ASSUME Control, [Next]_vars PROVE Control'
  OBVIOUS
<1>1. CASE Stall
  BY <1>1 DEF Stall, Control, EndsBeforeDeletion, callVars, threadVars, toldVars
<1>2. CASE UNCHANGED vars
  BY <1>2 DEF vars, Control, EndsBeforeDeletion, callVars, threadVars, toldVars
<1>. QED BY <1>1, <1>2, AppControl, MuxerControl DEF Next

\* An object is deleted before its thread has passed m_bExit = 0 or after the
\* thread is over and has told its one event, whatever Run has waited for and
\* whether there is a thread at all.
THEOREM EndsBeforeDeletionTheorem == Spec => []EndsBeforeDeletion
<1>1. Control /\ [Next]_vars => Control'
  BY NextControl
<1>2. Control => EndsBeforeDeletion
  BY DEF Control
<1>. QED BY <1>1, <1>2, InitControl, PTL DEF Spec

-----------------------------------------------------------------------------
(* The frames.                                                             *)

\* How many frames the muxer thread has finished with.
Finished == accepted - Len(m_MuxerQueue) - Len(taken)

\* The places in the loop where ret speaks of the last frame that was finished.
InLoop == {"looping", "muxing", "empty", "resuming", "clearing", "idling"}

\* The frames n .. m were refused, the first one, or skipped, the others.
Streak(n, m) == fate[n] = "refused" /\ \A k \in n + 1 .. m : fate[k] = "skipped"

Numbered == /\ m_MuxerQueue \in Seq(Frame) /\ taken \in Seq(Frame)
            /\ Len(taken) = IF thread \in {"muxing", "sending"} THEN 1 ELSE 0
            /\ accepted \in 0 .. MaxFrames
            /\ Finished \in Nat
            /\ \A i \in 1 .. Len(m_MuxerQueue) :
                  m_MuxerQueue[i].id = accepted - Len(m_MuxerQueue) + i
            /\ Len(taken) = 1 => taken[1].id = Finished + 1

Books == /\ Numbered
         /\ app = "new" => thread = "none"
         /\ \A i \in Ids : i > Finished => fate[i] \in {"none", "queued", "taken"}
         /\ thread \in {"none", "created", "entered"} => ret = "ok"
         /\ ret = "failed" /\ thread \in InLoop
              => \E j \in 1 .. Finished : Streak(j, Finished)

FateInv == /\ fate \in [Ids -> Fates]
           /\ SkippedBehindRefused
           /\ app # "deleted" => Books

LEMMA InitFate == Init => FateInv
<1>. SUFFICES ASSUME Init PROVE FateInv
  OBVIOUS
<1>1. /\ m_MuxerQueue = <<>> /\ taken = <<>> /\ accepted = 0 /\ ret = "ok"
      /\ thread = "none" /\ \A i \in Ids : fate[i] = "none"
  BY DEF Init
<1>2. fate \in [Ids -> Fates]
  BY DEF Init, Fates
<1>3. Len(m_MuxerQueue) = 0 /\ Len(taken) = 0 /\ Finished = 0
  <2>1. Len(m_MuxerQueue) = 0
    BY <1>1
  <2>2. Len(taken) = 0
    BY <1>1
  <2>3. accepted = 0
    BY <1>1
  <2>4. 0 - 0 - 0 = 0
    OBVIOUS
  <2>. QED BY <2>1, <2>2, <2>3, <2>4 DEF Finished
<1>4. Numbered
  BY <1>1, <1>3, MaxFramesAssumption DEF Numbered
<1>. QED BY <1>1, <1>2, <1>4 DEF FateInv, SkippedBehindRefused, Books

\* Nothing about the frames changes, and the thread moves between places that
\* say the same of them.
LEMMA SameFrames ==
  ASSUME FateInv, UNCHANGED frameVars, app # "deleted",
         ret' = ret \/ ret' = "ok"
           \/ thread' \notin {"none", "created", "entered"} \cup InLoop,
         thread' \in {"none", "created", "entered"} => ret' = "ok",
         thread' \in {"muxing", "sending"} <=> thread \in {"muxing", "sending"},
         app' = "new" => thread' = "none",
         ret' = "failed" /\ thread' \in InLoop
           => thread \in InLoop
  PROVE  FateInv'
<1>1. Finished' = Finished /\ \A n, m : Streak(n, m)' <=> Streak(n, m)
  BY DEF Finished, Streak, frameVars
<1>2. SkippedBehindRefused'
  BY DEF FateInv, SkippedBehindRefused, frameVars
<1>3. Numbered'
  BY <1>1 DEF FateInv, Books, Numbered, frameVars
<1>4. Books'
  BY <1>1, <1>3 DEF FateInv, Books, frameVars
<1>. QED BY <1>2, <1>4 DEF FateInv, frameVars

\* An accepted frame gets the next number.
LEMMA QueueFate ==
  ASSUME FateInv, app # "deleted", NEW kind \in {"media", "start", "end"},
         NEW size \in Nat, Queue(kind, size), UNCHANGED <<thread, ret>>, app' # "new"
  PROVE  FateInv'
<1>. DEFINE q == m_MuxerQueue
            f == [id |-> accepted + 1, kind |-> kind, size |-> size]
<1>. USE DEF Queue
<1>1. /\ accepted + 1 \in Ids /\ f \in Frame /\ Len(q) \in Nat /\ Finished \in Nat
      /\ Len(taken) \in {0, 1} /\ accepted \in Nat
  BY MaxFramesAssumption, SMTT(60) DEF Ids, Frame, FateInv, Books, Numbered
<1>2. /\ q' \in Seq(Frame) /\ Len(q') = Len(q) + 1
      /\ \A i \in 1 .. Len(q) : q'[i] = q[i]
      /\ q'[Len(q) + 1] = f
  BY <1>1 DEF FateInv, Books, Numbered
<1>3. Finished' = Finished
  BY <1>1, <1>2 DEF Finished
<1>4. /\ fate' \in [Ids -> Fates] /\ fate'[accepted + 1] = "queued"
      /\ \A i \in Ids \ {accepted + 1} : fate'[i] = fate[i]
      /\ fate[accepted + 1] \in {"none", "queued", "taken"}
  BY <1>1 DEF FateInv, Books, Finished, Fates
<1>5. Numbered'
  <2>1. accepted' - Len(q') = accepted - Len(q)
    BY <1>1, <1>2
  <2>2. \A i \in 1 .. Len(q) : q'[i].id = accepted - Len(q) + i
    BY <1>2 DEF FateInv, Books, Numbered
  <2>3. q'[Len(q) + 1].id = accepted - Len(q) + (Len(q) + 1)
    BY <1>1, <1>2
  <2>4. \A i \in 1 .. Len(q') : i \in 1 .. Len(q) \/ i = Len(q) + 1
    BY <1>1, <1>2
  <2>5. \A i \in 1 .. Len(q') : q'[i].id = accepted' - Len(q') + i
    BY <2>1, <2>2, <2>3, <2>4
  <2>. QED BY <1>1, <1>2, <1>3, <2>5, MaxFramesAssumption, SMTT(60)
           DEF FateInv, Books, Numbered, Ids
<1>6. \A i \in Ids : fate[i] \in {"skipped", "refused"} <=> fate'[i] \in {"skipped", "refused"}
  BY <1>4
<1>7. SkippedBehindRefused'
  BY <1>4, <1>6 DEF FateInv, SkippedBehindRefused, Ids
<1>8. \A n \in 1 .. Finished : Streak(n, Finished) => Streak(n, Finished)'
  BY <1>1, <1>3, <1>4 DEF Streak, Ids, Finished
<1>9. Books'
  BY <1>1, <1>3, <1>4, <1>5, <1>8 DEF FateInv, Books
<1>. QED BY <1>4, <1>7, <1>9 DEF FateInv

\* The thread takes the frame after the last one it finished.
LEMMA TakeFate ==
  ASSUME FateInv, app # "deleted", TakeFrame
  PROVE  FateInv'
<1>. DEFINE q == m_MuxerQueue
            t == Head(q)
<1>. USE DEF TakeFrame, callVars, sendVars
<1>1. /\ q \in Seq(Frame) /\ Len(q) \in Nat \ {0} /\ Len(taken) = 0
      /\ accepted \in 0 .. MaxFrames /\ Finished \in Nat
      /\ Finished = accepted - Len(q)
      /\ \A i \in 1 .. Len(q) : q[i].id = accepted - Len(q) + i
  BY DEF FateInv, Books, Numbered, Finished
<1>2. t \in Frame /\ t.id = Finished + 1 /\ t.id \in Ids
  <2>1. t = q[1] /\ 1 \in 1 .. Len(q) /\ t \in Frame
    BY <1>1
  <2>2. t.id = accepted - Len(q) + 1
    BY <1>1, <2>1
  <2>. QED BY <1>1, <2>1, <2>2 DEF Frame
<1>3. /\ q' \in Seq(Frame) /\ Len(q') = Len(q) - 1
      /\ \A i \in 1 .. Len(q') : q'[i] = q[i + 1]
      /\ taken' \in Seq(Frame) /\ Len(taken') = 1 /\ taken'[1] = t
  BY <1>1, <1>2
<1>4. Finished' = Finished
  BY <1>1, <1>3 DEF Finished
<1>5. Numbered'
  <2>1. \A i \in 1 .. Len(q') : q'[i].id = accepted' - Len(q') + i
    BY <1>1, <1>3
  <2>. QED BY <1>1, <1>2, <1>3, <1>4, <2>1 DEF Numbered
<1>6. /\ fate' \in [Ids -> Fates] /\ fate'[t.id] = "taken"
      /\ \A i \in Ids \ {t.id} : fate'[i] = fate[i]
      /\ fate[t.id] \in {"none", "queued", "taken"}
  BY <1>1, <1>2 DEF FateInv, Books, Fates
<1>7. \A i \in Ids : fate[i] \in {"skipped", "refused"} => fate'[i] = fate[i]
  BY <1>6
<1>8. \A i \in Ids : fate'[i] = "skipped" => fate[i] = "skipped"
  BY <1>6
<1>9. SkippedBehindRefused'
  BY <1>7, <1>8, MaxFramesAssumption DEF FateInv, SkippedBehindRefused, Ids
<1>10. \A n \in 1 .. Finished : Streak(n, Finished) => Streak(n, Finished)'
  BY <1>1, <1>2, <1>4, <1>6, MaxFramesAssumption DEF Streak, Ids
<1>11. Books'
  BY <1>1, <1>2, <1>4, <1>5, <1>6, <1>10 DEF FateInv, Books, InLoop
<1>. QED BY <1>6, <1>9, <1>11 DEF FateInv

\* A frame the thread is done with is the next finished one; it is skipped only
\* while ret still speaks of the frame before it.
LEMMA FinishFate ==
  ASSUME FateInv, app # "deleted", thread \in {"muxing", "sending"},
         NEW what \in {"sent", "refused", "empty", "skipped", "failed"}, Finish(what),
         thread' \in {"looping", "leaving"}, UNCHANGED app,
         what = "skipped" => ret = "failed" /\ thread = "muxing",
         ret' = "failed" /\ thread' = "looping" => what \in {"refused", "skipped"}
  PROVE  FateInv'
<1>. DEFINE t == Finished + 1
<1>. USE DEF Finish
<1>1. /\ Len(taken) = 1 /\ taken[1].id = t /\ taken[1] \in Frame /\ t \in Ids
      /\ Finished \in Nat /\ Len(m_MuxerQueue) \in Nat
      /\ accepted \in 0 .. MaxFrames
      /\ accepted = Finished + Len(m_MuxerQueue) + 1
  <2>1. Len(taken) = 1 /\ taken \in Seq(Frame) /\ taken[1].id = Finished + 1
    BY DEF FateInv, Books, Numbered
  <2>2. taken[1] \in Frame
    BY <2>1
  <2>3. Numbered
    BY DEF FateInv, Books
  <2>. QED BY <2>1, <2>2, <2>3 DEF Numbered, Frame, Finished
<1>2. Len(taken') = 0
  OBVIOUS
<1>3. Finished' = t
  BY <1>1, <1>2 DEF Finished
<1>4. Numbered'
  BY <1>1, <1>2, <1>3 DEF FateInv, Books, Numbered
<1>5. /\ fate' \in [Ids -> Fates] /\ fate'[t] = what
      /\ \A i \in Ids \ {t} : fate'[i] = fate[i]
      /\ \A i \in Ids : i > Finished => fate[i] \in {"none", "queued", "taken"}
  BY <1>1 DEF FateInv, Books, Fates
<1>6. \A n \in 1 .. Finished : Streak(n, Finished) /\ what = "skipped" => Streak(n, Finished)'
  <2>. SUFFICES ASSUME NEW n \in 1 .. Finished, Streak(n, Finished), what = "skipped"
                PROVE  Streak(n, Finished)'
    OBVIOUS
  <2>1. n \in Ids /\ n # t /\ fate'[n] = "refused"
    BY <1>1, <1>5, MaxFramesAssumption DEF Streak, Ids
  <2>2. ASSUME NEW k \in n + 1 .. t PROVE fate'[k] = "skipped"
    BY <1>1, <1>5, MaxFramesAssumption DEF Streak, Ids
  <2>. QED BY <1>3, <2>1, <2>2 DEF Streak
<1>8. SkippedBehindRefused'
  <2>. SUFFICES ASSUME NEW i \in Ids, fate'[i] = "skipped"
                PROVE  \E j \in 1 .. i - 1 :
                          /\ fate'[j] = "refused"
                          /\ \A k \in j + 1 .. i - 1 : fate'[k] = "skipped"
    BY DEF SkippedBehindRefused
  <2>1. CASE i = t
    <3>1. what = "skipped" /\ thread = "muxing" /\ ret = "failed"
      BY <1>5, <2>1
    <3>2. PICK j \in 1 .. Finished : Streak(j, Finished)
      BY <3>1 DEF FateInv, Books, InLoop
    <3>3. \A k \in 1 .. Finished : k \in Ids /\ fate'[k] = fate[k]
      BY <1>1, <1>5, MaxFramesAssumption DEF Ids
    <3>4. \A k \in j + 1 .. t - 1 : k \in 1 .. Finished /\ k \in j + 1 .. Finished
      BY <1>1
    <3>. QED BY <1>1, <2>1, <3>2, <3>3, <3>4 DEF Streak
  <2>2. CASE i # t
    <3>1. fate[i] = "skipped" /\ i \in 1 .. Finished
      BY <1>1, <1>5, <2>2, MaxFramesAssumption DEF Ids
    <3>2. \A k \in 1 .. Finished : fate'[k] = fate[k]
      BY <1>1, <1>5, MaxFramesAssumption DEF Ids
    <3>3. PICK j \in 1 .. i - 1 : /\ fate[j] = "refused"
                                  /\ \A k \in j + 1 .. i - 1 : fate[k] = "skipped"
      BY <3>1 DEF FateInv, SkippedBehindRefused
    <3>4. \A k \in j .. i - 1 : k \in 1 .. Finished
      BY <1>1, <3>1
    <3>. QED BY <1>1, <3>1, <3>2, <3>3, <3>4
  <2>. QED BY <2>1, <2>2
<1>9. ret' = "failed" /\ thread' = "looping"
        => \E j \in 1 .. Finished' : Streak(j, Finished)'
  <2>1. CASE what = "refused"
    <3>1. t \in 1 .. Finished' /\ \A k \in t + 1 .. Finished' : k \notin Int
      BY <1>1, <1>3
    <3>. QED BY <1>5, <2>1, <3>1 DEF Streak
  <2>2. CASE what = "skipped"
    <3>1. PICK j \in 1 .. Finished : Streak(j, Finished)
      BY <2>2 DEF FateInv, Books, InLoop
    <3>2. j \in 1 .. Finished' /\ Streak(j, Finished)'
      BY <1>1, <1>3, <1>6, <2>2, <3>1
    <3>. QED BY <3>2
  <2>. QED BY <2>1, <2>2
<1>10. \A i \in Ids : i > Finished' => fate'[i] \in {"none", "queued", "taken"}
  BY <1>1, <1>3, <1>5 DEF Ids
<1>11. app' # "new"
  BY DEF FateInv, Books
<1>12. Books'
  BY <1>4, <1>9, <1>10, <1>11 DEF Books, InLoop
<1>. QED BY <1>5, <1>8, <1>12 DEF FateInv

\* With the object the queued frames are discarded, and no others.
LEMMA DeleteFate ==
  ASSUME FateInv, Delete
  PROVE  FateInv'
<1>1. fate' \in [Ids -> Fates]
  BY DEF Delete, FateInv, Fates
<1>2. \A i \in Ids : /\ fate[i] = "refused" <=> fate'[i] = "refused"
                     /\ fate[i] = "skipped" <=> fate'[i] = "skipped"
  BY DEF Delete, FateInv, Fates
<1>3. SkippedBehindRefused'
  BY <1>2, MaxFramesAssumption DEF FateInv, SkippedBehindRefused, Ids
<1>. QED BY <1>1, <1>3 DEF Delete, FateInv

LEMMA AppFate ==
  ASSUME FateInv, NewCall \/ CallStep
  PROVE  FateInv'
<1>. USE DEF threadVars, callVars, sendVars
<1>1. CASE ConnectServer \/ ConnectFails
  <2>1. app # "deleted" /\ UNCHANGED <<frameVars, ret>>
    BY <1>1 DEF ConnectServer, ConnectFails
  <2>2. thread = "none" /\ ret = "ok"
    BY <1>1 DEF ConnectServer, ConnectFails, FateInv, Books
  <2>3. thread' \in {"none", "created"} /\ app' # "new"
    BY <1>1, <2>2 DEF ConnectServer, ConnectFails
  <2>. QED BY <2>1, <2>2, <2>3, SameFrames
<1>2. CASE \/ ConnectReturns \/ TestQueueSize \/ NotifyPause \/ SetBufferFull
           \/ Close \/ StopThread
  <2>1. app # "deleted" /\ UNCHANGED <<frameVars, ret, thread>> /\ app' # "new"
    BY <1>2 DEF ConnectReturns, TestQueueSize, NotifyPause, SetBufferFull, Close,
                StopThread
  <2>3. /\ thread' \in {"none", "created", "entered"} => ret' = "ok"
        /\ app' = "new" => thread' = "none"
    BY <2>1 DEF FateInv, Books
  <2>. QED BY <2>1, <2>3, SameFrames
<1>3. ASSUME NEW size \in Sizes, SendPacket(size) PROVE FateInv'
  <2>1. app # "deleted" /\ UNCHANGED <<ret, thread>> /\ size \in Nat /\ app' # "new"
    BY <1>3, SizesAssumption DEF SendPacket
  <2>. thread' \in {"none", "created", "entered"} => ret' = "ok"
    BY <2>1 DEF FateInv, Books
  <2>2. CASE Queue("media", size)
    BY <2>1, <2>2, QueueFate
  <2>3. CASE UNCHANGED frameVars
    BY <2>1, <2>3, SameFrames
  <2>. QED BY <1>3, <2>2, <2>3 DEF SendPacket, PushMedia
<1>4. ASSUME NEW kind \in {"start", "end"}, SendMetadata(kind) PROVE FateInv'
  <2>1. /\ app # "deleted" /\ UNCHANGED <<ret, thread>> /\ app' # "new"
        /\ Queue(kind, MetadataSize) /\ MetadataSize \in Nat
    BY <1>4 DEF SendMetadata, MetadataSize
  <2>. QED BY <2>1, QueueFate
<1>5. CASE WaitForExit
  <2>1. CASE StopAgain /\ app = "waiting"
    <3>1. app # "deleted" /\ UNCHANGED <<frameVars, ret, thread>> /\ app' # "new"
      BY <2>1 DEF StopAgain
    <3>2. thread' \in {"none", "created", "entered"} => ret' = "ok"
      BY <3>1 DEF FateInv, Books
    <3>. QED BY <3>1, <3>2, SameFrames
  <2>2. CASE Delete
    BY <2>2, DeleteFate
  <2>. QED BY <1>5, <2>1, <2>2 DEF WaitForExit
<1>. QED BY <1>1, <1>2, <1>3, <1>4, <1>5 DEF NewCall, CallStep

LEMMA MuxerFate ==
  ASSUME FateInv, MuxerStep
  PROVE  FateInv'
<1>. USE DEF callVars, sendVars, toldVars
<1>. app # "deleted" /\ Books
  BY DEF MuxerStep, FateInv
<1>1. CASE ThreadStarts \/ ThreadEnters
  <2>1. /\ UNCHANGED <<frameVars, ret, app>> /\ app # "new" /\ ret = "ok"
        /\ thread' \in {"entered", "looping"} /\ thread \in {"created", "entered"}
    BY <1>1 DEF ThreadStarts, ThreadEnters, Books
  <2>. QED BY <2>1, SameFrames
<1>2. CASE TakeFrame
  BY <1>2, TakeFate
<1>3. CASE MuxMedia
  <2>. USE <1>3 DEF MuxMedia
  <2>1. CASE ret' = "failed" /\ Finish("refused") /\ thread' = "looping"
    BY <2>1, FinishFate
  <2>2. CASE ret' = "ok" /\ Finish("empty") /\ thread' = "looping"
    BY <2>2, FinishFate
  <2>3. CASE ret' = "ok" /\ UNCHANGED frameVars /\ thread' = "sending"
    <3>1. app # "new" /\ UNCHANGED app
      BY DEF Books
    <3>. QED BY <2>3, <3>1, SameFrames
  <2>. QED BY <2>1, <2>2, <2>3 DEF frameVars
<1>4. CASE MuxMetadata
  <2>. USE <1>4 DEF MuxMetadata
  <2>1. CASE ret = "failed" /\ Finish("skipped") /\ thread' = "looping"
    BY <2>1, FinishFate
  <2>2. CASE ret = "ok" /\ UNCHANGED frameVars /\ thread' = "sending"
    <3>1. app # "new" /\ UNCHANGED app
      BY DEF Books
    <3>. QED BY <2>2, <3>1, SameFrames
  <2>. QED BY <2>1, <2>2 DEF frameVars
<1>5. CASE SendFrame
  <2>. USE <1>5 DEF SendFrame
  <2>1. CASE SendSucceeds
    BY <2>1, FinishFate DEF SendSucceeds
  <2>2. CASE SendFails("leaving")
    BY <2>2, FinishFate DEF SendFails
  <2>. QED BY <2>1, <2>2
<1>6. CASE FindEmpty \/ TestBufferFull \/ NotifyResume \/ ClearBufferFull \/ HeartBeat
  <2>1. /\ UNCHANGED <<frameVars, app>> /\ app # "new"
        /\ thread \in {"looping", "empty", "resuming", "clearing", "idling"}
        /\ \/ /\ ret' \in {ret, "ok"}
              /\ thread' \in {"looping", "empty", "resuming", "clearing", "idling"}
           \/ thread' = "leaving"
    BY <1>6 DEF FindEmpty, TestBufferFull, NotifyResume, ClearBufferFull, HeartBeat, Books
  <2>. QED BY <2>1, SameFrames DEF InLoop
<1>7. CASE LeaveLoop \/ Unpublish \/ NotifyEnd \/ ThreadExits
  <2>1. /\ UNCHANGED <<frameVars, app, ret>> /\ app # "new"
        /\ thread \notin {"muxing", "sending"}
        /\ thread' \in {"leaving", "reporting", "exiting", "done"}
    BY <1>7 DEF LeaveLoop, Unpublish, NotifyEnd, ThreadExits, Books
  <2>. QED BY <2>1, SameFrames DEF InLoop
<1>. QED BY <1>1, <1>2, <1>3, <1>4, <1>5, <1>6, <1>7 DEF MuxerStep

LEMMA NextFate == FateInv /\ [Next]_vars => FateInv'
<1>. SUFFICES ASSUME FateInv, Stall \/ UNCHANGED vars PROVE FateInv'
  BY AppFate, MuxerFate DEF Next
<1>. UNCHANGED <<frameVars, callVars, threadVars, sendVars>>
  BY DEF Stall, vars
<1>1. UNCHANGED <<app, thread, ret, m_MuxerQueue, taken, accepted, fate>>
  BY DEF frameVars, callVars, threadVars, sendVars
<1>2. SkippedBehindRefused'
  BY <1>1 DEF FateInv, SkippedBehindRefused
<1>3. ASSUME app # "deleted" PROVE Books'
  <2>1. Finished' = Finished /\ Numbered'
    BY <1>1, <1>3 DEF FateInv, Books, Numbered, Finished
  <2>2. \A j \in 1 .. Finished : Streak(j, Finished) => Streak(j, Finished)'
    BY <1>1, <2>1 DEF Streak
  <2>. QED BY <1>1, <1>3, <2>1, <2>2 DEF FateInv, Books
<1>. QED BY <1>1, <1>2, <1>3 DEF FateInv

\* Metadata is dropped only right behind a media frame the packetiser refused:
\* ret, which a metadata frame leaves as it is, never speaks of anything older.
THEOREM SkippedTheorem == Spec => []SkippedBehindRefused
<1>1. FateInv => SkippedBehindRefused
  BY DEF FateInv
<1>2. FateInv /\ [Next]_vars => FateInv'
  BY NextFate
<1>. QED BY <1>1, <1>2, InitFate, PTL DEF Spec

-----------------------------------------------------------------------------
(* The ends of segments.                                                   *)

\* A frame the thread has finished with has had its turn, and only those are
\* announced.
Settled == /\ SegmentEndSettled
           /\ segment_ends \subseteq Ids
           /\ app # "deleted" => \A i \in Ids :
                /\ i <= Finished => fate[i] \notin {"queued", "taken"}
                /\ i \in segment_ends => i <= Finished

LEMMA SettledSame ==
  ASSUME Settled, UNCHANGED <<frameVars, segment_ends>>, app' # "deleted" => app # "deleted"
  PROVE  Settled'
BY DEF Settled, SegmentEndSettled, Finished, frameVars

\* While the object lives the second part is enough.
LEMMA SettledLive ==
  ASSUME FateInv', app' # "deleted", segment_ends' \subseteq Ids,
         \A i \in Ids : /\ i <= Finished' => fate'[i] \notin {"queued", "taken"}
                        /\ i \in segment_ends' => i <= Finished'
  PROVE  Settled'
<1>1. Finished' \in Nat
  BY DEF FateInv, Books, Numbered
<1>2. \A i \in segment_ends' : \A j \in 1 .. i : j \in Ids /\ j <= Finished'
  BY <1>1, MaxFramesAssumption DEF Ids
<1>. QED BY <1>2 DEF Settled, SegmentEndSettled

LEMMA QueueSettled ==
  ASSUME FateInv, Settled, app # "deleted", app' # "deleted", FateInv',
         NEW kind \in {"media", "start", "end"}, NEW size \in Nat, Queue(kind, size),
         UNCHANGED segment_ends
  PROVE  Settled'
<1>. DEFINE f == [id |-> accepted + 1, kind |-> kind, size |-> size]
<1>1. /\ accepted \in Nat /\ Finished \in Nat /\ Len(m_MuxerQueue) \in Nat
      /\ Len(taken) \in {0, 1} /\ accepted + 1 \in Ids /\ m_MuxerQueue \in Seq(Frame)
  BY MaxFramesAssumption DEF Queue, Ids, FateInv, Books, Numbered
<1>2. Len(m_MuxerQueue') = Len(m_MuxerQueue) + 1 /\ Len(taken') = Len(taken)
  BY <1>1 DEF Queue
<1>3. Finished' = Finished /\ Finished <= accepted
  BY <1>1, <1>2 DEF Queue, Finished
<1>4. \A i \in Ids : i # accepted + 1 => fate'[i] = fate[i]
  BY <1>1 DEF Queue, FateInv
<1>5. \A i \in Ids : i <= Finished' => fate'[i] \notin {"queued", "taken"}
  BY <1>1, <1>3, <1>4 DEF Settled, Ids
<1>. QED BY <1>3, <1>5, SettledLive DEF Settled, Ids

LEMMA TakeSettled ==
  ASSUME FateInv, Settled, app # "deleted", FateInv', TakeFrame
  PROVE  Settled'
<1>. USE DEF TakeFrame, callVars, toldVars
<1>1. /\ m_MuxerQueue \in Seq(Frame) /\ Len(m_MuxerQueue) \in Nat \ {0} /\ Len(taken) = 0
      /\ accepted \in 0 .. MaxFrames /\ Finished \in Nat
      /\ Finished = accepted - Len(m_MuxerQueue)
      /\ m_MuxerQueue[1].id = accepted - Len(m_MuxerQueue) + 1
      /\ Head(m_MuxerQueue) = m_MuxerQueue[1]
  BY DEF FateInv, Books, Numbered, Finished
<1>2. Len(m_MuxerQueue') = Len(m_MuxerQueue) - 1 /\ Len(taken') = 1
  BY <1>1
<1>3. Finished' = Finished
  BY <1>1, <1>2 DEF Finished
<1>4. \A i \in Ids : i # Finished + 1 => fate'[i] = fate[i]
  BY <1>1 DEF FateInv
<1>5. \A i \in Ids : i <= Finished' => fate'[i] \notin {"queued", "taken"}
  BY <1>1, <1>3, <1>4 DEF Settled, Ids
<1>. QED BY <1>3, <1>5, SettledLive DEF Settled, Ids

LEMMA FinishSettled ==
  ASSUME FateInv, Settled, app # "deleted", UNCHANGED app, FateInv',
         thread \in {"muxing", "sending"},
         NEW what \in {"sent", "refused", "empty", "skipped", "failed"}, Finish(what),
         segment_ends' \subseteq segment_ends \cup {taken[1].id}
  PROVE  Settled'
<1>. DEFINE t == Finished + 1
<1>. USE DEF Finish
<1>1. /\ Len(taken) = 1 /\ taken[1].id = t /\ Finished \in Nat
      /\ Len(m_MuxerQueue) \in Nat /\ accepted \in 0 .. MaxFrames
      /\ accepted = Finished + Len(m_MuxerQueue) + 1
  <2>1. Len(taken) = 1 /\ taken[1].id = Finished + 1
    BY DEF FateInv, Books, Numbered
  <2>. QED BY <2>1 DEF FateInv, Books, Numbered, Finished
<1>2. Len(taken') = 0
  OBVIOUS
<1>3. Finished' = t /\ t \in Ids
  BY <1>1, <1>2, MaxFramesAssumption DEF Finished, Ids
<1>4. /\ fate'[t] = what
      /\ \A i \in Ids : i # t => fate'[i] = fate[i]
  BY <1>1, <1>3 DEF FateInv
<1>5. \A i \in Ids : i <= Finished' => fate'[i] \notin {"queued", "taken"}
  BY <1>1, <1>3, <1>4 DEF Settled, Ids
<1>6. segment_ends' \subseteq Ids /\ \A i \in segment_ends' : i <= Finished'
  BY <1>1, <1>3 DEF Settled, Ids
<1>. QED BY <1>5, <1>6, SettledLive DEF Settled

LEMMA NextSettled == FateInv /\ Settled /\ [Next]_vars => Settled'
<1>. SUFFICES ASSUME FateInv, Settled, [Next]_vars PROVE Settled'
  OBVIOUS
<1>. FateInv'
  BY NextFate
<1>. USE DEF threadVars, callVars, sendVars, toldVars
<1>1. CASE \/ ConnectServer \/ ConnectFails \/ ConnectReturns \/ TestQueueSize
           \/ NotifyPause \/ SetBufferFull \/ Close \/ StopThread \/ Stall
  <2>1. UNCHANGED <<frameVars, segment_ends>> /\ app # "deleted"
    BY <1>1 DEF ConnectServer, ConnectFails, ConnectReturns, TestQueueSize, NotifyPause,
                SetBufferFull, Close, StopThread, Stall
  <2>. QED BY <2>1, SettledSame
<1>2. ASSUME NEW size \in Sizes, SendPacket(size) PROVE Settled'
  <2>1. app # "deleted" /\ app' # "deleted" /\ UNCHANGED segment_ends /\ size \in Nat
    BY <1>2, SizesAssumption DEF SendPacket
  <2>2. CASE Queue("media", size)
    BY <2>1, <2>2, QueueSettled
  <2>3. CASE UNCHANGED frameVars
    BY <2>1, <2>3, SettledSame
  <2>. QED BY <1>2, <2>2, <2>3 DEF SendPacket, PushMedia
<1>3. ASSUME NEW kind \in {"start", "end"}, SendMetadata(kind) PROVE Settled'
  <2>1. /\ app # "deleted" /\ app' # "deleted" /\ UNCHANGED segment_ends
        /\ Queue(kind, MetadataSize) /\ MetadataSize \in Nat
    BY <1>3 DEF SendMetadata, MetadataSize
  <2>. QED BY <2>1, QueueSettled
<1>4. CASE WaitForExit
  <2>1. CASE StopAgain
    BY <1>4, <2>1, SettledSame DEF StopAgain, WaitForExit
  <2>2. CASE Delete
    <3>1. \A i \in Ids : fate'[i] \in {"queued", "taken"} => fate[i] \in {"queued", "taken"}
      BY <2>2 DEF Delete, FateInv
    <3>2. segment_ends' = segment_ends /\ app' = "deleted"
      BY <2>2 DEF Delete
    <3>3. \A i \in segment_ends : \A j \in 1 .. i : j \in Ids
      BY MaxFramesAssumption DEF Settled, Ids
    <3>. QED BY <3>1, <3>2, <3>3 DEF Settled, SegmentEndSettled
  <2>. QED BY <1>4, <2>1, <2>2 DEF WaitForExit
<1>5. ASSUME app # "deleted", TakeFrame PROVE Settled'
  BY <1>5, TakeSettled
<1>6. ASSUME app # "deleted", MuxMedia \/ MuxMetadata PROVE Settled'
  <2>1. UNCHANGED <<app, segment_ends>> /\ thread \in {"muxing", "sending"}
    BY <1>6 DEF MuxMedia, MuxMetadata
  <2>2. \/ UNCHANGED frameVars
        \/ \E what \in {"sent", "refused", "empty", "skipped", "failed"} : Finish(what)
    BY <1>6 DEF MuxMedia, MuxMetadata, frameVars
  <2>. QED BY <1>6, <2>1, <2>2, SettledSame, FinishSettled
<1>7. ASSUME app # "deleted", SendFrame PROVE Settled'
  <2>1. /\ UNCHANGED app /\ thread = "sending"
        /\ segment_ends' \subseteq segment_ends \cup {taken[1].id}
    BY <1>7 DEF SendFrame, Announce
  <2>2. \E what \in {"sent", "refused", "empty", "skipped", "failed"} : Finish(what)
    BY <1>7 DEF SendFrame, SendSucceeds, SendFails
  <2>. QED BY <1>7, <2>1, <2>2, FinishSettled
<1>8. ASSUME \/ ThreadStarts \/ ThreadEnters \/ FindEmpty \/ TestBufferFull
             \/ NotifyResume \/ ClearBufferFull \/ HeartBeat
             \/ LeaveLoop \/ Unpublish \/ NotifyEnd \/ ThreadExits
      PROVE  Settled'
  <2>1. UNCHANGED <<frameVars, segment_ends, app>>
    BY <1>8 DEF ThreadStarts, ThreadEnters, FindEmpty, TestBufferFull, NotifyResume,
                ClearBufferFull, HeartBeat, LeaveLoop, Unpublish, NotifyEnd, ThreadExits
  <2>. QED BY <2>1, SettledSame
<1>9. CASE UNCHANGED vars
  BY <1>9, SettledSame DEF vars
<1>. QED BY <1>1, <1>2, <1>3, <1>4, <1>5, <1>6, <1>7, <1>8, <1>9
         DEF Next, NewCall, CallStep, MuxerStep

\* When PUSH_SEGMENT_END is told, the stream end and every frame before it have
\* left the queue and the thread's hands, whatever became of them.
THEOREM SettledTheorem == Spec => []SegmentEndSettled
<1>1. Settled => SegmentEndSettled
  BY DEF Settled
<1>2. Init => Settled
  <2>. SUFFICES ASSUME Init PROVE Settled
    OBVIOUS
  <2>1. segment_ends = {} /\ \A i \in Ids : fate[i] = "none"
    BY DEF Init
  <2>. QED BY <2>1 DEF Settled, SegmentEndSettled
<1>3. FateInv /\ Settled /\ [Next]_vars => FateInv' /\ Settled'
  BY NextFate, NextSettled
<1>. QED BY <1>1, <1>2, <1>3, InitFate, PTL DEF Spec

-----------------------------------------------------------------------------
(* The event that ends the connection.                                     *)

\* Only the frame in the thread's hands is "taken".
OnlyTaken == app # "deleted" => \A i \in Ids :
               fate[i] = "taken" => thread \in {"muxing", "sending"} /\ i = Finished + 1

LEMMA NextTaken == FateInv /\ OnlyTaken /\ [Next]_vars => OnlyTaken'
<1>. SUFFICES ASSUME FateInv, OnlyTaken, [Next]_vars, app' # "deleted" PROVE OnlyTaken'
  BY DEF OnlyTaken
<1>. USE DEF threadVars, callVars, sendVars, toldVars
<1>1. ASSUME UNCHANGED frameVars, app # "deleted",
             thread \in {"muxing", "sending"} <=> thread' \in {"muxing", "sending"}
      PROVE  OnlyTaken'
  BY <1>1 DEF OnlyTaken, Finished, frameVars
<1>2. ASSUME NEW kind \in {"media", "start", "end"}, NEW size \in Nat, Queue(kind, size),
             UNCHANGED thread, app # "deleted"
      PROVE  OnlyTaken'
  <2>1. /\ accepted \in Nat /\ Finished \in Nat /\ Len(m_MuxerQueue) \in Nat
        /\ Len(taken) \in {0, 1} /\ accepted + 1 \in Ids /\ m_MuxerQueue \in Seq(Frame)
    BY <1>2, MaxFramesAssumption, SMTT(60) DEF Queue, Ids, FateInv, Books, Numbered
  <2>2. Len(m_MuxerQueue') = Len(m_MuxerQueue) + 1 /\ Len(taken') = Len(taken)
    BY <1>2, <2>1 DEF Queue
  <2>3. Finished' = Finished
    BY <1>2, <2>1, <2>2 DEF Queue, Finished
  <2>4. \A i \in Ids : fate'[i] = "taken" => fate[i] = "taken"
    BY <1>2, <2>1 DEF Queue, FateInv
  <2>. QED BY <1>2, <2>3, <2>4 DEF OnlyTaken
<1>3. ASSUME app # "deleted", thread \in {"muxing", "sending"},
             NEW what \in {"sent", "refused", "empty", "skipped", "failed"}, Finish(what)
      PROVE  OnlyTaken'
  <2>1. Finished + 1 \in Nat /\ taken[1].id = Finished + 1
    BY <1>3 DEF FateInv, Books, Numbered
  <2>2. \A i \in Ids : fate'[i] # "taken"
    BY <1>3, <2>1 DEF Finish, OnlyTaken, FateInv
  <2>. QED BY <2>2 DEF OnlyTaken
<1>4. CASE \/ ConnectServer \/ ConnectFails \/ ConnectReturns \/ TestQueueSize
           \/ NotifyPause \/ SetBufferFull \/ Close \/ StopThread \/ Stall
  <2>1. UNCHANGED frameVars /\ app # "deleted"
    BY <1>4 DEF ConnectServer, ConnectFails, ConnectReturns, TestQueueSize,
                NotifyPause, SetBufferFull, Close, StopThread, Stall
  <2>2. thread \in {"muxing", "sending"} <=> thread' \in {"muxing", "sending"}
    BY <1>4 DEF ConnectServer, ConnectFails, ConnectReturns, TestQueueSize,
                NotifyPause, SetBufferFull, Close, StopThread, Stall, FateInv, Books
  <2>. QED BY <1>1, <2>1, <2>2
<1>5. ASSUME NEW size \in Sizes, SendPacket(size) PROVE OnlyTaken'
  <2>1. app # "deleted" /\ UNCHANGED thread /\ size \in Nat
    BY <1>5, SizesAssumption DEF SendPacket
  <2>. QED BY <1>1, <1>2, <1>5, <2>1 DEF SendPacket, PushMedia
<1>6. ASSUME NEW kind \in {"start", "end"}, SendMetadata(kind) PROVE OnlyTaken'
  <2>1. /\ app # "deleted" /\ UNCHANGED thread
        /\ Queue(kind, MetadataSize) /\ MetadataSize \in Nat
    BY <1>6 DEF SendMetadata, MetadataSize
  <2>. QED BY <1>2, <2>1
<1>7. CASE WaitForExit
  BY <1>1, <1>7 DEF StopAgain, Delete, WaitForExit
<1>8. ASSUME app # "deleted", TakeFrame PROVE OnlyTaken'
  <2>1. /\ m_MuxerQueue \in Seq(Frame) /\ Len(m_MuxerQueue) \in Nat \ {0} /\ Len(taken) = 0
        /\ accepted \in 0 .. MaxFrames /\ Finished \in Nat
        /\ Finished = accepted - Len(m_MuxerQueue)
        /\ m_MuxerQueue[1].id = accepted - Len(m_MuxerQueue) + 1
        /\ Head(m_MuxerQueue) = m_MuxerQueue[1]
    BY <1>8 DEF FateInv, Books, Numbered, Finished, TakeFrame
  <2>2. Len(m_MuxerQueue') = Len(m_MuxerQueue) - 1 /\ Len(taken') = 1
    BY <1>8, <2>1 DEF TakeFrame
  <2>3. Finished' = Finished
    BY <1>8, <2>1, <2>2 DEF Finished, TakeFrame
  <2>4. \A i \in Ids : i # Finished + 1 => fate'[i] # "taken"
    BY <1>8, <2>1 DEF FateInv, OnlyTaken, TakeFrame
  <2>. QED BY <1>8, <2>3, <2>4 DEF OnlyTaken, TakeFrame
<1>9. ASSUME app # "deleted", MuxMedia \/ MuxMetadata \/ SendFrame PROVE OnlyTaken'
  <2>1. thread \in {"muxing", "sending"}
    BY <1>9 DEF MuxMedia, MuxMetadata, SendFrame
  <2>2. \/ UNCHANGED frameVars /\ thread' \in {"muxing", "sending"}
        \/ \E what \in {"sent", "refused", "empty", "skipped", "failed"} : Finish(what)
    BY <1>9 DEF MuxMedia, MuxMetadata, SendFrame, SendSucceeds, SendFails, frameVars
  <2>. QED BY <1>1, <1>3, <1>9, <2>1, <2>2
<1>10. ASSUME app # "deleted",
              \/ ThreadStarts \/ ThreadEnters \/ FindEmpty \/ TestBufferFull
              \/ NotifyResume \/ ClearBufferFull \/ HeartBeat
              \/ LeaveLoop \/ Unpublish \/ NotifyEnd \/ ThreadExits
       PROVE  OnlyTaken'
  <2>1. /\ UNCHANGED frameVars /\ thread \notin {"muxing", "sending"}
        /\ thread' \notin {"muxing", "sending"}
    BY <1>10 DEF ThreadStarts, ThreadEnters, FindEmpty, TestBufferFull, NotifyResume,
                 ClearBufferFull, HeartBeat, LeaveLoop, Unpublish, NotifyEnd, ThreadExits
  <2>. QED BY <1>1, <1>10, <2>1
<1>11. CASE UNCHANGED vars
  BY <1>1, <1>11 DEF vars
<1>. QED BY <1>4, <1>5, <1>6, <1>7, <1>8, <1>9, <1>10, <1>11
         DEF Next, NewCall, CallStep, MuxerStep

\* A thread that ends has failed or was stopped, and has failed when ret says so.
AtEnd == {"leaving", "reporting", "exiting", "done"}
Blamed == send_errors \/ \E i \in Ids : LastRefused(i)
Why == /\ closed_by = <<>> <=> thread \notin {"exiting", "done"}
       /\ closed_by # <<>> => closed_by \in {<<"error">>, <<"close">>}
       /\ send_errors => thread \in AtEnd
       /\ send_errors /\ thread \in {"leaving", "reporting"} => ret = "failed"
       /\ thread = "leaving" => ret = "failed" \/ ~m_bRun
       /\ thread = "reporting" => ret = "failed" \/ ~m_bConnected
       /\ ret = "failed" /\ thread \in {"leaving", "reporting"} => Blamed
       /\ m_bRun \in BOOLEAN /\ m_bConnected \in BOOLEAN /\ ret \in {"ok", "failed"}
       /\ EndTellsWhy

\* What a last refused frame is followed by stays so.
LEMMA BlamedStays ==
  ASSUME FateInv, Blamed, send_errors => send_errors',
         \/ UNCHANGED fate
         \/ Delete
         \/ \E kind \in {"media", "start", "end"}, size \in Nat : Queue(kind, size),
         app # "deleted" \/ UNCHANGED fate
  PROVE  Blamed'
<1>1. CASE send_errors
  BY <1>1 DEF Blamed
<1>2. CASE ~send_errors
  <2>1. PICK i \in Ids : LastRefused(i)
    BY <1>2 DEF Blamed
  <2>2. \A k \in i + 1 .. MaxFrames : k \in Ids
    BY MaxFramesAssumption DEF Ids
  <2>3. CASE UNCHANGED fate
    BY <2>1, <2>3 DEF Blamed, LastRefused
  <2>4. CASE Delete
    BY <2>1, <2>2, <2>4 DEF Blamed, LastRefused, Delete, FateInv
  <2>5. ASSUME NEW kind \in {"media", "start", "end"}, NEW size \in Nat, Queue(kind, size),
               app # "deleted"
        PROVE  Blamed'
    <3>1. accepted + 1 \in Ids /\ fate' = [fate EXCEPT ![accepted + 1] = "queued"]
      BY <2>5, MaxFramesAssumption, SMTT(60) DEF Queue, Ids, FateInv, Books, Numbered
    <3>2. Finished <= accepted
      BY <2>5 DEF FateInv, Books, Numbered, Finished
    <3>3. fate[accepted + 1] # "refused"
      BY <2>5, <3>1, <3>2 DEF FateInv, Books, Numbered
    <3>. QED BY <2>1, <2>2, <3>1, <3>3 DEF Blamed, LastRefused, FateInv
  <2>. QED BY <2>3, <2>4, <2>5
<1>. QED BY <1>1, <1>2

LEMMA WhyKept ==
  ASSUME Why, UNCHANGED <<thread, closed_by, ret, send_errors>>, Blamed => Blamed',
         m_bRun' \in {m_bRun, FALSE}, m_bConnected' \in {m_bConnected, FALSE}
  PROVE  Why'
<1>1. EndTellsWhy'
  BY DEF Why, EndTellsWhy, Blamed
<1>2. UNCHANGED thread /\ UNCHANGED closed_by /\ UNCHANGED ret /\ UNCHANGED send_errors
  OBVIOUS
<1>3. /\ m_bRun' \in BOOLEAN /\ (~m_bRun => ~m_bRun')
      /\ m_bConnected' \in BOOLEAN /\ (~m_bConnected => ~m_bConnected')
  <2>1. m_bRun \in BOOLEAN /\ m_bConnected \in BOOLEAN
    BY DEF Why
  <2>2. /\ m_bRun' = m_bRun \/ m_bRun' = FALSE
        /\ m_bConnected' = m_bConnected \/ m_bConnected' = FALSE
    OBVIOUS
  <2>3. m_bRun' \in BOOLEAN /\ (~m_bRun => ~m_bRun')
    <3>1. CASE m_bRun' = FALSE
      BY <3>1
    <3>2. CASE m_bRun' = m_bRun
      <4>1. m_bRun' \in BOOLEAN
        BY <2>1, <3>2
      <4>2. ASSUME ~m_bRun PROVE ~m_bRun'
        BY <3>2, <4>2
      <4>. QED BY <4>1, <4>2
    <3>. QED BY <2>2, <3>1, <3>2
  <2>4. m_bConnected' \in BOOLEAN /\ (~m_bConnected => ~m_bConnected')
    <3>1. CASE m_bConnected' = FALSE
      BY <3>1
    <3>2. CASE m_bConnected' = m_bConnected
      <4>1. m_bConnected' \in BOOLEAN
        BY <2>1, <3>2
      <4>2. ASSUME ~m_bConnected PROVE ~m_bConnected'
        BY <3>2, <4>2
      <4>. QED BY <4>1, <4>2
    <3>. QED BY <2>2, <3>1, <3>2
  <2>. QED BY <2>3, <2>4
<1>4. /\ thread = "leaving" => ret = "failed" \/ ~m_bRun'
      /\ thread = "reporting" => ret = "failed" \/ ~m_bConnected'
  BY <1>3 DEF Why
<1>5. ret = "failed" /\ thread \in {"leaving", "reporting"} => Blamed'
  BY DEF Why
<1>. QED BY <1>1, <1>2, <1>3, <1>4, <1>5 DEF Why

LEMMA NextWhy == FateInv /\ OnlyTaken /\ Why /\ [Next]_vars => Why'
<1>. SUFFICES ASSUME FateInv, OnlyTaken, Why, [Next]_vars PROVE Why'
  OBVIOUS
<1>. USE DEF threadVars, callVars, sendVars, toldVars, frameVars
<1>1. CASE ConnectServer
  <2>1. thread = "none" /\ ret = "ok"
    BY <1>1 DEF ConnectServer, FateInv, Books
  <2>. QED BY <1>1, <2>1 DEF ConnectServer, Why, AtEnd, EndTellsWhy
<1>2. CASE \/ ConnectFails \/ ConnectReturns \/ TestQueueSize
           \/ NotifyPause \/ SetBufferFull \/ Close \/ StopThread \/ Stall
  <2>1. /\ UNCHANGED <<thread, closed_by, ret, send_errors, fate, m_bConnected>>
        /\ m_bRun' \in {m_bRun, FALSE}
    BY <1>2 DEF ConnectFails, ConnectReturns, TestQueueSize,
                NotifyPause, SetBufferFull, Close, StopThread, Stall
  <2>. QED BY <2>1, BlamedStays, WhyKept
<1>3. ASSUME NEW size \in Sizes, SendPacket(size) PROVE Why'
  <2>1. /\ app # "deleted" /\ size \in Nat
        /\ UNCHANGED <<thread, closed_by, ret, send_errors, m_bRun, m_bConnected>>
    BY <1>3, SizesAssumption DEF SendPacket
  <2>2. UNCHANGED fate \/ Queue("media", size)
    BY <1>3 DEF SendPacket, PushMedia
  <2>3. Blamed => Blamed'
    BY <2>1, <2>2, BlamedStays
  <2>. QED BY <2>1, <2>3, WhyKept
<1>4. ASSUME NEW kind \in {"start", "end"}, SendMetadata(kind) PROVE Why'
  <2>1. /\ app # "deleted" /\ Queue(kind, MetadataSize) /\ MetadataSize \in Nat
        /\ UNCHANGED <<thread, closed_by, ret, send_errors, m_bRun, m_bConnected>>
    BY <1>4 DEF SendMetadata, MetadataSize
  <2>2. Blamed => Blamed'
    BY <2>1, BlamedStays
  <2>. QED BY <2>1, <2>2, WhyKept
<1>5. CASE WaitForExit
  <2>1. /\ UNCHANGED <<thread, closed_by, ret, send_errors, m_bRun>>
        /\ m_bConnected' \in {m_bConnected, FALSE} /\ app # "deleted"
        /\ UNCHANGED fate \/ Delete
    BY <1>5 DEF WaitForExit, StopAgain, Delete
  <2>2. Blamed => Blamed'
    BY <2>1, BlamedStays
  <2>. QED BY <2>1, <2>2, WhyKept
<1>6. ASSUME app # "deleted",
             \/ ThreadStarts \/ ThreadEnters \/ TakeFrame \/ MuxMedia \/ MuxMetadata
             \/ FindEmpty \/ TestBufferFull \/ NotifyResume \/ ClearBufferFull
      PROVE  Why'
  <2>1. /\ thread \notin AtEnd /\ thread' \notin AtEnd
        /\ UNCHANGED <<closed_by, send_errors, m_bConnected>>
        /\ ret' \in {"ok", "failed"} /\ m_bRun' \in BOOLEAN
    BY <1>6 DEF ThreadStarts, ThreadEnters, TakeFrame, MuxMedia, MuxMetadata, FindEmpty,
                TestBufferFull, NotifyResume, ClearBufferFull, AtEnd, Why
  <2>. QED BY <2>1 DEF Why, AtEnd, EndTellsWhy
<1>7. ASSUME app # "deleted", SendFrame \/ HeartBeat PROVE Why'
  <2>1. /\ thread \notin AtEnd /\ UNCHANGED <<closed_by, m_bConnected, m_bRun>>
        /\ ret' \in {"ok", "failed"}
        /\ \/ thread' = "leaving" /\ ret' = "failed" /\ send_errors'
           \/ thread' \notin AtEnd /\ UNCHANGED send_errors
    BY <1>7 DEF SendFrame, SendSucceeds, SendFails, HeartBeat, AtEnd, Why
  <2>. QED BY <2>1 DEF Why, AtEnd, EndTellsWhy, Blamed
<1>8. ASSUME app # "deleted", LeaveLoop PROVE Why'
  <2>1. /\ thread = "looping" /\ ~m_bRun /\ thread' = "leaving"
        /\ UNCHANGED <<closed_by, send_errors, m_bConnected, m_bRun, ret, fate>>
    BY <1>8 DEF LeaveLoop
  <2>2. ret = "failed" => Blamed'
    <3>. SUFFICES ASSUME ret = "failed" PROVE \E i \in Ids : LastRefused(i)
      BY <2>1 DEF Blamed, LastRefused
    <3>1. PICK j \in 1 .. Finished : Streak(j, Finished)
      BY <1>8, <2>1 DEF FateInv, Books, InLoop
    <3>2. Finished \in Nat /\ Finished <= MaxFrames
      <4>1. /\ accepted \in 0 .. MaxFrames /\ Len(m_MuxerQueue) \in Nat /\ Len(taken) \in Nat
            /\ Finished \in Nat
        BY <1>8 DEF FateInv, Books, Numbered
      <4>2. Finished = accepted - Len(m_MuxerQueue) - Len(taken)
        BY DEF Finished
      <4>. QED BY <4>1, <4>2, MaxFramesAssumption
    <3>3. \A k \in Ids : k > Finished => fate[k] \in {"none", "queued"}
      BY <1>8, <2>1 DEF FateInv, Books, OnlyTaken
    <3>4. LastRefused(j) /\ j \in Ids
      BY <3>1, <3>2, <3>3, MaxFramesAssumption DEF LastRefused, Streak, Ids
    <3>. QED BY <3>4
  <2>. QED BY <2>1, <2>2 DEF Why, AtEnd, EndTellsWhy
<1>9. ASSUME app # "deleted", Unpublish PROVE Why'
  <2>1. /\ thread = "leaving" /\ thread' = "reporting"
        /\ m_bConnected' = (m_bRun /\ m_bConnected)
        /\ UNCHANGED <<closed_by, send_errors, m_bRun, ret, fate>>
    BY <1>9 DEF Unpublish
  <2>2. Blamed' <=> Blamed
    BY <2>1 DEF Blamed, LastRefused
  <2>. QED BY <2>1, <2>2 DEF Why, AtEnd, EndTellsWhy
<1>10. ASSUME app # "deleted", NotifyEnd PROVE Why'
  <2>1. /\ thread = "reporting" /\ thread' = "exiting"
        /\ closed_by' = Append(closed_by, IF ret = "failed" THEN "error" ELSE "close")
        /\ UNCHANGED <<send_errors, m_bRun, m_bConnected, ret, fate>>
    BY <1>10 DEF NotifyEnd
  <2>2. closed_by = <<>>
    BY <2>1 DEF Why
  <2>3. closed_by' = IF ret = "failed" THEN <<"error">> ELSE <<"close">>
    BY <2>1, <2>2
  <2>4. Blamed' <=> Blamed
    BY <2>1 DEF Blamed, LastRefused
  <2>5. <<"error">> # <<"close">> /\ <<"error">> # <<>> /\ <<"close">> # <<>>
    OBVIOUS
  <2>6. EndTellsWhy'
    BY <2>1, <2>3, <2>4, <2>5 DEF Why, AtEnd, EndTellsWhy, Blamed
  <2>. QED BY <2>1, <2>3, <2>5, <2>6 DEF Why, AtEnd
<1>11. ASSUME app # "deleted", ThreadExits PROVE Why'
  <2>1. /\ thread = "exiting" /\ thread' = "done" /\ m_bRun' = FALSE
        /\ UNCHANGED <<closed_by, send_errors, m_bConnected, ret, fate>>
    BY <1>11 DEF ThreadExits
  <2>2. Blamed' <=> Blamed
    BY <2>1 DEF Blamed, LastRefused
  <2>. QED BY <2>1, <2>2 DEF Why, AtEnd, EndTellsWhy, Blamed
<1>12. CASE UNCHANGED vars
  <2>1. UNCHANGED <<thread, closed_by, ret, send_errors, fate, m_bConnected, m_bRun>>
    BY <1>12 DEF vars
  <2>. QED BY <2>1, BlamedStays, WhyKept
<1>. QED BY <1>1, <1>2, <1>3, <1>4, <1>5, <1>6, <1>7, <1>8, <1>9, <1>10, <1>11, <1>12
         DEF Next, NewCall, CallStep, MuxerStep

\* The event that ends a connection says how it ended: a failed send is never
\* told as an orderly end, and an end with error has a failure, or a refused
\* last frame, behind it.
THEOREM WhyTheorem == Spec => []EndTellsWhy
<1>1. Why => EndTellsWhy
  BY DEF Why
<1>2. Init => OnlyTaken /\ Why
  BY DEF Init, OnlyTaken, Why, AtEnd, EndTellsWhy
<1>3. FateInv /\ OnlyTaken /\ Why /\ [Next]_vars => FateInv' /\ OnlyTaken' /\ Why'
  BY NextFate, NextTaken, NextWhy
<1>. QED BY <1>1, <1>2, <1>3, InitFate, PTL DEF Spec
-----------------------------------------------------------------------------
(* The types, and the memory the queue keeps within.                       *)

\* The sizes of the queued frames.
Weights == [i \in DOMAIN m_MuxerQueue |-> m_MuxerQueue[i].size]

\* The type invariant in two parts: what is stored, and the single words.
Stored == /\ m_MuxerQueue \in Seq(Frame) /\ QueuedBytes <= MaxBytes
          /\ taken \in Seq(Frame) /\ Len(taken) <= 1
          /\ accepted \in 0 .. MaxFrames
          /\ delivered \in Seq(Ids)
          /\ segment_ends \subseteq Ids
Words == /\ app \in Calls /\ thread \in Places
         /\ m_bRun \in BOOLEAN /\ m_bExit \in BOOLEAN
         /\ m_bConnected \in BOOLEAN /\ m_bBufferFull \in BOOLEAN
         /\ paused \in BOOLEAN /\ send_errors \in BOOLEAN
         /\ ret \in {"ok", "failed"}
         /\ socket \in {"open", "stalled", "closed"}
         /\ closed_by \in Seq({"close", "error"})

LEMMA TypeParts == FateInv /\ Stored /\ Words => TypeOK
<1>. SUFFICES ASSUME FateInv, Stored, Words PROVE TypeOK
  OBVIOUS
<1>1. {m_bRun, m_bExit, m_bConnected, m_bBufferFull, paused, send_errors} \subseteq BOOLEAN
  <2>. SUFFICES ASSUME NEW b \in {m_bRun, m_bExit, m_bConnected, m_bBufferFull,
                                  paused, send_errors}
                PROVE  b \in BOOLEAN
    BY Zenon
  <2>. QED BY Zenon DEF Words
<1>. QED BY <1>1 DEF FateInv, Stored, Words, TypeOK, Calls, Places

LEMMA WeightsType ==
  ASSUME m_MuxerQueue \in Seq(Frame)
  PROVE  Weights \in Seq(Nat) /\ Len(Weights) = Len(m_MuxerQueue)
<1>1. DOMAIN m_MuxerQueue = 1 .. Len(m_MuxerQueue) /\ Len(m_MuxerQueue) \in Nat
  OBVIOUS
<1>2. ASSUME NEW i \in DOMAIN m_MuxerQueue PROVE m_MuxerQueue[i].size \in Nat
  <2>1. m_MuxerQueue[i] \in Frame
    OBVIOUS
  <2>. QED BY <2>1 DEF Frame
<1>. QED BY <1>1, <1>2 DEF Weights

\* A frame that fits leaves the queue within its memory.
LEMMA QueueStored ==
  ASSUME Stored, NEW kind \in {"media", "start", "end"}, NEW size \in Nat,
         Fits(size), Queue(kind, size), UNCHANGED segment_ends
  PROVE  Stored'
<1>. DEFINE q == m_MuxerQueue
            f == [id |-> accepted + 1, kind |-> kind, size |-> size]
<1>1. accepted + 1 \in Ids /\ f \in Frame /\ accepted' \in 0 .. MaxFrames
  BY MaxFramesAssumption DEF Stored, Queue, Ids, Frame
<1>2. /\ q' = Append(q, f) /\ q' \in Seq(Frame) /\ Len(q') = Len(q) + 1 /\ Len(q) \in Nat
      /\ DOMAIN q' = 1 .. Len(q) + 1
      /\ \A i \in 1 .. Len(q) : q'[i] = q[i]
      /\ q'[Len(q) + 1] = f
  BY <1>1 DEF Stored, Queue
<1>3. Weights \in Seq(Nat) /\ Len(Weights) = Len(q)
  BY WeightsType DEF Stored
<1>4. \A i \in 1 .. Len(q) : Weights[i] = q[i].size
  BY DEF Weights, Stored
<1>5. Weights' = [i \in 1 .. Len(q) + 1 |-> IF i \in 1 .. Len(q) THEN Weights[i] ELSE size]
  <2>1. \A i \in 1 .. Len(q) + 1 : q'[i].size = IF i \in 1 .. Len(q) THEN Weights[i] ELSE size
    BY <1>2, <1>4
  <2>. QED BY <1>2, <2>1 DEF Weights
<1>6. Weights' = Append(Weights, size)
  BY <1>3, <1>5, AppendByIndex
<1>7. QueuedBytes' = QueuedBytes + size
  BY <1>3, <1>6, LoadAppend DEF QueuedBytes, Weights
<1>. QED BY <1>1, <1>2, <1>7 DEF Stored, Queue, Fits

\* A frame that is taken leaves more of the memory.
LEMMA TakeStored ==
  ASSUME Stored, TakeFrame
  PROVE  Stored'
<1>. DEFINE q == m_MuxerQueue
<1>1. /\ q \in Seq(Frame) /\ q # <<>> /\ Head(q) \in Frame /\ Len(q) \in Nat \ {0}
      /\ q' = Tail(q) /\ q' \in Seq(Frame) /\ Len(q') = Len(q) - 1
      /\ DOMAIN q' = 1 .. Len(q) - 1
      /\ \A i \in 1 .. Len(q) - 1 : q'[i] = q[i + 1]
  BY DEF Stored, TakeFrame
<1>2. Weights \in Seq(Nat) /\ Len(Weights) = Len(q) /\ Weights # <<>>
  BY <1>1, WeightsType
<1>3. Weights' = [i \in 1 .. Len(q) - 1 |-> Weights[i + 1]]
  <2>1. \A i \in 1 .. Len(q) - 1 : q'[i].size = Weights[i + 1]
    BY <1>1 DEF Weights
  <2>. QED BY <1>1, <2>1 DEF Weights
<1>4. Weights' = Tail(Weights)
  BY <1>2, <1>3, TailByIndex
<1>5. Load(Weights') = Load(Weights) - Head(Weights) /\ Head(Weights) \in Nat
  BY <1>2, <1>4, LoadTail
<1>6. QueuedBytes' <= MaxBytes
  <2>1. Load(Weights) \in Nat /\ Load(Weights) <= MaxBytes
    BY <1>2, LoadFinite DEF Stored, QueuedBytes, Weights
  <2>. QED BY <1>5, <2>1, MaxBytesAssumption DEF QueuedBytes, Weights
<1>7. taken' \in Seq(Frame) /\ Len(taken') <= 1
  BY <1>1 DEF TakeFrame
<1>8. UNCHANGED <<accepted, delivered, segment_ends>>
  BY DEF TakeFrame, toldVars
<1>. QED BY <1>1, <1>6, <1>7, <1>8 DEF Stored

LEMMA StoredSame ==
  ASSUME Stored, UNCHANGED <<m_MuxerQueue, taken, accepted, delivered, segment_ends>>
  PROVE  Stored'
BY DEF Stored, QueuedBytes

\* The thread lets go of its frame, having sent it or not.
LEMMA MuxStored ==
  ASSUME FateInv, Stored, app # "deleted", MuxMedia \/ MuxMetadata \/ SendFrame
  PROVE  Stored'
<1>1. taken[1].id \in Ids
  <2>1. Len(taken) = 1 /\ taken \in Seq(Frame)
    BY DEF FateInv, Books, Numbered, MuxMedia, MuxMetadata, SendFrame
  <2>2. taken[1] \in Frame
    BY <2>1
  <2>. QED BY <2>2 DEF Frame
<1>2. UNCHANGED <<m_MuxerQueue, accepted>> /\ (UNCHANGED taken \/ taken' = <<>>)
  BY DEF MuxMedia, MuxMetadata, SendFrame, SendSucceeds, SendFails, Finish
<1>3. taken' \in Seq(Frame) /\ Len(taken') <= 1
  <2>1. CASE UNCHANGED taken
    BY <2>1 DEF Stored
  <2>2. CASE taken' = <<>>
    BY <2>2
  <2>. QED BY <1>2, <2>1, <2>2
<1>4. delivered' \in {delivered, Append(delivered, taken[1].id)}
  BY DEF MuxMedia, MuxMetadata, SendFrame, SendSucceeds, SendFails
<1>5. delivered' \in Seq(Ids)
  <2>1. delivered \in Seq(Ids) /\ Append(delivered, taken[1].id) \in Seq(Ids)
    BY <1>1 DEF Stored
  <2>. QED BY <1>4, <2>1
<1>6. segment_ends' \subseteq segment_ends \cup {taken[1].id}
  BY DEF MuxMedia, MuxMetadata, SendFrame, Announce, toldVars
<1>7. QueuedBytes' = QueuedBytes
  BY <1>2 DEF QueuedBytes
<1>. QED BY <1>1, <1>2, <1>3, <1>5, <1>6, <1>7 DEF Stored

LEMMA NextStored == FateInv /\ Stored /\ [Next]_vars => Stored'
<1>. SUFFICES ASSUME FateInv, Stored, [Next]_vars PROVE Stored'
  OBVIOUS
<1>. USE DEF frameVars, toldVars
<1>1. ASSUME NEW size \in Sizes, SendPacket(size) PROVE Stored'
  <2>1. size \in Nat /\ UNCHANGED segment_ends
    BY <1>1, SizesAssumption DEF SendPacket
  <2>2. CASE Fits(size) /\ Queue("media", size)
    BY <2>1, <2>2, QueueStored
  <2>3. CASE UNCHANGED frameVars
    BY <2>1, <2>3, StoredSame
  <2>. QED BY <1>1, <2>2, <2>3 DEF SendPacket, PushMedia
<1>2. ASSUME NEW kind \in {"start", "end"}, SendMetadata(kind) PROVE Stored'
  <2>1. /\ MetadataSize \in Nat /\ UNCHANGED segment_ends
        /\ Fits(MetadataSize) /\ Queue(kind, MetadataSize)
    BY <1>2 DEF SendMetadata, MetadataSize
  <2>. QED BY <2>1, QueueStored
<1>3. CASE WaitForExit
  <2>1. CASE Delete
    <3>1. m_MuxerQueue' = <<>> /\ UNCHANGED <<taken, accepted, delivered, segment_ends>>
      BY <2>1 DEF Delete
    <3>2. QueuedBytes' = 0
      BY <3>1, LoadEmpty DEF QueuedBytes
    <3>. QED BY <3>1, <3>2, MaxBytesAssumption DEF Stored
  <2>2. CASE StopAgain
    BY <2>2, StoredSame DEF StopAgain
  <2>. QED BY <1>3, <2>1, <2>2 DEF WaitForExit
<1>4. ASSUME app # "deleted", MuxMedia \/ MuxMetadata \/ SendFrame PROVE Stored'
  BY <1>4, MuxStored
<1>5. CASE TakeFrame
  BY <1>5, TakeStored
<1>6. CASE \/ ConnectFails \/ ConnectServer \/ Close \/ ConnectReturns \/ TestQueueSize
           \/ NotifyPause \/ SetBufferFull \/ StopThread \/ Stall
           \/ ThreadStarts \/ ThreadEnters \/ FindEmpty \/ TestBufferFull
           \/ NotifyResume \/ ClearBufferFull \/ HeartBeat
           \/ LeaveLoop \/ Unpublish \/ NotifyEnd \/ ThreadExits
           \/ UNCHANGED vars
  <2>1. UNCHANGED <<m_MuxerQueue, taken, accepted, delivered, segment_ends>>
    BY <1>6 DEF ConnectFails, ConnectServer, Close, ConnectReturns, TestQueueSize,
                NotifyPause, SetBufferFull, StopThread, Stall, ThreadStarts, ThreadEnters,
                FindEmpty, TestBufferFull, NotifyResume, ClearBufferFull, HeartBeat,
                LeaveLoop, Unpublish, NotifyEnd, ThreadExits, vars
  <2>. QED BY <2>1, StoredSame
<1>. QED BY <1>1, <1>2, <1>3, <1>4, <1>5, <1>6 DEF Next, NewCall, CallStep, MuxerStep

LEMMA NextWords == Words /\ [Next]_vars => Words'
<1>. SUFFICES ASSUME Words, [Next]_vars PROVE Words'
  OBVIOUS
<1>. USE DEF Words, Calls, Places, callVars, threadVars, toldVars, sendVars
<1>1. CASE NewCall
  <2>1. CASE ConnectFails \/ ConnectServer \/ Close
    BY <2>1 DEF ConnectFails, ConnectServer, Close
  <2>2. ASSUME NEW size \in Sizes, SendPacket(size) PROVE Words'
    BY <2>2 DEF SendPacket
  <2>3. ASSUME NEW kind \in {"start", "end"}, SendMetadata(kind) PROVE Words'
    BY <2>3 DEF SendMetadata
  <2>. QED BY <1>1, <2>1, <2>2, <2>3 DEF NewCall
<1>2. CASE CallStep
  <2>1. CASE ConnectReturns \/ TestQueueSize \/ NotifyPause \/ SetBufferFull
    BY <2>1, ZenonT(60) DEF ConnectReturns, TestQueueSize, NotifyPause, SetBufferFull
  <2>2. CASE StopThread \/ WaitForExit
    BY <2>2 DEF StopThread, WaitForExit, Delete, StopAgain
  <2>. QED BY <1>2, <2>1, <2>2 DEF CallStep
<1>3. CASE MuxerStep
  <2>1. CASE ThreadStarts \/ ThreadEnters \/ TakeFrame \/ LeaveLoop \/ ThreadExits
    BY <2>1, ZenonT(60) DEF ThreadStarts, ThreadEnters, TakeFrame, LeaveLoop, ThreadExits
  <2>2. CASE MuxMedia \/ MuxMetadata
    BY <2>2 DEF MuxMedia, MuxMetadata
  <2>3. CASE SendFrame
    BY <2>3, ZenonT(60) DEF SendFrame, SendSucceeds, SendFails
  <2>4. CASE FindEmpty \/ TestBufferFull \/ NotifyResume \/ ClearBufferFull \/ HeartBeat
    BY <2>4 DEF FindEmpty, TestBufferFull, NotifyResume, ClearBufferFull, HeartBeat
  <2>5. CASE Unpublish
    <3>1. m_bConnected' \in BOOLEAN
      BY <2>5, Zenon DEF Unpublish
    <3>. QED BY <2>5, <3>1 DEF Unpublish
  <2>6. CASE NotifyEnd
    <3>1. closed_by' \in Seq({"close", "error"})
      BY <2>6 DEF NotifyEnd
    <3>. QED BY <2>6, <3>1 DEF NotifyEnd
  <2>. QED BY <1>3, <2>1, <2>2, <2>3, <2>4, <2>5, <2>6 DEF MuxerStep
<1>4. CASE Stall
  BY <1>4 DEF Stall
<1>5. CASE UNCHANGED vars
  BY <1>5 DEF vars
<1>. QED BY <1>1, <1>2, <1>3, <1>4, <1>5 DEF Next

\* Every variable keeps its type, and what is queued never exceeds the memory
\* given to it: a frame is accepted only when it fits (SendPacket, SendMetadata).
\* Nothing is assumed of the thread's start.
THEOREM TypeCorrect == Spec => []TypeOK
<1>1. Init => Stored /\ Words
  <2>. SUFFICES ASSUME Init PROVE Stored /\ Words
    OBVIOUS
  <2>1. m_MuxerQueue = <<>> /\ QueuedBytes = 0
    BY LoadEmpty DEF Init, QueuedBytes
  <2>2. taken = <<>> /\ delivered = <<>> /\ closed_by = <<>>
    BY DEF Init
  <2>3. Stored
    <3>1. /\ m_MuxerQueue \in Seq(Frame) /\ taken \in Seq(Frame) /\ delivered \in Seq(Ids)
          /\ Len(taken) <= 1
      BY <2>1, <2>2
    <3>2. accepted = 0 /\ segment_ends = {}
      BY DEF Init
    <3>. QED BY <2>1, <3>1, <3>2, MaxBytesAssumption, MaxFramesAssumption DEF Stored
  <2>4. closed_by \in Seq({"close", "error"})
    BY <2>2
  <2>5. app \in Calls /\ thread \in Places
    BY DEF Init, Calls, Places
  <2>. QED BY <2>3, <2>4, <2>5 DEF Init, Words
<1>2. FateInv /\ Stored /\ Words /\ [Next]_vars => FateInv' /\ Stored' /\ Words'
  BY NextFate, NextStored, NextWords
<1>. QED BY <1>1, <1>2, InitFate, TypeParts, PTL DEF Spec
=============================================================================
