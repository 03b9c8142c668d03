---------------------------- MODULE CloudChannel ----------------------------
(***************************************************************************)
(* The channels of demo/cloud_sunvalley.c, the program that drives the SDK:*)
(* the thread that keeps every channel connected (cloud_suvalley_pth), the *)
(* sender of each channel (Rec_Cloud_pth), the trigger that starts it      *)
(* (Random_pth of demo/demo_main.c) and the callback of the SDK            *)
(* (ZBCloud_callback), on a sender's thread for PAUSE and on a muxer thread*)
(* for RESUME and for the end.  They share five volatile arrays and no     *)
(* lock; a connection is what BasePush makes of it.  When the program stops*)
(* the cloud thread and main (demo/demo_main.c) both uninitialise the SDK, *)
(* and main frees the arrays.                                              *)
(*                                                                         *)
(* Time is abstract, and three assumptions on it are constants, so that    *)
(* each can be dropped.                                                    *)
(*                                                                         *)
(* Abstracted: the channels without a device (nstat = 0, nothing happens), *)
(* the record file (a packet of any kind may come next, or the end), live  *)
(* triggers, what is sent before STREAM_START.                             *)
(***************************************************************************)
EXTENDS Integers, FiniteSets

CONSTANTS NChannels,      \* g_cur_push_channel_num
          MaxIds,         \* bound: connections ever opened
          Triggered,      \* bound: the channels whose trigger ever fires
          FlaggedInTime,  \* a new connection lasts until it is flagged: the
                          \* first heartbeat is sent after two seconds
          LeavesInTime,   \* a sender has left its loop when its channel has
                          \* an id again, a second and a connect later
          QuickConnect    \* no channel is due again before a round that broke
                          \* off has been followed by another one

ASSUME NChannelsAssumption == NChannels \in Nat \ {0}
ASSUME MaxIdsAssumption == MaxIds \in Nat
ASSUME TimingAssumption == {FlaggedInTime, LeavesInTime, QuickConnect} \subseteq BOOLEAN

Channels == 1 .. NChannels
Ids == 1 .. MaxIds
NoId == -1

VARIABLES
  g_running,
  psunvalley_cloud_id,  \* the connection of each channel, or NoId
  pcloudflag,           \* the channel is connected
  pcloudctrl,           \* the channel is paused
  pcloudrecheck,        \* the channel is to be connected again at once
  precstart,            \* the sender is to push its record
  due,                  \* 60 s have passed since lasttime
  at,                   \* what the cloud thread does,
  channel,              \* for which channel,
  fresh,                \* and the connection it is opening, or NoId
  conn,                 \* the connections
  rec,                  \* what each sender does
  start,                \* 1: it sends, 2: it waits for a key frame
  packet,               \* the packet it has read and not sent
  random,               \* the trigger of each channel
  main,                 \* what main does
  sdk,                  \* g_pPushMgr is set
  last                  \* history: the last message sent on each connection, of
                        \* STREAM_START, media and STREAM_END

flags == <<psunvalley_cloud_id, pcloudflag, pcloudctrl, pcloudrecheck>>
cloudVars == <<due, at, channel, fresh>>
recVars == <<precstart, rec, start, packet, random>>
runVars == <<g_running, main, sdk>>
vars == <<runVars, flags, cloudVars, recVars, conn, last>>

Init == /\ g_running = TRUE
        /\ psunvalley_cloud_id = [c \in Channels |-> NoId]
        /\ pcloudflag = [c \in Channels |-> FALSE]
        /\ pcloudctrl = [c \in Channels |-> FALSE]
        /\ pcloudrecheck = [c \in Channels |-> FALSE]
        /\ precstart = [c \in Channels |-> FALSE]
        /\ due = [c \in Channels |-> TRUE]
        /\ at = "round" /\ channel = 1 /\ fresh = NoId
        /\ conn = [i \in Ids |-> "none"]
        /\ rec = [c \in Channels |-> "waiting"]
        /\ start = [c \in Channels |-> 1]
        /\ packet = [c \in Channels |-> "none"]
        /\ random = [c \in Channels |-> "idle"]
        /\ last = [i \in Ids |-> "none"]
        /\ main = "running" /\ sdk = TRUE

-----------------------------------------------------------------------------
(* The connections.  One is in the manager's table until it is closed, also*)
(* when its muxer thread has ended.                                        *)

InTable(i) == i \in Ids /\ conn[i] \in {"live", "ended"}

\* A call gets past the test of g_pPushMgr.  (One that is past it while the SDK is
\* uninitialised, and waits for the lock, is left out.)
Calls(i) == sdk /\ i # NoId
Opened == Cardinality({i \in Ids : conn[i] # "none"})

\* The value f has for the channels of connection i is replaced by v.
SetFor(f, i, v) == [c \in Channels |-> IF psunvalley_cloud_id[c] = i THEN v ELSE f[c]]

\* mutant: the end is not recorded as a reason to connect again
EndedWithoutFlag(i) == /\ pcloudrecheck' = SetFor(pcloudrecheck, i, TRUE)
                       /\ pcloudctrl' = SetFor(pcloudctrl, i, FALSE)
                       /\ UNCHANGED <<psunvalley_cloud_id, pcloudflag>>

\* ZBCloud_callback, for an event that ends connection i.
CallbackEnd(i) == /\ pcloudrecheck' = SetFor(pcloudrecheck, i, TRUE)
                  /\ pcloudflag' = SetFor(pcloudflag, i, FALSE)
                  /\ pcloudctrl' = SetFor(pcloudctrl, i, FALSE)
                  /\ UNCHANGED psunvalley_cloud_id

\* The muxer thread ends, because of an error or because it is closed.
ConnEnds(i) == /\ conn[i] = "live"
               /\ FlaggedInTime => fresh # i
               /\ conn' = [conn EXCEPT ![i] = "ended"]
               /\ CallbackEnd(i)
               /\ UNCHANGED <<runVars, cloudVars, recVars, last>>

\* RESUME_MEDIA_PUSH
ConnResumes(i) == /\ conn[i] = "live"
                  /\ \E c \in Channels : psunvalley_cloud_id[c] = i /\ pcloudctrl[c]
                  /\ pcloudctrl' = SetFor(pcloudctrl, i, FALSE)
                  /\ UNCHANGED <<psunvalley_cloud_id, pcloudflag, pcloudrecheck>>
                  /\ UNCHANGED <<runVars, cloudVars, recVars, conn, last>>

-----------------------------------------------------------------------------
(* The cloud thread.                                                       *)

RoundBegins == /\ at \in {"round", "broken"}
               /\ at' = IF g_running THEN "looking" ELSE "leaving"
               /\ channel' = 1
               /\ UNCHANGED <<due, fresh, runVars, flags, recVars, conn, last>>

Elapse(c) == /\ at = "round" \/ (at = "broken" /\ ~QuickConnect)
             /\ ~due[c]
             /\ due' = [due EXCEPT ![c] = TRUE]
             /\ UNCHANGED <<at, channel, fresh, runVars, flags, recVars, conn, last>>

\* mutant: one channel too many
NextChannelOrBeyond(then) ==
  \/ channel <= NChannels /\ channel' = channel + 1 /\ at' = then
  \/ channel > NChannels /\ channel' = 1 /\ at' = "round"

NextChannel(then) == \/ channel < NChannels /\ channel' = channel + 1 /\ at' = then
                     \/ channel = NChannels /\ channel' = 1 /\ at' = "round"

ToConnect(c) == ~pcloudflag[c] /\ (due[c] \/ pcloudrecheck[c])

PassBy == /\ at = "looking" /\ ~ToConnect(channel)
          /\ NextChannel("looking")
          /\ UNCHANGED <<due, fresh, runVars, flags, recVars, conn, last>>

\* mutant: the old connection is not closed
AttemptAtOnce == /\ at = "looking" /\ ToConnect(channel)
                 /\ due' = [due EXCEPT ![channel] = FALSE]
                 /\ pcloudrecheck' = [pcloudrecheck EXCEPT ![channel] = FALSE]
                 /\ at' = "dialing"
                 /\ UNCHANGED <<channel, fresh, psunvalley_cloud_id, pcloudflag, pcloudctrl>>
                 /\ UNCHANGED <<runVars, recVars, conn, last>>

\* mutant: the time of the attempt is not noted
AttemptUntimed == /\ at = "looking" /\ ToConnect(channel)
                  /\ pcloudrecheck' = [pcloudrecheck EXCEPT ![channel] = FALSE]
                  /\ at' = IF psunvalley_cloud_id[channel] = NoId THEN "dialing" ELSE "closing"
                  /\ UNCHANGED <<due, channel, fresh, psunvalley_cloud_id, pcloudflag, pcloudctrl>>
                  /\ UNCHANGED <<runVars, recVars, conn, last>>

\* The old connection is closed, unless the SDK is uninitialised: then the call
\* fails at once.
Attempt == /\ at = "looking" /\ ToConnect(channel)
           /\ due' = [due EXCEPT ![channel] = FALSE]
           /\ pcloudrecheck' = [pcloudrecheck EXCEPT ![channel] = FALSE]
           /\ \/ /\ Calls(psunvalley_cloud_id[channel])
                 /\ at' = "closing" /\ UNCHANGED psunvalley_cloud_id
              \/ /\ ~Calls(psunvalley_cloud_id[channel]) /\ at' = "dialing"
                 /\ psunvalley_cloud_id' = [psunvalley_cloud_id EXCEPT ![channel] = NoId]
           /\ UNCHANGED <<channel, fresh, pcloudflag, pcloudctrl>>
           /\ UNCHANGED <<runVars, recVars, conn, last>>

\* SVPush_API_Close returns when the muxer thread has ended.
CloseOld == LET old == psunvalley_cloud_id[channel] IN
  /\ at = "closing" /\ conn[old] = "ended"
  /\ conn' = [conn EXCEPT ![old] = "closed"]
  /\ psunvalley_cloud_id' = [psunvalley_cloud_id EXCEPT ![channel] = NoId]
  /\ at' = "dialing"
  /\ UNCHANGED <<due, channel, fresh, pcloudflag, pcloudctrl, pcloudrecheck>>
  /\ UNCHANGED <<runVars, recVars, last>>

\* SVPush_API_Connect and its variants, with the manager's lock.
Dial == /\ at = "dialing" /\ sdk /\ Opened < MaxIds
        /\ fresh' = Opened + 1
        /\ conn' = [conn EXCEPT ![Opened + 1] = "opening"]
        /\ at' = "connecting"
        /\ UNCHANGED <<due, channel, runVars, flags, recVars, last>>

\* The call fails, at once or at the server, and the round is broken off; its
\* events name a connection that no channel has.
ConnectFails == /\ at = "connecting" \/ (at = "dialing" /\ (~sdk \/ Opened = MaxIds))
                /\ conn' = [i \in Ids |-> IF i = fresh THEN "closed" ELSE conn[i]]
                /\ psunvalley_cloud_id' = [psunvalley_cloud_id EXCEPT ![channel] = NoId]
                /\ fresh' = NoId
                /\ at' = "broken"
                /\ UNCHANGED <<due, channel, pcloudflag, pcloudctrl, pcloudrecheck>>
                /\ UNCHANGED <<runVars, recVars, last>>

ConnectSucceeds == /\ at = "connecting"
                   /\ conn' = [conn EXCEPT ![fresh] = "live"]
                   /\ at' = "connected"
                   /\ UNCHANGED <<due, channel, fresh, runVars, flags, recVars, last>>

InLoop(c) == rec[c] \in {"looping", "deciding", "overdue", "sending"}

\* The call has returned: the id, the flag and the pause are three stores.
AssignId == /\ at = "connected"
            /\ LeavesInTime => ~InLoop(channel)
            /\ psunvalley_cloud_id' = [psunvalley_cloud_id EXCEPT ![channel] = fresh]
            /\ at' = "flagging"
            /\ UNCHANGED <<due, channel, fresh, pcloudflag, pcloudctrl, pcloudrecheck>>
            /\ UNCHANGED <<runVars, recVars, conn, last>>

SetFlag == /\ at = "flagging"
           /\ pcloudflag' = [pcloudflag EXCEPT ![channel] = TRUE]
           /\ at' = "unpausing"
           /\ UNCHANGED <<due, channel, fresh, psunvalley_cloud_id, pcloudctrl, pcloudrecheck>>
           /\ UNCHANGED <<runVars, recVars, conn, last>>

ClearCtrl == /\ at = "unpausing"
             /\ pcloudctrl' = [pcloudctrl EXCEPT ![channel] = FALSE]
             /\ fresh' = NoId
             /\ NextChannel("looking")
             /\ UNCHANGED <<due, psunvalley_cloud_id, pcloudflag, pcloudrecheck>>
             /\ UNCHANGED <<runVars, recVars, conn, last>>

LastOrNext == IF channel < NChannels THEN channel' = channel + 1 /\ at' = "leaving"
                                     ELSE at' = "uninit" /\ UNCHANGED channel

\* mutant: a paused channel is not closed at the end
CloseUnpaused == /\ at = "leaving"
                 /\ IF Calls(psunvalley_cloud_id[channel]) /\ ~pcloudctrl[channel]
                    THEN at' = "finishing" /\ UNCHANGED channel ELSE LastOrNext
                 /\ UNCHANGED <<due, fresh, runVars, flags, recVars, conn, last>>

\* After the loop every channel is closed.
CloseAll == /\ at = "leaving"
            /\ IF Calls(psunvalley_cloud_id[channel])
               THEN at' = "finishing" /\ UNCHANGED channel ELSE LastOrNext
            /\ UNCHANGED <<due, fresh, runVars, flags, recVars, conn, last>>

CloseAllReturns == LET old == psunvalley_cloud_id[channel] IN
  /\ at = "finishing" /\ conn[old] = "ended"
  /\ conn' = [conn EXCEPT ![old] = "closed"]
  /\ LastOrNext
  /\ UNCHANGED <<due, fresh, runVars, flags, recVars, last>>

\* SVPush_API_UnInitialize of the cloud thread, which has closed what there was.
CloudUnInitialize == /\ at = "uninit"
                     /\ at' = "done" /\ sdk' = FALSE
                     /\ UNCHANGED <<due, channel, fresh, g_running, main>>
                     /\ UNCHANGED <<flags, recVars, conn, last>>

-----------------------------------------------------------------------------
(* The sender of channel c.  A call waits while the cloud thread is in a   *)
(* call, and looks up the id it reads.                                     *)

\* mutant: the last Close does not unlock
NeverUnlocked == at \notin {"closing", "connecting", "finishing", "uninit", "done"}

LockFree == at \notin {"closing", "connecting", "finishing"}

\* A message takes the manager's lock, while there is a manager.  The code reads
\* the id, the argument of the call, before it waits for the lock; here it is read
\* when the lock is free.  A channel gets a new id only after the lock was free, so
\* the call with the id of before, which finds that id closed, is in the model too.
Tells == sdk => LockFree
Tell(c, message) == /\ Tells
                    /\ last' = [i \in Ids |-> IF i = psunvalley_cloud_id[c] /\ sdk /\ InTable(i)
                                              THEN message ELSE last[i]]

RecBegins(c) == /\ rec[c] = "waiting" /\ g_running /\ pcloudflag[c] /\ precstart[c]
                /\ rec' = [rec EXCEPT ![c] = "starting"]
                /\ UNCHANGED <<precstart, start, packet, random>>
                /\ UNCHANGED <<runVars, flags, cloudVars, conn, last>>

\* mutant: the packets follow without a STREAM_START
StartSilently(c) == /\ rec[c] = "starting"
                    /\ rec' = [rec EXCEPT ![c] = "looping"]
                    /\ start' = [start EXCEPT ![c] = 1]
                    /\ packet' = [packet EXCEPT ![c] = "none"]
                    /\ UNCHANGED <<precstart, random, runVars, flags, cloudVars, conn, last>>

\* STREAM_START and the parameter sets
SendStart(c) == /\ rec[c] = "starting"
                /\ Tell(c, "start")
                /\ rec' = [rec EXCEPT ![c] = "looping"]
                /\ start' = [start EXCEPT ![c] = 1]
                /\ packet' = [packet EXCEPT ![c] = "none"]
                /\ UNCHANGED <<precstart, random, runVars, flags, cloudVars, conn>>

\* Audio packets fare as the video frames that are not key frames do.
Kinds == {"key", "delta"}

\* The next packet is read, unless one has been kept; its time comes.
ReadPacket(c) == /\ rec[c] = "looping" /\ g_running /\ pcloudflag[c]
                 /\ \E k \in IF packet[c] = "none" THEN Kinds ELSE {packet[c]} :
                      packet' = [packet EXCEPT ![c] = k]
                 /\ rec' = [rec EXCEPT ![c] = "deciding"]
                 /\ UNCHANGED <<precstart, start, random>>
                 /\ UNCHANGED <<runVars, flags, cloudVars, conn, last>>

\* The program stops, the connection has ended, or the record is at its end.
LeaveLoop(c) == /\ rec[c] = "looping"
                /\ ~g_running \/ ~pcloudflag[c] \/ packet[c] = "none"
                /\ rec' = [rec EXCEPT ![c] = "ending"]
                /\ UNCHANGED <<precstart, start, packet, random>>
                /\ UNCHANGED <<runVars, flags, cloudVars, conn, last>>

\* start = 2: the packet is counted as lost, and kept.
Skip(c) == /\ rec[c] = "deciding" /\ start[c] = 2 /\ packet[c] # "key"
           /\ rec' = [rec EXCEPT ![c] = "looping"]
           /\ UNCHANGED <<precstart, start, packet, random>>
           /\ UNCHANGED <<runVars, flags, cloudVars, conn, last>>

\* A key frame: STREAM_DROP_FRAME, and on with it.
Restart(c) == /\ rec[c] = "deciding" /\ start[c] = 2 /\ packet[c] = "key"
              /\ Tells
              /\ start' = [start EXCEPT ![c] = 1]
              /\ UNCHANGED <<precstart, rec, packet, random, runVars, flags, cloudVars, conn, last>>

\* At most 15 times 200 ms are waited; a pause that ends with the last of them
\* counts as one that did not.
Wait(c) == /\ rec[c] = "deciding" /\ start[c] = 1
           /\ \/ ~pcloudctrl[c] /\ rec' = [rec EXCEPT ![c] = "sending"]
              \/ pcloudctrl[c] /\ rec' = [rec EXCEPT ![c] = "overdue"]
           /\ UNCHANGED <<precstart, start, packet, random>>
           /\ UNCHANGED <<runVars, flags, cloudVars, conn, last>>

GiveUpWaiting(c) == /\ rec[c] = "overdue"
                    /\ rec' = [rec EXCEPT ![c] = "looping"]
                    /\ start' = [start EXCEPT ![c] = 2]
                    /\ UNCHANGED <<precstart, packet, random>>
                    /\ UNCHANGED <<runVars, flags, cloudVars, conn, last>>

\* SVPush_API_Send_Packet, which may tell PAUSE_MEDIA_PUSH before it returns.
SendPacket(c) == /\ rec[c] = "sending"
                 /\ Tell(c, "media")
                 /\ \/ UNCHANGED pcloudctrl
                    \/ /\ sdk /\ InTable(psunvalley_cloud_id[c])
                       /\ pcloudctrl' = [pcloudctrl EXCEPT ![c] = TRUE]
                 /\ rec' = [rec EXCEPT ![c] = "looping"]
                 /\ packet' = [packet EXCEPT ![c] = "none"]
                 /\ UNCHANGED <<psunvalley_cloud_id, pcloudflag, pcloudrecheck>>
                 /\ UNCHANGED <<precstart, start, random, runVars, cloudVars, conn>>

\* TIGGER_TYPE_CHANGE and STREAM_END, each to the connection of the moment.
SendChange(c) == /\ rec[c] = "ending"
                 /\ Tells
                 /\ rec' = [rec EXCEPT ![c] = "closing"]
                 /\ UNCHANGED <<precstart, start, packet, random>>
                 /\ UNCHANGED <<runVars, flags, cloudVars, conn, last>>

SendEnd(c) == /\ rec[c] = "closing"
              /\ Tell(c, "end")
              /\ rec' = [rec EXCEPT ![c] = "waiting"]
              /\ precstart' = [precstart EXCEPT ![c] = FALSE]
              /\ UNCHANGED <<start, packet, random, runVars, flags, cloudVars, conn>>

-----------------------------------------------------------------------------
\* The trigger looks, sleeps for a random time and starts the sender.
Arm(c) == /\ c \in Triggered
          /\ random[c] = "idle" /\ g_running /\ ~precstart[c] /\ pcloudflag[c]
          /\ random' = [random EXCEPT ![c] = "armed"]
          /\ UNCHANGED <<precstart, rec, start, packet>>
          /\ UNCHANGED <<runVars, flags, cloudVars, conn, last>>

Fire(c) == /\ random[c] = "armed"
           /\ random' = [random EXCEPT ![c] = "idle"]
           /\ precstart' = [precstart EXCEPT ![c] = TRUE]
           /\ UNCHANGED <<rec, start, packet>>
           /\ UNCHANGED <<runVars, flags, cloudVars, conn, last>>

\* A signal, or a sender that ends.
Stop == /\ g_running
        /\ g_running' = FALSE
        /\ UNCHANGED <<main, sdk, flags, cloudVars, recVars, conn, last>>

-----------------------------------------------------------------------------
(* main, once it sees that the program stops and has slept for a second: it*)
(* uninitialises the SDK, unless the cloud thread has, frees the arrays and*)
(* ends the process.                                                       *)

\* mutant: the arrays go first
FreeFirst == /\ main = "running" /\ ~g_running
             /\ main' = "over" /\ sdk' = FALSE
             /\ UNCHANGED <<g_running, flags, cloudVars, recVars, conn, last>>

MainUnInitialize == /\ main = "running" /\ ~g_running
                    /\ main' = IF sdk THEN "waiting" ELSE "over"
                    /\ sdk' = FALSE
                    /\ UNCHANGED <<g_running, flags, cloudVars, recVars, conn, last>>

\* The destructor of the manager tries for the lock until it gets it, and closes
\* the connections one by one.
Destroy == /\ main = "waiting" /\ LockFree
           /\ main' = "destroying"
           /\ UNCHANGED <<g_running, sdk, flags, cloudVars, recVars, conn, last>>

DestroyNext(i) == /\ main = "destroying"
                  /\ InTable(i) /\ \A j \in Ids : InTable(j) => i <= j
                  /\ conn[i] = "ended"
                  /\ conn' = [conn EXCEPT ![i] = "closed"]
                  /\ UNCHANGED <<runVars, flags, cloudVars, recVars, last>>

\* destroy_demo, and the return from main.
Return == /\ main = "destroying" /\ \A i \in Ids : ~InTable(i)
          /\ main' = "over"
          /\ UNCHANGED <<g_running, sdk, flags, cloudVars, recVars, conn, last>>

-----------------------------------------------------------------------------
CloudStep == /\ main # "over"
             /\ \/ RoundBegins \/ PassBy \/ Attempt \/ CloseOld
                \/ Dial \/ ConnectFails \/ ConnectSucceeds
                \/ AssignId \/ SetFlag \/ ClearCtrl
                \/ CloseAll \/ CloseAllReturns \/ CloudUnInitialize

RecStep(c) == /\ main # "over"
              /\ \/ RecBegins(c) \/ SendStart(c) \/ ReadPacket(c) \/ LeaveLoop(c)
                 \/ Skip(c) \/ Restart(c) \/ Wait(c) \/ GiveUpWaiting(c)
                 \/ SendPacket(c) \/ SendChange(c) \/ SendEnd(c)

MainStep == \/ MainUnInitialize \/ Destroy \/ (\E i \in Ids : DestroyNext(i)) \/ Return

\* The process ends when main returns.
Next == \/ CloudStep
        \/ \E c \in Channels : RecStep(c)
        \/ MainStep
        \/ /\ main # "over"
           /\ \/ \E c \in Channels : Elapse(c) \/ Arm(c) \/ Fire(c)
              \/ \E i \in Ids : ConnEnds(i) \/ ConnResumes(i)
              \/ Stop

Spec == Init /\ [][Next]_vars

\* Being closed: the muxer thread of a connection is asked to end, and does.
Closing(i) == \/ at \in {"closing", "finishing"} /\ psunvalley_cloud_id[channel] = i
              \/ main = "destroying" /\ \A j \in Ids : InTable(j) => i <= j

\* The threads run, time passes, Close ends the muxer thread.  Nothing makes a
\* connection fail or resume, the trigger fire or the program stop.
FairSpec == /\ Spec
            /\ WF_vars(CloudStep) /\ WF_vars(MainStep)
            /\ \A c \in Channels : WF_vars(RecStep(c)) /\ SF_vars(main # "over" /\ Elapse(c))
            /\ \A i \in Ids : WF_vars(main # "over" /\ Closing(i) /\ ConnEnds(i))

-----------------------------------------------------------------------------
(* What is checked.                                                        *)

TypeOK == /\ g_running \in BOOLEAN
          /\ psunvalley_cloud_id \in [Channels -> Ids \cup {NoId}]
          /\ {pcloudflag, pcloudctrl, pcloudrecheck, precstart, due}
               \subseteq [Channels -> BOOLEAN]
          /\ at \in {"round", "broken", "looking", "closing", "dialing", "connecting",
                     "connected", "flagging", "unpausing", "leaving", "finishing",
                     "uninit", "done"}
          /\ main \in {"running", "waiting", "destroying", "over"} /\ sdk \in BOOLEAN
          /\ channel \in Channels /\ fresh \in Ids \cup {NoId}
          /\ conn \in [Ids -> {"none", "opening", "live", "ended", "closed"}]
          /\ rec \in [Channels -> {"waiting", "starting", "looping", "deciding", "overdue",
                                   "sending", "ending", "closing"}]
          /\ start \in [Channels -> {1, 2}]
          /\ packet \in [Channels -> Kinds \cup {"none"}]
          /\ random \in [Channels -> {"idle", "armed"}]
          /\ last \in [Ids -> {"none", "start", "media", "end"}]

\* Every connection in the manager's table belongs to one channel, or is being
\* handed over to one: none is lost, to hold its place in the table for ever.
NoOrphan == /\ sdk => \A i \in Ids : InTable(i) /\ i # fresh
                 => \E c \in Channels : psunvalley_cloud_id[c] = i
            /\ \A c, d \in Channels : psunvalley_cloud_id[c] = psunvalley_cloud_id[d]
                 => c = d \/ psunvalley_cloud_id[c] = NoId

\* A channel that is flagged as connected is: the cloud thread passes it by, so
\* an end that is not noticed is never repaired.
FlaggedIsLive == \A c \in Channels : pcloudflag[c]
  => psunvalley_cloud_id[c] \in Ids /\ conn[psunvalley_cloud_id[c]] = "live"

\* When the SDK is uninitialised, by the cloud thread or by main, whoever comes
\* first, no connection is left to it.  So no callback finds the arrays freed.
AllClosed == main = "over" \/ (at = "done" /\ main = "running")
               => \A i \in Ids : conn[i] \in {"none", "closed"}

\* Once the program is to stop it does, though main waits for a lock that is held
\* while the end of a muxer thread is awaited.
Ends == ~g_running ~> main = "over"

\* isvpush.h: the data sequence begins with the parameter sets.  Media is sent
\* on a connection only after its STREAM_START.
MediaAfterStart == [][\A i \in Ids : last'[i] = "media"
                                       => last[i] \in {"start", "media"}]_vars

\* A channel that is not connected is connected again, or tried.
Retries == \A c \in Channels :
  g_running /\ ~pcloudflag[c]
    ~> ~g_running \/ pcloudflag[c] \/ (channel = c /\ at \in {"dialing", "closing"})

\* isvpush.h: RESUME_MEDIA_PUSH is "Start media push".  A sender that waits for
\* a key frame and is not paused comes to one, or to the end of its record.
ResumedSends == \A c \in Channels :
  InLoop(c) /\ start[c] = 2 /\ ~pcloudctrl[c]
    ~> start[c] = 1 \/ pcloudctrl[c] \/ ~InLoop(c) \/ main = "over"
=============================================================================
