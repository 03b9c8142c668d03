-------------------------- MODULE CloudChannelProofs --------------------------
(***************************************************************************)
(* What holds of CloudChannel for every number of channels and whatever    *)
(* becomes of its assumptions on time, two theorems apart: FlaggedIsLive   *)
(* needs FlaggedInTime, MediaAfterStart needs LeavesInTime.                *)
(*                                                                         *)
(* The argument: a connection is handed over from the cloud thread (fresh) *)
(* to a channel that has none, so what is in the table is named by one     *)
(* channel or is fresh; and nothing is opened once the SDK is uninitialised*)
(* so that whoever closes last, the cloud thread or main, closes all.      *)
(***************************************************************************)
EXTENDS CloudChannel, FiniteSetTheorems, TLAPS

\* What the invariant is about.
core == <<main, sdk, at, channel, fresh, conn, psunvalley_cloud_id, pcloudflag>>

\* The connection being opened and handed over.
Handed ==
  /\ fresh # NoId <=> at \in {"connecting", "connected", "flagging", "unpausing"}
  /\ at = "connecting" => conn[fresh] = "opening"
  /\ at = "connected" => conn[fresh] \in {"live", "ended", "closed"}
  /\ at \in {"dialing", "connecting", "connected"} => psunvalley_cloud_id[channel] = NoId
  /\ at \in {"connecting", "connected"} => \A c \in Channels : psunvalley_cloud_id[c] # fresh
  /\ at \in {"flagging", "unpausing"} => psunvalley_cloud_id[channel] = fresh
  /\ at \in {"closing", "finishing"} => psunvalley_cloud_id[channel] \in Ids
  /\ \A i \in Ids : conn[i] = "opening" => at = "connecting" /\ i = fresh

\* Ids are drawn in turn, and a channel's is that of a connection that was opened.
Drawn == /\ \E n \in 0 .. MaxIds : \A i \in Ids : conn[i] = "none" <=> i > n
         /\ \A c \in Channels : psunvalley_cloud_id[c] # NoId
              => conn[psunvalley_cloud_id[c]] \in {"live", "ended", "closed"}

\* A channel is flagged between SetFlag and the end of its connection.
Flagged ==
  /\ \A c \in Channels : FlaggedInTime /\ pcloudflag[c]
       => psunvalley_cloud_id[c] \in Ids /\ conn[psunvalley_cloud_id[c]] = "live"
  /\ FlaggedInTime /\ at \in {"closing", "dialing", "connecting", "connected"}
       => ~pcloudflag[channel]
  /\ FlaggedInTime /\ at \in {"connected", "flagging", "unpausing"} => conn[fresh] = "live"

\* The end of the program, from the cloud thread's side and from main's.
NoneLeft == \A i \in Ids : conn[i] \in {"none", "closed"}
Ended ==
  /\ sdk => main = "running" /\ at # "done"
  /\ ~sdk /\ main = "running" => at = "done"
  /\ at = "done" /\ main = "running" => NoneLeft
  /\ sdk /\ at \in {"leaving", "finishing"}
       => \A c \in Channels : c < channel => ~InTable(psunvalley_cloud_id[c])
  /\ sdk /\ at = "uninit" => \A c \in Channels : ~InTable(psunvalley_cloud_id[c])
  /\ main = "destroying" => at # "connecting"
  /\ main = "over" => NoneLeft

IInv == TypeOK /\ Handed /\ Drawn /\ NoOrphan /\ Flagged /\ Ended

-----------------------------------------------------------------------------
(* The types.                                                              *)

LEMMA OpenedType ==
  ASSUME TypeOK
  PROVE  Opened \in Nat
<1>1. IsFiniteSet(Ids)
  BY FS_Interval, MaxIdsAssumption DEF Ids
<1>2. IsFiniteSet({i \in Ids : conn[i] # "none"})
  BY <1>1, FS_Subset
<1> QED
  BY <1>2, FS_CardinalityType DEF Opened

LEMMA ChannelTypes ==
  /\ Channels \subseteq Nat /\ 1 \in Channels /\ NChannels \in Channels
  /\ \A c \in Channels : c < NChannels => c + 1 \in Channels
  /\ \A c \in Channels : c <= NChannels /\ c >= 1
  /\ Ids \subseteq Nat /\ NoId \notin Ids /\ \A i \in Ids : i >= 1 /\ i <= MaxIds
BY NChannelsAssumption, MaxIdsAssumption DEF Channels, Ids, NoId

LEMMA TypeKept ==
  ASSUME TypeOK, [Next]_vars
  PROVE  TypeOK'
<1> USE DEF TypeOK, runVars, flags, cloudVars, recVars, vars
<1>1. ASSUME NEW i \in Ids, ConnEnds(i) PROVE TypeOK'
  <2>1. {pcloudflag', pcloudctrl', pcloudrecheck'} \subseteq [Channels -> BOOLEAN]
    BY <1>1, ZenonT(60) DEF ConnEnds, CallbackEnd, SetFor
  <2>2. UNCHANGED <<psunvalley_cloud_id, precstart, due>>
    BY <1>1 DEF ConnEnds, CallbackEnd
  <2>3. {pcloudflag, pcloudctrl, pcloudrecheck, precstart, due}' \subseteq [Channels -> BOOLEAN]
    BY <2>1, <2>2
  <2> QED
    BY <1>1, <2>2, <2>3 DEF ConnEnds
<1>2. ASSUME NEW i \in Ids, ConnResumes(i) PROVE TypeOK'
  <2>1. pcloudctrl' \in [Channels -> BOOLEAN]
    BY <1>2 DEF ConnResumes, SetFor
  <2>2. UNCHANGED <<pcloudflag, pcloudrecheck, precstart, due>>
    BY <1>2 DEF ConnResumes
  <2>3. {pcloudflag, pcloudctrl, pcloudrecheck, precstart, due}' \subseteq [Channels -> BOOLEAN]
    BY <2>1, <2>2
  <2> QED
    BY <1>2, <2>3 DEF ConnResumes
<1>3. ASSUME RoundBegins PROVE TypeOK'
  BY <1>3, ChannelTypes DEF RoundBegins
<1>4. ASSUME PassBy PROVE TypeOK'
  BY <1>4, ChannelTypes DEF PassBy, NextChannel
<1>5. ASSUME Attempt PROVE TypeOK'
  BY <1>5 DEF Attempt
<1>6. ASSUME CloseOld PROVE TypeOK'
  BY <1>6 DEF CloseOld
<1>7. ASSUME Dial PROVE TypeOK'
  <2>1. Opened + 1 \in Ids
    BY <1>7, OpenedType, MaxIdsAssumption DEF Dial, Ids
  <2> QED
    BY <1>7, <2>1 DEF Dial
<1>8. ASSUME ConnectFails PROVE TypeOK'
  BY <1>8 DEF ConnectFails
<1>9. ASSUME ConnectSucceeds PROVE TypeOK'
  BY <1>9 DEF ConnectSucceeds
<1>10. ASSUME AssignId PROVE TypeOK'
  BY <1>10 DEF AssignId
<1>11. ASSUME SetFlag PROVE TypeOK'
  BY <1>11 DEF SetFlag
<1>12. ASSUME ClearCtrl PROVE TypeOK'
  BY <1>12, ChannelTypes DEF ClearCtrl, NextChannel
<1>13. ASSUME CloseAll PROVE TypeOK'
  BY <1>13, ChannelTypes DEF CloseAll, LastOrNext
<1>14. ASSUME CloseAllReturns PROVE TypeOK'
  BY <1>14, ChannelTypes DEF CloseAllReturns, LastOrNext
<1>15. ASSUME CloudUnInitialize PROVE TypeOK'
  BY <1>15 DEF CloudUnInitialize
<1>16. ASSUME NEW c \in Channels, RecBegins(c) PROVE TypeOK'
  BY <1>16 DEF RecBegins
<1>17. ASSUME NEW c \in Channels, SendStart(c) PROVE TypeOK'
  BY <1>17 DEF SendStart, Tell
<1>18. ASSUME NEW c \in Channels, ReadPacket(c) PROVE TypeOK'
  BY <1>18 DEF ReadPacket, Kinds
<1>19. ASSUME NEW c \in Channels, LeaveLoop(c) PROVE TypeOK'
  BY <1>19 DEF LeaveLoop
<1>20. ASSUME NEW c \in Channels, Skip(c) PROVE TypeOK'
  BY <1>20 DEF Skip
<1>21. ASSUME NEW c \in Channels, Restart(c) PROVE TypeOK'
  BY <1>21 DEF Restart
<1>22. ASSUME NEW c \in Channels, Wait(c) PROVE TypeOK'
  BY <1>22 DEF Wait
<1>23. ASSUME NEW c \in Channels, GiveUpWaiting(c) PROVE TypeOK'
  BY <1>23 DEF GiveUpWaiting
<1>24. ASSUME NEW c \in Channels, SendPacket(c) PROVE TypeOK'
  <2>1. pcloudctrl' \in [Channels -> BOOLEAN]
    BY <1>24 DEF SendPacket
  <2>2. last' \in [Ids -> {"none", "start", "media", "end"}]
    BY <1>24 DEF SendPacket, Tell
  <2>3. UNCHANGED <<pcloudflag, pcloudrecheck, precstart, due>>
    BY <1>24 DEF SendPacket
  <2>4. {pcloudflag, pcloudctrl, pcloudrecheck, precstart, due}' \subseteq [Channels -> BOOLEAN]
    BY <2>1, <2>3
  <2> QED
    BY <1>24, <2>2, <2>4 DEF SendPacket
<1>25. ASSUME NEW c \in Channels, SendChange(c) PROVE TypeOK'
  BY <1>25 DEF SendChange
<1>26. ASSUME NEW c \in Channels, SendEnd(c) PROVE TypeOK'
  BY <1>26 DEF SendEnd, Tell
<1>27. ASSUME NEW c \in Channels, Elapse(c) PROVE TypeOK'
  BY <1>27 DEF Elapse
<1>28. ASSUME NEW c \in Channels, Arm(c) PROVE TypeOK'
  BY <1>28 DEF Arm
<1>29. ASSUME NEW c \in Channels, Fire(c) PROVE TypeOK'
  BY <1>29 DEF Fire
<1>30. ASSUME NEW i \in Ids, DestroyNext(i) PROVE TypeOK'
  BY <1>30 DEF DestroyNext
<1>31. ASSUME MainUnInitialize PROVE TypeOK'
  BY <1>31 DEF MainUnInitialize
<1>32. ASSUME Destroy PROVE TypeOK'
  BY <1>32 DEF Destroy
<1>33. ASSUME Return PROVE TypeOK'
  BY <1>33 DEF Return
<1>34. ASSUME Stop PROVE TypeOK'
  BY <1>34 DEF Stop
<1>35. ASSUME UNCHANGED vars PROVE TypeOK'
  BY <1>35
<1> QED
  BY <1>1, <1>2, <1>3, <1>4, <1>5, <1>6, <1>7, <1>8, <1>9, <1>10, <1>11,
     <1>12, <1>13, <1>14, <1>15, <1>16, <1>17, <1>18, <1>19, <1>20, <1>21,
     <1>22, <1>23, <1>24, <1>25, <1>26, <1>27, <1>28, <1>29, <1>30, <1>31,
     <1>32, <1>33, <1>34, <1>35
  DEF Next, CloudStep, RecStep, MainStep

-----------------------------------------------------------------------------
(* The steps that leave the connections and the cloud thread alone.        *)

LEMMA CoreSame ==
  ASSUME Handed, Drawn, NoOrphan, Flagged, Ended, UNCHANGED core
  PROVE  Handed' /\ Drawn' /\ NoOrphan' /\ Flagged' /\ Ended'
<1> USE DEF core
<1>1. Handed'
  BY DEF Handed
<1>2. Drawn'
  BY DEF Drawn
<1>3. NoOrphan'
  BY DEF NoOrphan, InTable
<1>4. Flagged'
  BY DEF Flagged
<1>5. Ended'
  BY DEF Ended, NoneLeft, InTable
<1> QED
  BY <1>1, <1>2, <1>3, <1>4, <1>5

LEMMA OutsideCore ==
  ASSUME TypeOK
  PROVE  /\ \A i \in Ids : ConnResumes(i) => UNCHANGED core
         /\ \A c \in Channels : RecStep(c) \/ Elapse(c) \/ Arm(c) \/ Fire(c) => UNCHANGED core
         /\ Stop \/ UNCHANGED vars => UNCHANGED core
<1> USE DEF core, runVars, flags, cloudVars, recVars, vars
<1>1. ASSUME NEW i \in Ids, ConnResumes(i) PROVE UNCHANGED core
  BY <1>1 DEF ConnResumes
<1>2. ASSUME NEW c \in Channels, RecStep(c) PROVE UNCHANGED core
  BY <1>2 DEF RecStep, RecBegins, SendStart, ReadPacket, LeaveLoop, Skip, Restart, Wait,
              GiveUpWaiting, SendPacket, SendChange, SendEnd
<1>3. ASSUME NEW c \in Channels, Elapse(c) \/ Arm(c) \/ Fire(c) PROVE UNCHANGED core
  BY <1>3 DEF Elapse, Arm, Fire
<1>4. ASSUME Stop \/ UNCHANGED vars PROVE UNCHANGED core
  BY <1>4 DEF Stop
<1> QED
  BY <1>1, <1>2, <1>3, <1>4

LEMMA ConnEndsStep ==
  ASSUME IInv, NEW i \in Ids, ConnEnds(i)
  PROVE  Handed' /\ Drawn' /\ NoOrphan' /\ Flagged' /\ Ended'
<1> USE ChannelTypes DEF IInv, TypeOK, runVars, flags, cloudVars, recVars, vars
<1>1. Handed'
  BY DEF Handed, ConnEnds, CallbackEnd
<1>2. Drawn'
  BY DEF Drawn, ConnEnds, CallbackEnd
<1>3. NoOrphan'
  BY DEF NoOrphan, InTable, ConnEnds, CallbackEnd
<1>4. Flagged'
  BY DEF Flagged, ConnEnds, CallbackEnd, SetFor
<1>5. Ended'
  BY DEF Ended, NoneLeft, InTable, ConnEnds, CallbackEnd
<1> QED
  BY <1>1, <1>2, <1>3, <1>4, <1>5

LEMMA RoundBeginsStep ==
  ASSUME IInv, RoundBegins
  PROVE  Handed' /\ Drawn' /\ NoOrphan' /\ Flagged' /\ Ended'
<1> USE ChannelTypes DEF IInv, TypeOK, runVars, flags, cloudVars, recVars, vars
<1>1. Handed'
  BY DEF Handed, RoundBegins
<1>2. Drawn'
  BY DEF Drawn, RoundBegins
<1>3. NoOrphan'
  BY DEF NoOrphan, InTable, RoundBegins
<1>4. Flagged'
  BY DEF Flagged, RoundBegins
<1>5. Ended'
  BY DEF Ended, NoneLeft, RoundBegins
<1> QED
  BY <1>1, <1>2, <1>3, <1>4, <1>5

LEMMA PassByStep ==
  ASSUME IInv, PassBy
  PROVE  Handed' /\ Drawn' /\ NoOrphan' /\ Flagged' /\ Ended'
<1> USE ChannelTypes DEF IInv, TypeOK, runVars, flags, cloudVars, recVars, vars
<1>1. Handed'
  BY DEF Handed, PassBy, NextChannel
<1>2. Drawn'
  BY DEF Drawn, PassBy
<1>3. NoOrphan'
  BY DEF NoOrphan, InTable, PassBy
<1>4. Flagged'
  BY DEF Flagged, PassBy, NextChannel
<1>5. Ended'
  BY DEF Ended, NoneLeft, PassBy, NextChannel
<1> QED
  BY <1>1, <1>2, <1>3, <1>4, <1>5

LEMMA AttemptStep ==
  ASSUME IInv, Attempt
  PROVE  Handed' /\ Drawn' /\ NoOrphan' /\ Flagged' /\ Ended'
<1> USE ChannelTypes DEF IInv, TypeOK, runVars, flags, cloudVars, recVars, vars
<1>1. Handed'
  BY DEF Handed, Attempt, Calls
<1>2. Drawn'
  BY DEF Drawn, Attempt
<1>3. NoOrphan'
  BY DEF NoOrphan, InTable, Attempt, Calls
<1>4. Flagged'
  BY DEF Flagged, Attempt, ToConnect
<1>5. Ended'
  BY DEF Ended, NoneLeft, Attempt
<1> QED
  BY <1>1, <1>2, <1>3, <1>4, <1>5

LEMMA CloseOldStep ==
  ASSUME IInv, CloseOld
  PROVE  Handed' /\ Drawn' /\ NoOrphan' /\ Flagged' /\ Ended'
<1> USE ChannelTypes DEF IInv, TypeOK, runVars, flags, cloudVars, recVars, vars
<1>1. Handed'
  BY DEF Handed, CloseOld
<1>2. Drawn'
  BY DEF Drawn, CloseOld
<1>3. NoOrphan'
  BY DEF NoOrphan, InTable, CloseOld
<1>4. Flagged'
  BY DEF Flagged, CloseOld
<1>5. Ended'
  BY DEF Ended, NoneLeft, CloseOld
<1> QED
  BY <1>1, <1>2, <1>3, <1>4, <1>5

LEMMA ConnectFailsStep ==
  ASSUME IInv, ConnectFails
  PROVE  Handed' /\ Drawn' /\ NoOrphan' /\ Flagged' /\ Ended'
<1> USE ChannelTypes DEF IInv, TypeOK, runVars, flags, cloudVars, recVars, vars
<1>1. Handed'
  BY DEF Handed, ConnectFails
<1>2. Drawn'
  BY DEF Handed, Drawn, ConnectFails
<1>3. NoOrphan'
  BY DEF Handed, NoOrphan, InTable, ConnectFails
<1>4. Flagged'
  BY DEF Handed, Flagged, ConnectFails
<1>5. Ended'
  BY DEF Ended, NoneLeft, ConnectFails
<1> QED
  BY <1>1, <1>2, <1>3, <1>4, <1>5

LEMMA ConnectSucceedsStep ==
  ASSUME IInv, ConnectSucceeds
  PROVE  Handed' /\ Drawn' /\ NoOrphan' /\ Flagged' /\ Ended'
<1> USE ChannelTypes DEF IInv, TypeOK, runVars, flags, cloudVars, recVars, vars
<1>1. Handed'
  BY DEF Handed, ConnectSucceeds
<1>2. Drawn'
  BY DEF Handed, Drawn, ConnectSucceeds
<1>3. NoOrphan'
  BY DEF NoOrphan, InTable, ConnectSucceeds
<1>4. Flagged'
  BY DEF Handed, Flagged, ConnectSucceeds
<1>5. Ended'
  BY DEF Handed, Ended, NoneLeft, ConnectSucceeds
<1> QED
  BY <1>1, <1>2, <1>3, <1>4, <1>5

LEMMA AssignIdStep ==
  ASSUME IInv, AssignId
  PROVE  Handed' /\ Drawn' /\ NoOrphan' /\ Flagged' /\ Ended'
<1> USE ChannelTypes DEF IInv, TypeOK, runVars, flags, cloudVars, recVars, vars
<1>1. Handed'
  BY DEF Handed, AssignId
<1>2. Drawn'
  BY DEF Handed, Drawn, AssignId
<1>3. NoOrphan'
  BY DEF Handed, NoOrphan, InTable, AssignId
<1>4. Flagged'
  BY DEF Flagged, AssignId
<1>5. Ended'
  BY DEF Ended, NoneLeft, AssignId
<1> QED
  BY <1>1, <1>2, <1>3, <1>4, <1>5

LEMMA SetFlagStep ==
  ASSUME IInv, SetFlag
  PROVE  Handed' /\ Drawn' /\ NoOrphan' /\ Flagged' /\ Ended'
<1> USE ChannelTypes DEF IInv, TypeOK, runVars, flags, cloudVars, recVars, vars
<1>1. Handed'
  BY DEF Handed, SetFlag
<1>2. Drawn'
  BY DEF Drawn, SetFlag
<1>3. NoOrphan'
  BY DEF NoOrphan, InTable, SetFlag
<1>4. Flagged'
  BY DEF Handed, Flagged, SetFlag
<1>5. Ended'
  BY DEF Ended, NoneLeft, SetFlag
<1> QED
  BY <1>1, <1>2, <1>3, <1>4, <1>5

LEMMA ClearCtrlStep ==
  ASSUME IInv, ClearCtrl
  PROVE  Handed' /\ Drawn' /\ NoOrphan' /\ Flagged' /\ Ended'
<1> USE ChannelTypes DEF IInv, TypeOK, runVars, flags, cloudVars, recVars, vars
<1>1. Handed'
  BY DEF Handed, ClearCtrl, NextChannel
<1>2. Drawn'
  BY DEF Drawn, ClearCtrl
<1>3. NoOrphan'
  BY DEF Handed, NoOrphan, InTable, ClearCtrl
<1>4. Flagged'
  BY DEF Flagged, ClearCtrl, NextChannel
<1>5. Ended'
  BY DEF Ended, NoneLeft, ClearCtrl, NextChannel
<1> QED
  BY <1>1, <1>2, <1>3, <1>4, <1>5

LEMMA CloseAllStep ==
  ASSUME IInv, CloseAll
  PROVE  Handed' /\ Drawn' /\ NoOrphan' /\ Flagged' /\ Ended'
<1> USE ChannelTypes DEF IInv, TypeOK, runVars, flags, cloudVars, recVars, vars
<1>1. Handed'
  BY DEF Handed, CloseAll, Calls, LastOrNext
<1>2. Drawn'
  BY DEF Drawn, CloseAll
<1>3. NoOrphan'
  BY DEF NoOrphan, InTable, CloseAll
<1>4. Flagged'
  BY DEF Flagged, CloseAll, LastOrNext
<1>5. Ended'
  BY DEF Ended, NoneLeft, InTable, CloseAll, Calls, LastOrNext
<1> QED
  BY <1>1, <1>2, <1>3, <1>4, <1>5

LEMMA CloseAllReturnsStep ==
  ASSUME IInv, CloseAllReturns
  PROVE  Handed' /\ Drawn' /\ NoOrphan' /\ Flagged' /\ Ended'
<1> USE ChannelTypes DEF IInv, TypeOK, runVars, flags, cloudVars, recVars, vars
<1>1. Handed'
  BY DEF Handed, CloseAllReturns, LastOrNext
<1>2. Drawn'
  BY DEF Drawn, CloseAllReturns
<1>3. NoOrphan'
  BY DEF NoOrphan, InTable, CloseAllReturns
<1>4. Flagged'
  BY DEF Flagged, CloseAllReturns, LastOrNext
<1>5. Ended'
  BY DEF Ended, NoneLeft, InTable, CloseAllReturns, LastOrNext
<1> QED
  BY <1>1, <1>2, <1>3, <1>4, <1>5

LEMMA CloudUnInitializeStep ==
  ASSUME IInv, CloudUnInitialize
  PROVE  Handed' /\ Drawn' /\ NoOrphan' /\ Flagged' /\ Ended'
<1> USE ChannelTypes DEF IInv, TypeOK, runVars, flags, cloudVars, recVars, vars
<1>1. Handed'
  BY DEF Handed, CloudUnInitialize
<1>2. Drawn'
  BY DEF Drawn, CloudUnInitialize
<1>3. NoOrphan'
  BY DEF NoOrphan, CloudUnInitialize
<1>4. Flagged'
  BY DEF Flagged, CloudUnInitialize
<1>5. Ended'
  BY DEF Handed, NoOrphan, Ended, NoneLeft, InTable, CloudUnInitialize
<1> QED
  BY <1>1, <1>2, <1>3, <1>4, <1>5

LEMMA MainUnInitializeStep ==
  ASSUME IInv, MainUnInitialize
  PROVE  Handed' /\ Drawn' /\ NoOrphan' /\ Flagged' /\ Ended'
<1> USE ChannelTypes DEF IInv, TypeOK, runVars, flags, cloudVars, recVars, vars
<1>1. Handed'
  BY DEF Handed, MainUnInitialize
<1>2. Drawn'
  BY DEF Drawn, MainUnInitialize
<1>3. NoOrphan'
  BY DEF NoOrphan, MainUnInitialize
<1>4. Flagged'
  BY DEF Flagged, MainUnInitialize
<1>5. Ended'
  BY DEF Ended, NoneLeft, MainUnInitialize
<1> QED
  BY <1>1, <1>2, <1>3, <1>4, <1>5

LEMMA DestroyStep ==
  ASSUME IInv, Destroy
  PROVE  Handed' /\ Drawn' /\ NoOrphan' /\ Flagged' /\ Ended'
<1> USE ChannelTypes DEF IInv, TypeOK, runVars, flags, cloudVars, recVars, vars
<1>1. Handed'
  BY DEF Handed, Destroy
<1>2. Drawn'
  BY DEF Drawn, Destroy
<1>3. NoOrphan'
  BY DEF NoOrphan, InTable, Destroy
<1>4. Flagged'
  BY DEF Flagged, Destroy
<1>5. Ended'
  BY DEF Ended, Destroy, LockFree
<1> QED
  BY <1>1, <1>2, <1>3, <1>4, <1>5

LEMMA DestroyNextStep ==
  ASSUME IInv, NEW i \in Ids, DestroyNext(i)
  PROVE  Handed' /\ Drawn' /\ NoOrphan' /\ Flagged' /\ Ended'
<1> USE ChannelTypes DEF IInv, TypeOK, runVars, flags, cloudVars, recVars, vars
<1>1. Handed'
  BY DEF Handed, DestroyNext
<1>2. Drawn'
  BY DEF Drawn, DestroyNext
<1>3. NoOrphan'
  BY DEF NoOrphan, InTable, DestroyNext
<1>4. Flagged'
  BY DEF Flagged, DestroyNext
<1>5. Ended'
  BY DEF Ended, DestroyNext
<1> QED
  BY <1>1, <1>2, <1>3, <1>4, <1>5

LEMMA ReturnStep ==
  ASSUME IInv, Return
  PROVE  Handed' /\ Drawn' /\ NoOrphan' /\ Flagged' /\ Ended'
<1> USE ChannelTypes DEF IInv, TypeOK, runVars, flags, cloudVars, recVars, vars
<1>1. Handed'
  BY DEF Handed, Return
<1>2. Drawn'
  BY DEF Drawn, Return
<1>3. NoOrphan'
  BY DEF NoOrphan, InTable, Return
<1>4. Flagged'
  BY DEF Flagged, Return
<1>5. Ended'
  BY DEF Handed, Ended, NoneLeft, InTable, Return
<1> QED
  BY <1>1, <1>2, <1>3, <1>4, <1>5

LEMMA DialStep ==
  ASSUME IInv, Dial
  PROVE  Handed' /\ Drawn' /\ NoOrphan' /\ Flagged' /\ Ended'
<1> USE ChannelTypes DEF IInv, TypeOK, runVars, flags, cloudVars, recVars, vars
<1>1. PICK n \in 0 .. MaxIds : \A i \in Ids : conn[i] = "none" <=> i > n
  BY DEF Drawn
<1>2. Opened = n
  <2>1. {i \in Ids : conn[i] # "none"} = 1 .. n
    BY <1>1, MaxIdsAssumption DEF Ids
  <2>2. n \in Nat /\ (1 > n => n = 0) /\ n - 1 + 1 = n
    BY MaxIdsAssumption
  <2>3. Cardinality(1 .. n) = n
    BY <2>2, FS_Interval
  <2> QED
    BY <2>1, <2>3 DEF Opened
<1>3. /\ n + 1 \in Ids /\ conn[n + 1] = "none" /\ n + 1 # NoId
      /\ fresh' = n + 1 /\ conn' = [conn EXCEPT ![n + 1] = "opening"]
      /\ at = "dialing" /\ at' = "connecting" /\ sdk
      /\ UNCHANGED <<main, sdk, channel, psunvalley_cloud_id, pcloudflag>>
  BY <1>1, <1>2, MaxIdsAssumption DEF Dial, Ids, NoId
<1>4. Handed'
  BY <1>3 DEF Handed, Drawn
<1>5. Drawn'
  <2>1. n + 1 \in 0 .. MaxIds /\ \A i \in Ids : conn'[i] = "none" <=> i > n + 1
    BY <1>1, <1>3, MaxIdsAssumption
  <2> QED
    BY <1>3, <2>1 DEF Drawn
<1>6. NoOrphan'
  BY <1>3 DEF Handed, NoOrphan, InTable
<1>7. Flagged'
  BY <1>3 DEF Handed, Drawn, Flagged
<1>8. Ended'
  BY <1>3 DEF Ended, NoneLeft
<1> QED
  BY <1>4, <1>5, <1>6, <1>7, <1>8

-----------------------------------------------------------------------------
(* The invariant holds always.                                             *)

LEMMA Starts ==
  ASSUME Init
  PROVE  IInv
<1> USE ChannelTypes DEF Init
<1>1. TypeOK
  BY DEF TypeOK, Kinds
<1>2. Handed /\ NoOrphan /\ Flagged /\ Ended
  BY DEF Handed, NoOrphan, InTable, Flagged, Ended, NoneLeft
<1>3. Drawn
  <2>1. 0 \in 0 .. MaxIds /\ \A i \in Ids : conn[i] = "none" <=> i > 0
    BY MaxIdsAssumption DEF Ids
  <2> QED
    BY <2>1 DEF Drawn
<1> QED
  BY <1>1, <1>2, <1>3 DEF IInv

LEMMA StepKeeps ==
  ASSUME IInv, [Next]_vars
  PROVE  IInv'
<1>1. TypeOK'
  BY TypeKept DEF IInv
<1>2. CASE CloudStep
  BY <1>1, <1>2, RoundBeginsStep, PassByStep, AttemptStep, CloseOldStep, DialStep,
     ConnectFailsStep, ConnectSucceedsStep, AssignIdStep, SetFlagStep, ClearCtrlStep,
     CloseAllStep, CloseAllReturnsStep, CloudUnInitializeStep
  DEF CloudStep, IInv
<1>3. CASE MainStep
  BY <1>1, <1>3, MainUnInitializeStep, DestroyStep, DestroyNextStep, ReturnStep
  DEF MainStep, IInv
<1>4. CASE \E i \in Ids : ConnEnds(i)
  BY <1>1, <1>4, ConnEndsStep DEF IInv
<1>5. CASE UNCHANGED core
  BY <1>1, <1>5, CoreSame DEF IInv
<1> QED
  BY <1>2, <1>3, <1>4, <1>5, OutsideCore DEF Next, IInv

LEMMA Always == Spec => []IInv
<1>1. Init => IInv
  BY Starts
<1>2. IInv /\ [Next]_vars => IInv'
  BY StepKeeps
<1> QED
  BY <1>1, <1>2, PTL DEF Spec

\* The shared arrays keep to their types, and the cloud thread to its channels.
THEOREM TypeCorrect == Spec => []TypeOK
<1>1. IInv => TypeOK
  BY DEF IInv
<1> QED
  BY <1>1, Always, PTL

\* No connection is lost: while the SDK is initialised each one in its table is
\* a channel's, one channel's only, or on its way to one.
THEOREM NoOrphanTheorem == Spec => []NoOrphan
<1>1. IInv => NoOrphan
  BY DEF IInv
<1> QED
  BY <1>1, Always, PTL

\* When the first heartbeat comes after the flag, a channel that is flagged as
\* connected is.
THEOREM FlaggedTheorem ==
  ASSUME FlaggedInTime
  PROVE  Spec => []FlaggedIsLive
<1>1. IInv => FlaggedIsLive
  BY DEF IInv, Flagged, FlaggedIsLive
<1> QED
  BY <1>1, Always, PTL

\* Whoever uninitialises the SDK first, the cloud thread or main, no connection
\* is open when the cloud thread is done or the program is over.
THEOREM AllClosedTheorem == Spec => []AllClosed
<1>1. IInv => AllClosed
  BY DEF IInv, Ended, NoneLeft, AllClosed
<1> QED
  BY <1>1, Always, PTL
-----------------------------------------------------------------------------
(* Media follows STREAM_START, if a sender has left its loop when its      *)
(* channel is given the next connection: then the connection of a sender in*)
(* its loop is the one that it sent STREAM_START on.                       *)

Started == \A c \in Channels :
  InLoop(c) /\ sdk /\ InTable(psunvalley_cloud_id[c])
    => last[psunvalley_cloud_id[c]] \in {"start", "media"}

\* Senders are where they were, and no channel of theirs gets a connection.
LEMMA StartedQuiet ==
  ASSUME Started, UNCHANGED <<rec, last>>, sdk' => sdk,
         \A c \in Channels : InLoop(c) /\ InTable(psunvalley_cloud_id[c])'
           => psunvalley_cloud_id'[c] = psunvalley_cloud_id[c] /\ InTable(psunvalley_cloud_id[c])
  PROVE  Started'
BY DEF Started, InLoop

LEMMA StartedCloud ==
  ASSUME LeavesInTime, IInv, Started, CloudStep
  PROVE  Started' /\ last' = last
<1> USE ChannelTypes DEF IInv, TypeOK, runVars, flags, cloudVars, recVars
<1>1. CASE RoundBegins \/ PassBy \/ SetFlag \/ ClearCtrl \/ CloseAll \/ CloudUnInitialize
  <2>1. UNCHANGED <<rec, last, psunvalley_cloud_id, conn>> /\ (sdk' => sdk)
    BY <1>1 DEF RoundBegins, PassBy, SetFlag, ClearCtrl, CloseAll, CloudUnInitialize
  <2> QED
    BY <2>1, StartedQuiet DEF InTable
<1>2. CASE CloseOld \/ CloseAllReturns \/ Dial
  <2>1. /\ UNCHANGED <<rec, last, sdk>>
        /\ \A c \in Channels : psunvalley_cloud_id'[c] \in {psunvalley_cloud_id[c], NoId}
        /\ \A i \in Ids : conn'[i] \in {conn[i], "closed", "opening"}
    BY <1>2 DEF CloseOld, CloseAllReturns, Dial
  <2>2. ASSUME NEW c \in Channels, InTable(psunvalley_cloud_id[c])'
        PROVE  psunvalley_cloud_id'[c] = psunvalley_cloud_id[c] /\ InTable(psunvalley_cloud_id[c])
    BY <2>1, <2>2, ZenonT(60) DEF InTable
  <2> QED
    BY <2>1, <2>2, StartedQuiet
<1>3. CASE Attempt \/ ConnectFails
  <2>1. /\ UNCHANGED <<rec, last, sdk>>
        /\ \A c \in Channels : psunvalley_cloud_id'[c] \in {psunvalley_cloud_id[c], NoId}
        /\ \A i \in Ids : conn'[i] \in {conn[i], "closed"}
    BY <1>3 DEF Attempt, ConnectFails
  <2>2. ASSUME NEW c \in Channels, InTable(psunvalley_cloud_id[c])'
        PROVE  psunvalley_cloud_id'[c] = psunvalley_cloud_id[c] /\ InTable(psunvalley_cloud_id[c])
    BY <2>1, <2>2, ZenonT(60) DEF InTable
  <2> QED
    BY <2>1, <2>2, StartedQuiet
<1>4. CASE ConnectSucceeds
  <2>1. /\ UNCHANGED <<rec, last, sdk, psunvalley_cloud_id>>
        /\ \A i \in Ids : i # fresh => conn'[i] = conn[i]
        /\ \A c \in Channels : psunvalley_cloud_id[c] # fresh
    BY <1>4 DEF ConnectSucceeds, Handed
  <2> QED
    BY <2>1, StartedQuiet DEF InTable
<1>5. CASE AssignId
  <2>1. /\ UNCHANGED <<rec, last, sdk, conn>> /\ ~InLoop(channel)
        /\ \A c \in Channels : c # channel => psunvalley_cloud_id'[c] = psunvalley_cloud_id[c]
    BY <1>5 DEF AssignId
  <2> QED
    BY <2>1, StartedQuiet DEF InTable
<1> QED
  BY <1>1, <1>2, <1>3, <1>4, <1>5
  DEF CloudStep, RoundBegins, PassBy, Attempt, CloseOld, Dial, ConnectFails, ConnectSucceeds,
      AssignId, SetFlag, ClearCtrl, CloseAll, CloseAllReturns, CloudUnInitialize

LEMMA StartedSender ==
  ASSUME IInv, Started, NEW c \in Channels, RecStep(c)
  PROVE  Started' /\ \A i \in Ids : last'[i] = "media" => last[i] \in {"start", "media"}
<1> USE ChannelTypes DEF IInv, TypeOK, runVars, flags, cloudVars, recVars
<1> DEFINE id == psunvalley_cloud_id
<1>1. CASE RecBegins(c) \/ ReadPacket(c) \/ LeaveLoop(c) \/ Skip(c) \/ Restart(c) \/ Wait(c)
             \/ GiveUpWaiting(c) \/ SendChange(c)
  <2>1. UNCHANGED <<sdk, conn, psunvalley_cloud_id, last>>
    BY <1>1 DEF RecBegins, ReadPacket, LeaveLoop, Skip, Restart, Wait, GiveUpWaiting, SendChange
  <2>2. \A d \in Channels : InLoop(d)' => InLoop(d)
    BY <1>1 DEF InLoop, RecBegins, ReadPacket, LeaveLoop, Skip, Restart, Wait, GiveUpWaiting,
                SendChange
  <2> QED
    BY <2>1, <2>2 DEF Started, InTable
<1>2. ASSUME NEW message, Tell(c, message), UNCHANGED <<sdk, conn, psunvalley_cloud_id>>,
             \A d \in Channels : d # c => rec'[d] = rec[d],
             InLoop(c)' => message \in {"start", "media"}
      PROVE  Started'
  <2>1. \A i \in Ids : last'[i] = IF i = id[c] /\ sdk /\ InTable(i) THEN message ELSE last[i]
    BY <1>2 DEF Tell
  <2>2. \A d \in Channels : d # c /\ InTable(id[d]) => id[d] # id[c] /\ id[d] \in Ids
    BY DEF NoOrphan, InTable
  <2>3. InTable(id[c]) /\ sdk => last'[id[c]] = message
    BY <2>1 DEF InTable
  <2>4. \A d \in Channels : d # c /\ InTable(id[d]) => last'[id[d]] = last[id[d]]
    BY <2>1, <2>2
  <2> QED
    BY <1>2, <2>3, <2>4 DEF Started, InTable, InLoop
<1>3. CASE SendStart(c)
  <2>1. /\ Tell(c, "start") /\ UNCHANGED <<sdk, conn, psunvalley_cloud_id>>
        /\ \A d \in Channels : d # c => rec'[d] = rec[d]
    BY <1>3 DEF SendStart
  <2> QED
    BY <1>2, <2>1 DEF Tell
<1>4. CASE SendEnd(c)
  <2>1. /\ Tell(c, "end") /\ UNCHANGED <<sdk, conn, psunvalley_cloud_id>>
        /\ \A d \in Channels : d # c => rec'[d] = rec[d]
        /\ ~InLoop(c)'
    BY <1>4 DEF SendEnd, InLoop
  <2> QED
    BY <1>2, <2>1 DEF Tell
<1>5. CASE SendPacket(c)
  <2>1. /\ Tell(c, "media") /\ UNCHANGED <<sdk, conn, psunvalley_cloud_id>>
        /\ \A d \in Channels : d # c => rec'[d] = rec[d]
        /\ InLoop(c)
    BY <1>5 DEF SendPacket, InLoop
  <2>2. Started'
    BY <1>2, <2>1
  <2>3. ASSUME NEW i \in Ids, last'[i] = "media" PROVE last[i] \in {"start", "media"}
    BY <2>1, <2>3 DEF Tell, Started
  <2> QED
    BY <2>2, <2>3
<1> QED
  BY <1>1, <1>3, <1>4, <1>5 DEF RecStep

\* Media is sent on a connection only after its STREAM_START, when a sender has left
\* its loop before its channel has an id again.
THEOREM MediaTheorem ==
  ASSUME LeavesInTime
  PROVE  Spec => MediaAfterStart
<1>1. Init => Started
  BY DEF Init, Started, InLoop
<1>2. ASSUME IInv, Started, [Next]_vars
      PROVE  Started' /\ \A i \in Ids : last'[i] = "media" => last[i] \in {"start", "media"}
  <2>1. CASE CloudStep
    BY <1>2, <2>1, StartedCloud
  <2>2. CASE \E c \in Channels : RecStep(c)
    BY <1>2, <2>2, StartedSender
  <2>3. CASE \/ MainStep \/ Stop \/ UNCHANGED vars
             \/ \E c \in Channels : Elapse(c) \/ Arm(c) \/ Fire(c)
             \/ \E i \in Ids : ConnEnds(i) \/ ConnResumes(i)
    <3> USE <1>2 DEF IInv, TypeOK, runVars, flags, cloudVars, recVars, vars
    <3>1. UNCHANGED <<rec, last, psunvalley_cloud_id>> /\ (sdk' => sdk)
      <4>1. MainStep \/ Stop \/ UNCHANGED vars => UNCHANGED <<rec, last, psunvalley_cloud_id>>
        BY DEF MainStep, MainUnInitialize, Destroy, DestroyNext, Return, Stop
      <4>2. ASSUME NEW c \in Channels, Elapse(c) \/ Arm(c) \/ Fire(c)
            PROVE  UNCHANGED <<rec, last, psunvalley_cloud_id>>
        BY <4>2 DEF Elapse, Arm, Fire
      <4>3. ASSUME NEW i \in Ids, ConnEnds(i) \/ ConnResumes(i)
            PROVE  UNCHANGED <<rec, last, psunvalley_cloud_id>>
        BY <4>3 DEF ConnEnds, CallbackEnd, ConnResumes
      <4>4. sdk' => sdk
        BY <2>3 DEF MainStep, MainUnInitialize, Destroy, DestroyNext, Return, Stop, Elapse, Arm,
                    Fire, ConnEnds, ConnResumes
      <4> QED
        BY <2>3, <4>1, <4>2, <4>3, <4>4
    <3>2. \A i \in Ids : conn'[i] \in {conn[i], "closed"} \/ InTable(i)
      BY <2>3 DEF MainStep, MainUnInitialize, Destroy, DestroyNext, Return, Stop, Elapse, Arm,
                  Fire, ConnEnds, ConnResumes, InTable
    <3> QED
      BY <3>1, <3>2, StartedQuiet DEF InTable
  <2> QED
    BY <1>2, <2>1, <2>2, <2>3 DEF Next
<1>3. IInv /\ Started /\ [Next]_vars
        => [\A i \in Ids : last'[i] = "media" => last[i] \in {"start", "media"}]_vars
  BY <1>2
<1>4. IInv /\ Started /\ [Next]_vars => Started'
  BY <1>2
<1> QED
  BY <1>1, <1>3, <1>4, Always, PTL DEF Spec, MediaAfterStart
=============================================================================
