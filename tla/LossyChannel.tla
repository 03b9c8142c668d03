---------------------------- MODULE LossyChannel ----------------------------
(***************************************************************************)
(* What one push connection promises to the application that feeds it: the *)
(* frames it accepts reach the server in the order they were accepted, each*)
(* at most once.  A frame may be dropped on the way, and once the channel  *)
(* has ended nothing more is delivered.                                    *)
(***************************************************************************)
EXTENDS Naturals, Sequences

CONSTANT MaxFrames  \* frames are numbered in the order they are accepted

VARIABLES pending,    \* numbers of the accepted frames still on the way
          delivered,  \* numbers of the frames the server has, oldest first
          accepted,   \* how many frames have been accepted
          ended       \* TRUE when nothing is delivered any more

channelVars == <<pending, delivered, accepted, ended>>

Init == /\ pending = <<>>
        /\ delivered = <<>>
        /\ accepted = 0
        /\ ended = FALSE

Accept == /\ accepted < MaxFrames
          /\ accepted' = accepted + 1
          /\ pending' = Append(pending, accepted')
          /\ UNCHANGED <<delivered, ended>>

Deliver == /\ ~ended
           /\ pending # <<>>
           /\ delivered' = Append(delivered, Head(pending))
           /\ pending' = Tail(pending)
           /\ UNCHANGED <<accepted, ended>>

Drop == /\ pending # <<>>
        /\ pending' = Tail(pending)
        /\ UNCHANGED <<delivered, accepted, ended>>

End == /\ ~ended
       /\ ended' = TRUE
       /\ UNCHANGED <<pending, delivered, accepted>>

\* The connection is deleted with whatever it still holds.
Discard == /\ pending' = <<>>
           /\ ended' = TRUE
           /\ UNCHANGED <<delivered, accepted>>

Next == Accept \/ Deliver \/ Drop \/ End \/ Discard

Spec == Init /\ [][Next]_channelVars
=============================================================================
