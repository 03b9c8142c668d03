---------------------------- MODULE BoundedFifo ----------------------------
(***************************************************************************)
(* What CFrameQueue promises its callers: a first-in first-out queue of    *)
(* payloads, bounded by their total number of bytes.  An offer is refused  *)
(* exactly when it would exceed that bound.  The queue may give up for     *)
(* good (the process aborts), and it may be destroyed.                     *)
(*                                                                         *)
(* There is no bound on the NUMBER of payloads here: the count test of the *)
(* code never refuses an offer (see FrameQueue!CountNeverRefuses).         *)
(***************************************************************************)
EXTENDS Naturals, Sequences, ByteCounts

CONSTANTS Producers,  \* the threads that offer payloads
          Sizes,      \* the sizes a payload can have, in bytes
          Capacity    \* the most bytes the queue holds

VARIABLES queue,   \* the sizes of the queued payloads, oldest first
          ret,     \* the answer to the last offer of each producer
          up       \* FALSE once the queue has aborted or been destroyed

fifoVars == <<queue, ret, up>>

Init == /\ queue = <<>>
        /\ ret = [p \in Producers |-> "none"]
        /\ up = TRUE

\* The producer p starts a new offer; the answer to the last one is gone.
Begin(p) == /\ up
            /\ ret' = [ret EXCEPT ![p] = "none"]
            /\ UNCHANGED <<queue, up>>

Accept(p, n) == /\ up
                /\ ret[p] = "none"
                /\ Load(queue) + n <= Capacity
                /\ queue' = Append(queue, n)
                /\ ret' = [ret EXCEPT ![p] = "ok"]
                /\ UNCHANGED up

Refuse(p, n) == /\ up
                /\ ret[p] = "none"
                /\ Load(queue) + n > Capacity
                /\ ret' = [ret EXCEPT ![p] = "full"]
                /\ UNCHANGED <<queue, up>>

\* The payload of the producer p could not be built.
Fail(p) == /\ up
           /\ ret[p] = "none"
           /\ ret' = [ret EXCEPT ![p] = "fail"]
           /\ UNCHANGED <<queue, up>>

Deliver == /\ up
           /\ queue # <<>>
           /\ queue' = Tail(queue)
           /\ UNCHANGED <<ret, up>>

Halt == /\ up
        /\ up' = FALSE
        /\ queue' \in {queue, <<>>}
        /\ UNCHANGED ret

Next == \/ \E p \in Producers : Begin(p) \/ Fail(p)
        \/ \E p \in Producers, n \in Sizes : Accept(p, n) \/ Refuse(p, n)
        \/ Deliver
        \/ Halt

Spec == Init /\ [][Next]_fifoVars
=============================================================================
