----------------------------- MODULE FrameQueue -----------------------------
(***************************************************************************)
(* CFrameQueue (common/framequeue.h) as m_MuxerQueue uses it: the frames   *)
(* waiting for the muxer thread, and the pool of CFrameBuffer objects they *)
(* are recycled through.                                                   *)
(*                                                                         *)
(* The application's threads (Producers) take a buffer from the pool, fill *)
(* it and push it (CBasePush::SendPacket, SendEncryptPacket, SendMetadata);*)
(* the muxer thread pops it, sends it and gives it back to the pool        *)
(* (CBasePush::MuxerProc).  Every method of the queue holds its mutex, so  *)
(* one call is one action; two calls of one thread are two actions, and    *)
(* the other threads may run in between.                                   *)
(*                                                                         *)
(* Abstracted: the payload (only its size is kept), a failing new.         *)
(***************************************************************************)
EXTENDS Naturals, Sequences, SequencesExt, FiniteSets, ByteCounts

CONSTANTS Producers,  \* threads that send packets and metadata
          Frames,     \* addresses a CFrameBuffer can be allocated at
          NoFrame,    \* the null pointer
          Sizes,      \* payload sizes, in bytes
          MaxCount,   \* m_nmax_frame_count: 512 in the code
          MaxBytes    \* m_nmax_frame_size: the memory pool size

ASSUME FramesAssumption   == IsFiniteSet(Frames) /\ NoFrame \notin Frames
ASSUME SizesAssumption    == Sizes \subseteq Nat
ASSUME MaxCountAssumption == MaxCount \in Nat \ {0}
ASSUME MaxBytesAssumption == MaxBytes \in Nat

VARIABLES
  frame_list,       \* m_frame_list, the oldest frame first
  free_frame_list,  \* m_free_frame_list, the next frame to reuse first
  nsize,            \* m_nsize of every buffer
  ncur_frame_size,  \* m_ncur_frame_size: bytes queued, as the code counts them
  ntotal,           \* m_ntotal_frame_count
  pc,               \* what each producer does with the buffer it holds
  held,             \* the buffer each producer holds
  ret,              \* what the last push of each producer returned
  popped,           \* the buffer the muxer thread works on
  leaked,           \* buffers that nothing points to any more
  halted            \* "no", the assertion that aborted the process, or "deleted"

poolVars == <<free_frame_list, ntotal, leaked>>
vars == <<frame_list, free_frame_list, nsize, ncur_frame_size, ntotal, pc,
          held, ret, popped, leaked, halted>>

-----------------------------------------------------------------------------
\* The buffers that exist: every one is in exactly one of these places.
Holding == {p \in Producers : held[p] # NoFrame}
InHand  == {held[p] : p \in Holding} \cup ({popped} \ {NoFrame})
Live    == ToSet(frame_list) \cup ToSet(free_frame_list) \cup InHand \cup leaked

\* The bytes of the queued buffers.
Queued == BytesOf(ToSet(frame_list), nsize)

Init == /\ frame_list = <<>>
        /\ free_frame_list = <<>>
        /\ nsize = [f \in Frames |-> 0]
        /\ ncur_frame_size = 0
        /\ ntotal = 0
        /\ pc = [p \in Producers |-> "idle"]
        /\ held = [p \in Producers |-> NoFrame]
        /\ ret = [p \in Producers |-> "none"]
        /\ popped = NoFrame
        /\ leaked = {}
        /\ halted = "no"

-----------------------------------------------------------------------------
(* get_frame_buffer, called by SendPacket (kind "packet") and by           *)
(* SendMetadata (kind "metadata").  The assertions abort the process: the  *)
(* makefiles build without NDEBUG.                                         *)

Overflowing == Len(frame_list) + Len(free_frame_list) > MaxCount
AtLimit     == ntotal >= MaxCount

Abort(reason) == /\ halted' = reason
                 /\ UNCHANGED <<frame_list, nsize, ncur_frame_size, pc, held,
                                ret, popped>>
                 /\ UNCHANGED poolVars

TakeFrame(p, kind, f) ==
  /\ held' = [held EXCEPT ![p] = f]
  /\ pc' = [pc EXCEPT ![p] = kind]
  /\ ret' = [ret EXCEPT ![p] = "none"]
  /\ UNCHANGED <<frame_list, nsize, ncur_frame_size, popped, leaked, halted>>

TakeNew(p, kind) ==
  /\ free_frame_list = <<>>
  /\ \E f \in Frames \ Live : TakeFrame(p, kind, f)
  /\ ntotal' = ntotal + 1
  /\ UNCHANGED free_frame_list

\* mutant: a reused buffer is counted as a new one
TakeFreeCounted(p, kind) ==
  /\ free_frame_list # <<>>
  /\ TakeFrame(p, kind, Head(free_frame_list))
  /\ free_frame_list' = Tail(free_frame_list)
  /\ ntotal' = ntotal + 1

TakeFree(p, kind) ==
  /\ free_frame_list # <<>>
  /\ TakeFrame(p, kind, Head(free_frame_list))
  /\ free_frame_list' = Tail(free_frame_list)
  /\ UNCHANGED ntotal

\* mutant: the limit on the number of buffers is not tested
GetWithoutLimit(p, kind) ==
  /\ halted = "no" /\ pc[p] = "idle"
  /\ \/ Overflowing /\ Abort("overflow")
     \/ ~Overflowing /\ (TakeNew(p, kind) \/ TakeFree(p, kind))

get_frame_buffer(p, kind) ==
  /\ halted = "no" /\ pc[p] = "idle"
  /\ \/ Overflowing /\ Abort("overflow")
     \/ ~Overflowing /\ AtLimit /\ Abort("limit")
     \/ /\ ~Overflowing /\ ~AtLimit
        /\ TakeNew(p, kind) \/ TakeFree(p, kind)

-----------------------------------------------------------------------------
(* push_frame.  Filling the buffer (Reset, ReAllocBuffer, m_nsize) touches *)
(* nothing another thread sees and is part of the push.                    *)

\* mutant: the size of the new frame is left out of the test
FitsBeforePush(n) == /\ Len(frame_list) < MaxCount
                     /\ ncur_frame_size <= MaxBytes

Fits(n) == /\ Len(frame_list) < MaxCount
           /\ ncur_frame_size + n <= MaxBytes

Put(p, n) == /\ frame_list' = Append(frame_list, held[p])
             /\ nsize' = [nsize EXCEPT ![held[p]] = n]
             /\ ncur_frame_size' = ncur_frame_size + n
             /\ pc' = [pc EXCEPT ![p] = "idle"]
             /\ held' = [held EXCEPT ![p] = NoFrame]
             /\ ret' = [ret EXCEPT ![p] = "ok"]
             /\ UNCHANGED <<popped, halted>>
             /\ UNCHANGED poolVars

\* SendPacket and SendEncryptPacket return when the push fails: nothing
\* points to the buffer any more.
Lose(p, n) == /\ nsize' = [nsize EXCEPT ![held[p]] = n]
              /\ leaked' = leaked \cup {held[p]}
              /\ pc' = [pc EXCEPT ![p] = "idle"]
              /\ held' = [held EXCEPT ![p] = NoFrame]
              /\ ret' = [ret EXCEPT ![p] = "full"]
              /\ UNCHANGED <<frame_list, free_frame_list, ncur_frame_size,
                             ntotal, popped, halted>>

SendPacket(p, n) == /\ halted = "no" /\ pc[p] = "packet"
                    /\ \/ Fits(n) /\ Put(p, n)
                       \/ ~Fits(n) /\ Lose(p, n)

\* SendMetadata goes on to give the buffer back when the push fails, and
\* when the protocol could not build the message.
Refuse(p, n, answer) == /\ nsize' = [nsize EXCEPT ![held[p]] = n]
                        /\ pc' = [pc EXCEPT ![p] = "refused"]
                        /\ ret' = [ret EXCEPT ![p] = answer]
                        /\ UNCHANGED <<frame_list, ncur_frame_size, held,
                                       popped, halted>>
                        /\ UNCHANGED poolVars

SendMetadata(p, n) == /\ halted = "no" /\ pc[p] = "metadata"
                      /\ \/ Fits(n) /\ Put(p, n)
                         \/ ~Fits(n) /\ Refuse(p, n, "full")
                         \/ Refuse(p, n, "fail")

-----------------------------------------------------------------------------
\* free_frame_buffer resets the buffer and puts it at the back of the pool.
Recycle(f) == /\ free_frame_list' = Append(free_frame_list, f)
              /\ nsize' = [nsize EXCEPT ![f] = 0]

free_frame_buffer(p) == /\ halted = "no" /\ pc[p] = "refused"
                        /\ Recycle(held[p])
                        /\ held' = [held EXCEPT ![p] = NoFrame]
                        /\ pc' = [pc EXCEPT ![p] = "idle"]
                        /\ UNCHANGED <<frame_list, ncur_frame_size, ntotal, ret,
                                       popped, leaked, halted>>

\* mutant: the newest frame is popped, as if push and pop used one end
PopNewest ==
  /\ halted = "no" /\ popped = NoFrame /\ frame_list # <<>>
  /\ popped' = Last(frame_list)
  /\ frame_list' = Front(frame_list)
  /\ ncur_frame_size' = ncur_frame_size - nsize[Last(frame_list)]
  /\ UNCHANGED <<nsize, pc, held, ret, halted>>
  /\ UNCHANGED poolVars

\* mutant: the popped bytes stay counted
PopUncounted ==
  /\ halted = "no" /\ popped = NoFrame /\ frame_list # <<>>
  /\ popped' = Head(frame_list)
  /\ frame_list' = Tail(frame_list)
  /\ halted' = IF frame_list' = <<>> /\ ncur_frame_size # 0
               THEN "residue" ELSE "no"
  /\ UNCHANGED <<nsize, ncur_frame_size, pc, held, ret>>
  /\ UNCHANGED poolVars

\* The muxer thread takes the oldest frame.  An empty queue that still
\* counts bytes is an assertion.
pop_frame ==
  /\ halted = "no" /\ popped = NoFrame /\ frame_list # <<>>
  /\ popped' = Head(frame_list)
  /\ frame_list' = Tail(frame_list)
  /\ ncur_frame_size' = ncur_frame_size - nsize[Head(frame_list)]
  /\ halted' = IF frame_list' = <<>> /\ ncur_frame_size' # 0
               THEN "residue" ELSE "no"
  /\ UNCHANGED <<nsize, pc, held, ret>>
  /\ UNCHANGED poolVars

\* mutant: the pointer is not cleared, and the buffer is freed once more
MuxerFreeTwice == /\ halted = "no" /\ popped # NoFrame
                  /\ Recycle(popped)
                  /\ UNCHANGED <<frame_list, ncur_frame_size, ntotal, pc, held,
                                 ret, popped, leaked, halted>>

\* The muxer thread gives back the frame it has sent or dropped.
MuxerFree == /\ halted = "no" /\ popped # NoFrame
             /\ Recycle(popped)
             /\ popped' = NoFrame
             /\ UNCHANGED <<frame_list, ncur_frame_size, ntotal, pc, held, ret,
                            leaked, halted>>

\* ~CFrameQueue: by then ~CRtmpPush has waited for the muxer thread, and the
\* manager's lock keeps the senders out.  It pops the queued frames.
deinit_queue == /\ halted = "no" /\ popped = NoFrame
                /\ \A p \in Producers : held[p] = NoFrame
                /\ frame_list' = <<>>
                /\ free_frame_list' = <<>>
                /\ ncur_frame_size' = ncur_frame_size - Cardinality(Queued)
                /\ ntotal' = 0
                /\ halted' = IF frame_list # <<>> /\ ncur_frame_size' # 0
                             THEN "residue" ELSE "deleted"
                /\ UNCHANGED <<nsize, pc, held, ret, popped, leaked>>

-----------------------------------------------------------------------------
ProducerStep(p) == \/ \E kind \in {"packet", "metadata"} : get_frame_buffer(p, kind)
                   \/ \E n \in Sizes : SendPacket(p, n) \/ SendMetadata(p, n)
                   \/ free_frame_buffer(p)

Next == \/ \E p \in Producers : ProducerStep(p)
        \/ pop_frame
        \/ MuxerFree
        \/ deinit_queue

Spec == Init /\ [][Next]_vars

-----------------------------------------------------------------------------
(* What is checked.                                                        *)

\* The variables have their types, and no more than MaxCount buffers are
\* ever counted: the limit of get_frame_buffer is kept by all its callers.
TypeOK ==
  /\ frame_list \in Seq(Frames)
  /\ free_frame_list \in Seq(Frames)
  /\ nsize \in [Frames -> Nat]
  /\ ncur_frame_size \in Nat
  /\ ntotal \in 0 .. MaxCount
  /\ pc \in [Producers -> {"idle", "packet", "metadata", "refused"}]
  /\ held \in [Producers -> Frames \cup {NoFrame}]
  /\ ret \in [Producers -> {"none", "ok", "full", "fail"}]
  /\ popped \in Frames \cup {NoFrame}
  /\ leaked \subseteq Frames
  /\ halted \in {"no", "overflow", "limit", "residue", "deleted"}

Disjoint(S, T) == S \cap T = {}

\* No buffer is in two places: queued and in the pool, in the pool twice, in
\* the hands of two threads, ...  A second free, or a free of a buffer that
\* is queued, would hand one buffer to two threads (framequeue.h has no test
\* for it: free_frame_buffer pushes whatever it is given).
SinglePlace ==
  /\ IsInjective(frame_list)
  /\ IsInjective(free_frame_list)
  /\ \A p, q \in Holding : held[p] = held[q] => p = q
  /\ popped \notin {held[p] : p \in Holding}
  /\ Disjoint(ToSet(frame_list), ToSet(free_frame_list))
  /\ Disjoint(InHand, ToSet(frame_list) \cup ToSet(free_frame_list))
  /\ Disjoint(leaked, ToSet(frame_list) \cup ToSet(free_frame_list) \cup InHand)

\* m_ncur_frame_size is the number of bytes in the queue, at every moment
\* another thread can look: the PAUSE threshold of SendPacket and the assertion
\* of pop_frame rest on it, and every buffer changes size on its way round.
ByteAccounting == /\ ncur_frame_size = Cardinality(Queued)
                  /\ ncur_frame_size <= MaxBytes

\* m_ntotal_frame_count counts the buffers that exist, wherever they are, the
\* leaked ones included, until the queue is deleted.
CountAccounting == halted # "deleted" => ntotal = Cardinality(Live)

\* Of the three assertions of the queue, only the limit on the number of
\* buffers (framequeue.h:354) can stop the process.
OnlyLimitAborts == halted \notin {"overflow", "residue"}

\* push_frame never refuses a frame for the NUMBER of frames: whoever holds a
\* buffer finds room, so a full queue always means its bytes.
CountNeverRefuses ==
  \A p \in Producers : pc[p] \in {"packet", "metadata"} => Len(frame_list) < MaxCount

\* What the proofs in FrameQueueProofs carry from state to state.
PcHeld == \A p \in Producers : pc[p] = "idle" <=> held[p] = NoFrame
IInv == /\ TypeOK
        /\ SinglePlace
        /\ IsFiniteSet(Queued)
        /\ ByteAccounting
        /\ CountAccounting
        /\ PcHeld
        /\ OnlyLimitAborts

\* The queue is the byte-bounded FIFO of BoundedFifo.
Lengths == [i \in DOMAIN frame_list |-> nsize[frame_list[i]]]
Up == halted = "no"
Fifo == INSTANCE BoundedFifo WITH queue <- Lengths, up <- Up, Capacity <- MaxBytes
FifoSpec == Fifo!Spec
=============================================================================
