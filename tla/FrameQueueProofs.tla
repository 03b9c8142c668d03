-------------------------- MODULE FrameQueueProofs --------------------------
(***************************************************************************)
(* The safety of FrameQueue for every number of threads, buffers and bytes.*)
(* The inductive invariant is IInv; the properties of the runs follow.     *)
(***************************************************************************)
EXTENDS FrameQueue, ByteCountsProofs

-----------------------------------------------------------------------------
(* Sequences without repetitions.                                          *)

\* Appending to the back adds one element, and repeats none that is new.
LEMMA AppendToSet ==
  ASSUME NEW S, NEW s \in Seq(S), NEW x \in S
  PROVE  /\ Append(s, x) \in Seq(S)
         /\ ToSet(Append(s, x)) = ToSet(s) \cup {x}
         /\ IsInjective(s) /\ x \notin ToSet(s) => IsInjective(Append(s, x))
<1>. DEFINE t == Append(s, x)
<1>1. /\ t \in Seq(S)
      /\ DOMAIN s = 1 .. Len(s) /\ DOMAIN t = 1 .. Len(s) + 1 /\ Len(s) \in Nat
      /\ \A i \in 1 .. Len(s) : t[i] = s[i]
      /\ t[Len(s) + 1] = x
  OBVIOUS
<1>2. ToSet(t) = ToSet(s) \cup {x}
  <2>1. ToSet(t) \subseteq ToSet(s) \cup {x}
    BY <1>1 DEF ToSet
  <2>2. ToSet(s) \subseteq ToSet(t)
    BY <1>1 DEF ToSet
  <2>3. x \in ToSet(t)
    BY <1>1 DEF ToSet
  <2>. QED BY <2>1, <2>2, <2>3
<1>3. ASSUME IsInjective(s), x \notin ToSet(s) PROVE IsInjective(t)
  BY <1>1, <1>3 DEF IsInjective, ToSet
<1>. QED BY <1>1, <1>2, <1>3

\* Taking the oldest element away removes exactly that element.
LEMMA TailToSet ==
  ASSUME NEW S, NEW s \in Seq(S), s # <<>>, IsInjective(s)
  PROVE  /\ Head(s) \in S /\ Head(s) \in ToSet(s)
         /\ Tail(s) \in Seq(S)
         /\ ToSet(Tail(s)) = ToSet(s) \ {Head(s)}
         /\ IsInjective(Tail(s))
<1>. DEFINE t == Tail(s)
<1>1. /\ t \in Seq(S) /\ Head(s) \in S /\ Head(s) = s[1]
      /\ Len(s) \in Nat \ {0} /\ DOMAIN s = 1 .. Len(s) /\ DOMAIN t = 1 .. Len(s) - 1
      /\ \A i \in 1 .. Len(s) - 1 : t[i] = s[i + 1]
  OBVIOUS
<1>2. IsInjective(t)
  BY <1>1 DEF IsInjective
<1>3. Head(s) \in ToSet(s)
  BY <1>1 DEF ToSet
<1>4. ToSet(t) \subseteq ToSet(s) \ {Head(s)}
  BY <1>1 DEF ToSet, IsInjective
<1>5. ASSUME NEW x \in ToSet(s), x # Head(s) PROVE x \in ToSet(t)
  <2>1. PICK i \in 1 .. Len(s) : x = s[i]
    BY <1>1 DEF ToSet
  <2>2. i # 1 /\ i - 1 \in 1 .. Len(s) - 1 /\ t[i - 1] = s[i]
    BY <1>1, <1>5, <2>1
  <2>. QED BY <1>1, <2>1, <2>2 DEF ToSet
<1>. QED BY <1>1, <1>2, <1>3, <1>4, <1>5

\* A sequence without repetitions is as long as its set of elements is large.
LEMMA InjectiveCardinality ==
  ASSUME NEW S, NEW s \in Seq(S), IsInjective(s)
  PROVE  IsFiniteSet(ToSet(s)) /\ Cardinality(ToSet(s)) = Len(s)
<1>1. Len(s) \in Nat /\ DOMAIN s = 1 .. Len(s)
  OBVIOUS
<1>2. s \in Bijection(1 .. Len(s), ToSet(s))
  BY <1>1 DEF Bijection, Injection, Surjection, IsInjective, ToSet
<1>3. IsFiniteSet(1 .. Len(s)) /\ Cardinality(1 .. Len(s)) = Len(s)
  BY <1>1, FS_Interval
<1>. QED BY <1>2, <1>3, FS_Bijection DEF ExistsBijection

-----------------------------------------------------------------------------
(* What the invariant says of every state.                                 *)

\* The two lists hold buffers, and everything that exists is finite.
LEMMA Places ==
  ASSUME IInv
  PROVE  /\ ToSet(frame_list) \subseteq Frames
         /\ ToSet(free_frame_list) \subseteq Frames
         /\ InHand \subseteq Frames
         /\ Live \subseteq Frames /\ IsFiniteSet(Live)
         /\ Cardinality(Live) \in Nat
<1>1. ToSet(frame_list) \subseteq Frames /\ ToSet(free_frame_list) \subseteq Frames
  BY DEF IInv, TypeOK, ToSet
<1>2. InHand \subseteq Frames
  BY DEF IInv, TypeOK, InHand, Holding
<1>3. Live \subseteq Frames
  BY <1>1, <1>2 DEF Live, IInv, TypeOK
<1>. QED BY <1>1, <1>2, <1>3, FramesAssumption, FS_Subset, FS_CardinalityType

\* The queue and the pool together hold no more than MaxCount buffers, and
\* less if somebody works on one.
LEMMA Room ==
  ASSUME IInv, halted # "deleted"
  PROVE  /\ Len(frame_list) + Len(free_frame_list) <= ntotal
         /\ InHand # {} => Len(frame_list) + Len(free_frame_list) < ntotal
<1>. DEFINE Q == ToSet(frame_list)
            P == ToSet(free_frame_list)
<1>1. /\ IsFiniteSet(Q) /\ Cardinality(Q) = Len(frame_list)
      /\ IsFiniteSet(P) /\ Cardinality(P) = Len(free_frame_list)
  BY InjectiveCardinality DEF IInv, TypeOK, SinglePlace
<1>2. Q \cap P = {} /\ InHand \cap (Q \cup P) = {}
  BY DEF IInv, SinglePlace, Disjoint
<1>3. Q \cup P \subseteq Live /\ InHand \subseteq Live
  BY DEF Live
<1>4. ntotal = Cardinality(Live) /\ IsFiniteSet(Live) /\ ntotal \in Nat
  BY Places DEF IInv, CountAccounting, TypeOK
<1>5. Len(frame_list) \in Nat /\ Len(free_frame_list) \in Nat
  BY DEF IInv, TypeOK
<1>. HIDE DEF Q, P
<1>6. /\ IsFiniteSet(Q \cup P)
      /\ Cardinality(Q \cup P) = Len(frame_list) + Len(free_frame_list)
  <2>1. /\ IsFiniteSet(Q \cup P)
        /\ Cardinality(Q \cup P) = Cardinality(Q) + Cardinality(P) - Cardinality(Q \cap P)
    BY <1>1, FS_Union
  <2>2. Cardinality(Q \cap P) = 0
    BY <1>2, FS_EmptySet
  <2>. QED BY <1>1, <1>5, <2>1, <2>2
<1>7. Cardinality(Q \cup P) <= Cardinality(Live)
  BY <1>3, <1>4, FS_Subset
<1>8. ASSUME InHand # {} PROVE Cardinality(Q \cup P) # Cardinality(Live)
  <2>1. Q \cup P # Live
    BY <1>2, <1>3, <1>8
  <2>. QED BY <1>3, <1>4, <2>1, FS_Subset
<1>. QED BY <1>4, <1>5, <1>6, <1>7, <1>8

-----------------------------------------------------------------------------
(* Every step preserves the invariant: one lemma for each kind of step.    *)

LEMMA InitInvariant == Init => IInv
<1>. SUFFICES ASSUME Init PROVE IInv
  OBVIOUS
<1>1. ToSet(<<>>) = {} /\ IsInjective(<<>>)
  BY DEF ToSet, IsInjective
<1>2. Queued = {} /\ InHand = {} /\ Live = {} /\ Holding = {}
  BY <1>1 DEF Init, Queued, BytesOf, InHand, Live, Holding
<1>3. TypeOK
  BY MaxCountAssumption DEF Init, TypeOK
<1>4. SinglePlace
  BY <1>1, <1>2 DEF Init, SinglePlace, Disjoint
<1>5. IsFiniteSet(Queued) /\ ByteAccounting /\ CountAccounting
  BY <1>2, FS_EmptySet, MaxBytesAssumption
     DEF Init, ByteAccounting, CountAccounting
<1>6. PcHeld /\ OnlyLimitAborts
  BY DEF Init, PcHeld, OnlyLimitAborts
<1>. QED BY <1>3, <1>4, <1>5, <1>6 DEF IInv

LEMMA GetInvariant ==
  ASSUME IInv, NEW p \in Producers, NEW kind \in {"packet", "metadata"},
         get_frame_buffer(p, kind)
  PROVE  IInv'
<1>1. Len(frame_list) \in Nat /\ Len(free_frame_list) \in Nat /\ ntotal \in 0 .. MaxCount
  BY DEF IInv, TypeOK
<1>2. ~Overflowing
  BY <1>1, Room, MaxCountAssumption DEF Overflowing, get_frame_buffer
<1>3. CASE AtLimit /\ Abort("limit")
  <2>. USE <1>3 DEF Abort, poolVars
  <2>1. Queued' = Queued /\ Live' = Live /\ InHand' = InHand /\ Holding' = Holding
    BY DEF Queued, Live, InHand, Holding
  <2>2. TypeOK'
    BY DEF IInv, TypeOK
  <2>3. SinglePlace'
    BY <2>1 DEF IInv, SinglePlace, Disjoint
  <2>4. /\ IsFiniteSet(Queued)' /\ ByteAccounting' /\ CountAccounting'
        /\ PcHeld' /\ OnlyLimitAborts'
    BY <2>1 DEF IInv, ByteAccounting, CountAccounting, PcHeld, OnlyLimitAborts,
                get_frame_buffer
  <2>. QED BY <2>2, <2>3, <2>4 DEF IInv
<1>4. ASSUME ~AtLimit, NEW f \in Frames, TakeFrame(p, kind, f), f # NoFrame,
             \/ /\ f \notin Live /\ free_frame_list' = free_frame_list
                /\ ntotal' = ntotal + 1
             \/ /\ free_frame_list # <<>> /\ f = Head(free_frame_list)
                /\ free_frame_list' = Tail(free_frame_list)
                /\ ntotal' = ntotal
      PROVE  IInv'
  <2>. USE <1>4 DEF TakeFrame
  <2>1. held[p] = NoFrame /\ popped' = popped /\ halted = "no"
    BY DEF get_frame_buffer, IInv, PcHeld
  <2>2. Queued' = Queued
    BY DEF Queued
  <2>3. /\ Holding' = Holding \cup {p}
        /\ InHand' = InHand \cup {f}
        /\ held'[p] = f /\ \A q \in Producers \ {p} : held'[q] = held[q]
    <3>1. held'[p] = f /\ \A q \in Producers \ {p} : held'[q] = held[q]
      BY DEF IInv, TypeOK
    <3>2. Holding' = Holding \cup {p}
      BY <3>1 DEF Holding
    <3>3. {held'[q] : q \in Holding \cup {p}} = {held[q] : q \in Holding} \cup {f}
      BY <2>1, <3>1 DEF Holding
    <3>. QED BY <3>1, <3>2, <3>3, <2>1 DEF InHand
  <2>4. /\ ToSet(free_frame_list') = ToSet(free_frame_list) \ {f}
        /\ IsInjective(free_frame_list')
        /\ free_frame_list' \in Seq(Frames)
        /\ f \notin ToSet(frame_list) \cup InHand \cup leaked
    <3>1. CASE f \notin Live /\ free_frame_list' = free_frame_list
      BY <3>1 DEF Live, IInv, TypeOK, SinglePlace
    <3>2. CASE free_frame_list # <<>> /\ f = Head(free_frame_list)
                 /\ free_frame_list' = Tail(free_frame_list)
      <4>1. /\ f \in ToSet(free_frame_list)
            /\ ToSet(free_frame_list') = ToSet(free_frame_list) \ {f}
            /\ IsInjective(free_frame_list')
            /\ free_frame_list' \in Seq(Frames)
        BY <3>2, TailToSet DEF IInv, TypeOK, SinglePlace
      <4>. QED BY <4>1 DEF IInv, SinglePlace, Disjoint
    <3>. QED BY <3>1, <3>2
  <2>5. TypeOK'
    <3>1. ntotal' \in 0 .. MaxCount
      BY <1>1, MaxCountAssumption DEF AtLimit
    <3>. QED BY <2>4, <3>1 DEF IInv, TypeOK
  <2>6. SinglePlace'
    <3>1. \A q, r \in Holding' : held'[q] = held'[r] => q = r
      BY <2>1, <2>3, <2>4 DEF IInv, SinglePlace, InHand, Holding
    <3>2. popped' \notin {held'[q] : q \in Holding'}
      BY <2>1, <2>3, <2>4, FramesAssumption DEF IInv, SinglePlace, InHand, Holding, TypeOK
    <3>. QED BY <2>3, <2>4, <3>1, <3>2 DEF IInv, SinglePlace, Disjoint
  <2>7. CountAccounting'
    <3>1. Live' = Live \cup {f}
      BY <2>3, <2>4 DEF Live
    <3>2. CASE f \notin Live
      <4>1. ntotal' = ntotal + 1
        <5>1. CASE free_frame_list # <<>> /\ f = Head(free_frame_list)
          BY <3>2, <5>1, TailToSet DEF Live, IInv, TypeOK, SinglePlace
        <5>. QED BY <5>1
      <4>. QED BY <3>1, <3>2, <4>1, <2>1, Places, FS_AddElement
               DEF IInv, CountAccounting
    <3>3. CASE f \in Live
      BY <3>1, <3>3, <2>1 DEF IInv, CountAccounting
    <3>. QED BY <3>2, <3>3
  <2>8. IsFiniteSet(Queued)' /\ ByteAccounting' /\ OnlyLimitAborts'
    BY <2>1, <2>2 DEF IInv, ByteAccounting, OnlyLimitAborts
  <2>9. PcHeld'
    BY <2>3 DEF IInv, PcHeld, TypeOK
  <2>. QED BY <2>5, <2>6, <2>7, <2>8, <2>9 DEF IInv
<1>5. CASE ~AtLimit /\ TakeNew(p, kind)
  BY <1>4, <1>5, FramesAssumption DEF TakeNew
<1>6. CASE ~AtLimit /\ TakeFree(p, kind)
  <2>1. Head(free_frame_list) \in Frames
    BY <1>6, TailToSet DEF TakeFree, IInv, TypeOK, SinglePlace
  <2>. QED BY <1>4, <1>6, <2>1, FramesAssumption DEF TakeFree
<1>. QED BY <1>2, <1>3, <1>5, <1>6 DEF get_frame_buffer

\* A producer lets go of its buffer f, which goes to the queue, to the pool or
\* nowhere: what the three steps have in common.
LEMMA LetGo ==
  ASSUME IInv, NEW p \in Producers, pc[p] # "idle",
         held' = [held EXCEPT ![p] = NoFrame], popped' = popped
  PROVE  /\ held[p] \in Frames
         /\ held[p] \notin ToSet(frame_list) \cup ToSet(free_frame_list) \cup leaked
         /\ p \in Holding /\ held[p] \in InHand
         /\ Holding' = Holding \ {p}
         /\ InHand' = InHand \ {held[p]}
         /\ {held'[q] : q \in Holding'} \subseteq {held[q] : q \in Holding}
         /\ \A q \in Holding' : held'[q] = held[q]
<1>1. p \in Holding /\ held[p] \in Frames /\ held[p] \in InHand
  BY DEF IInv, PcHeld, TypeOK, Holding, InHand
<1>2. held[p] \notin ToSet(frame_list) \cup ToSet(free_frame_list) \cup leaked
  BY <1>1 DEF IInv, SinglePlace, Disjoint
<1>3. Holding' = Holding \ {p} /\ \A q \in Holding' : held'[q] = held[q]
  BY DEF IInv, TypeOK, Holding
<1>4. {held'[q] : q \in Holding'} = {held[q] : q \in Holding} \ {held[p]}
  BY <1>1, <1>3 DEF IInv, SinglePlace
<1>5. held[p] # popped
  BY <1>1 DEF IInv, SinglePlace
<1>6. InHand' = InHand \ {held[p]}
  BY <1>4, <1>5 DEF InHand
<1>. QED BY <1>1, <1>2, <1>3, <1>4, <1>6

LEMMA PutInvariant ==
  ASSUME IInv, NEW p \in Producers, NEW n \in Sizes, pc[p] # "idle",
         halted = "no", Fits(n), Put(p, n)
  PROVE  IInv'
<1>. DEFINE f == held[p]
<1>. USE DEF Put, poolVars
<1>1. /\ f \in Frames /\ f \in InHand
      /\ f \notin ToSet(frame_list) \cup ToSet(free_frame_list) \cup leaked
      /\ Holding' = Holding \ {p} /\ InHand' = InHand \ {f}
      /\ {held'[q] : q \in Holding'} \subseteq {held[q] : q \in Holding}
      /\ \A q \in Holding' : held'[q] = held[q]
  BY LetGo
<1>2. /\ frame_list' \in Seq(Frames) /\ IsInjective(frame_list')
      /\ ToSet(frame_list') = ToSet(frame_list) \cup {f}
  BY <1>1, AppendToSet DEF IInv, TypeOK, SinglePlace
<1>3. n \in Nat /\ nsize' \in [Frames -> Nat] /\ nsize'[f] = n
  BY <1>1, SizesAssumption DEF IInv, TypeOK
<1>4. TypeOK'
  BY <1>2, <1>3 DEF IInv, TypeOK
<1>5. SinglePlace'
  <2>1. \A q, r \in Holding' : held'[q] = held'[r] => q = r
    BY <1>1 DEF IInv, SinglePlace
  <2>2. popped' \notin {held'[q] : q \in Holding'}
    BY <1>1 DEF IInv, SinglePlace
  <2>. QED BY <1>1, <1>2, <2>1, <2>2 DEF IInv, SinglePlace, Disjoint
<1>6. IsFiniteSet(Queued)' /\ ByteAccounting'
  <2>. DEFINE Q == ToSet(frame_list)
              size == nsize'
  <2>1. BytesOf(Q, size) = Queued
    BY <1>1, BytesSame, ZenonT(60) DEF Queued
  <2>2. IsFiniteSet(BytesOf(Q, size)) /\ f \notin Q /\ size[f] \in Nat
    BY <1>1, <1>3, <2>1 DEF IInv
  <2>3. Queued' = BytesOf(Q \cup {f}, size)
    BY <1>2 DEF Queued
  <2>. HIDE DEF Q, size
  <2>4. /\ IsFiniteSet(BytesOf(Q \cup {f}, size))
        /\ Cardinality(BytesOf(Q \cup {f}, size))
             = Cardinality(BytesOf(Q, size)) + size[f]
    BY <2>2, BytesAdd
  <2>5. size[f] = n
    BY <1>3 DEF size
  <2>. QED BY <2>1, <2>3, <2>4, <2>5 DEF IInv, ByteAccounting, Fits
<1>7. CountAccounting'
  <2>1. Live' = Live
    BY <1>1, <1>2 DEF Live
  <2>. QED BY <2>1 DEF IInv, CountAccounting
<1>8. PcHeld' /\ OnlyLimitAborts'
  BY DEF IInv, PcHeld, OnlyLimitAborts, TypeOK
<1>. QED BY <1>4, <1>5, <1>6, <1>7, <1>8 DEF IInv

LEMMA LoseInvariant ==
  ASSUME IInv, NEW p \in Producers, NEW n \in Sizes, pc[p] # "idle",
         halted = "no", Lose(p, n)
  PROVE  IInv'
<1>. DEFINE f == held[p]
<1>. USE DEF Lose
<1>1. /\ f \in Frames /\ f \in InHand
      /\ f \notin ToSet(frame_list) \cup ToSet(free_frame_list) \cup leaked
      /\ Holding' = Holding \ {p} /\ InHand' = InHand \ {f}
      /\ {held'[q] : q \in Holding'} \subseteq {held[q] : q \in Holding}
      /\ \A q \in Holding' : held'[q] = held[q]
  BY LetGo
<1>2. n \in Nat /\ nsize' \in [Frames -> Nat]
  BY <1>1, SizesAssumption DEF IInv, TypeOK
<1>3. TypeOK'
  BY <1>1, <1>2 DEF IInv, TypeOK
<1>4. SinglePlace'
  BY <1>1 DEF IInv, SinglePlace, Disjoint
<1>5. Queued' = Queued
  <2>. DEFINE Q == ToSet(frame_list)
  <2>1. f \notin Q
    BY <1>1
  <2>. HIDE DEF Q
  <2>2. BytesOf(Q, nsize') = BytesOf(Q, nsize)
    BY <2>1, BytesSame, ZenonT(60)
  <2>. QED BY <2>2 DEF Q, Queued
<1>6. Live' = Live
  BY <1>1 DEF Live
<1>7. PcHeld'
  BY DEF IInv, PcHeld, TypeOK
<1>. QED BY <1>3, <1>4, <1>5, <1>6, <1>7
         DEF IInv, ByteAccounting, CountAccounting, OnlyLimitAborts

LEMMA RefuseInvariant ==
  ASSUME IInv, NEW p \in Producers, NEW n \in Sizes, pc[p] # "idle",
         NEW answer \in {"full", "fail"}, halted = "no", Refuse(p, n, answer)
  PROVE  IInv'
<1>. USE DEF Refuse, poolVars
<1>1. held[p] \in InHand /\ held[p] \in Frames
  BY DEF IInv, PcHeld, TypeOK, Holding, InHand
<1>2. held[p] \notin ToSet(frame_list)
  BY <1>1 DEF IInv, SinglePlace, Disjoint
<1>3. TypeOK'
  BY <1>1, SizesAssumption DEF IInv, TypeOK
<1>4. Queued' = Queued
  <2>. DEFINE Q == ToSet(frame_list)
  <2>1. held[p] \notin Q
    BY <1>2
  <2>. HIDE DEF Q
  <2>2. BytesOf(Q, nsize') = BytesOf(Q, nsize)
    BY <2>1, BytesSame, ZenonT(60)
  <2>. QED BY <2>2 DEF Q, Queued
<1>5. Holding' = Holding /\ InHand' = InHand /\ Live' = Live
  BY DEF Holding, InHand, Live
<1>6. SinglePlace'
  BY <1>5 DEF IInv, SinglePlace, Disjoint
<1>7. PcHeld'
  BY DEF IInv, PcHeld, TypeOK
<1>. QED BY <1>3, <1>4, <1>5, <1>6, <1>7
         DEF IInv, ByteAccounting, CountAccounting, OnlyLimitAborts

LEMMA GiveBackInvariant ==
  ASSUME IInv, NEW p \in Producers, free_frame_buffer(p)
  PROVE  IInv'
<1>. DEFINE f == held[p]
<1>. USE DEF free_frame_buffer, Recycle
<1>1. /\ f \in Frames /\ f \in InHand
      /\ f \notin ToSet(frame_list) \cup ToSet(free_frame_list) \cup leaked
      /\ Holding' = Holding \ {p} /\ InHand' = InHand \ {f}
      /\ {held'[q] : q \in Holding'} \subseteq {held[q] : q \in Holding}
      /\ \A q \in Holding' : held'[q] = held[q]
  BY LetGo
<1>2. /\ free_frame_list' \in Seq(Frames) /\ IsInjective(free_frame_list')
      /\ ToSet(free_frame_list') = ToSet(free_frame_list) \cup {f}
  BY <1>1, AppendToSet DEF IInv, TypeOK, SinglePlace
<1>3. TypeOK'
  BY <1>1, <1>2 DEF IInv, TypeOK
<1>4. SinglePlace'
  BY <1>1, <1>2 DEF IInv, SinglePlace, Disjoint
<1>5. Queued' = Queued
  <2>. DEFINE Q == ToSet(frame_list)
  <2>1. f \notin Q
    BY <1>1
  <2>. HIDE DEF Q
  <2>2. BytesOf(Q, nsize') = BytesOf(Q, nsize)
    BY <2>1, BytesSame, ZenonT(60)
  <2>. QED BY <2>2 DEF Q, Queued
<1>6. Live' = Live
  BY <1>1, <1>2 DEF Live
<1>7. PcHeld'
  BY DEF IInv, PcHeld, TypeOK
<1>. QED BY <1>3, <1>4, <1>5, <1>6, <1>7
         DEF IInv, ByteAccounting, CountAccounting, OnlyLimitAborts

LEMMA PopInvariant ==
  ASSUME IInv, pop_frame
  PROVE  IInv'
<1>. DEFINE f == Head(frame_list)
<1>. USE DEF pop_frame, poolVars
<1>1. /\ f \in Frames /\ f \in ToSet(frame_list)
      /\ frame_list' \in Seq(Frames) /\ IsInjective(frame_list')
      /\ ToSet(frame_list') = ToSet(frame_list) \ {f}
  BY TailToSet DEF IInv, TypeOK, SinglePlace
<1>2. f \notin ToSet(free_frame_list) \cup InHand \cup leaked /\ f # NoFrame
  BY <1>1, FramesAssumption DEF IInv, SinglePlace, Disjoint
<1>3. Holding' = Holding /\ InHand' = InHand \cup {f}
  BY <1>1, <1>2 DEF Holding, InHand
<1>4. /\ IsFiniteSet(Queued)' /\ ncur_frame_size' = Cardinality(Queued)'
      /\ ncur_frame_size' \in Nat /\ ncur_frame_size' <= ncur_frame_size
  <2>. DEFINE Q == ToSet(frame_list)
  <2>1. f \in Q /\ nsize[f] \in Nat /\ IsFiniteSet(BytesOf(Q, nsize))
    BY <1>1 DEF IInv, TypeOK, Queued
  <2>2. Queued' = BytesOf(Q \ {f}, nsize)
    BY <1>1 DEF Queued
  <2>. HIDE DEF Q
  <2>3. /\ IsFiniteSet(BytesOf(Q \ {f}, nsize))
        /\ Cardinality(BytesOf(Q \ {f}, nsize))
             = Cardinality(BytesOf(Q, nsize)) - nsize[f]
    BY <2>1, BytesRemove
  <2>4. ncur_frame_size = Cardinality(BytesOf(Q, nsize)) /\ ncur_frame_size \in Nat
    BY DEF Q, IInv, ByteAccounting, Queued, TypeOK
  <2>5. Cardinality(BytesOf(Q \ {f}, nsize)) \in Nat
    BY <2>3, FS_CardinalityType
  <2>. QED BY <2>1, <2>2, <2>3, <2>4, <2>5
<1>5. halted' = "no"
  <2>1. CASE frame_list' = <<>>
    <3>1. ToSet(<<>>) = {}
      BY DEF ToSet
    <3>2. Queued' = {}
      BY <2>1, <3>1 DEF Queued, BytesOf
    <3>. QED BY <1>4, <3>2, FS_EmptySet
  <2>. QED BY <2>1
<1>6. TypeOK'
  BY <1>1, <1>4, <1>5 DEF IInv, TypeOK
<1>7. SinglePlace'
  BY <1>1, <1>2, <1>3 DEF IInv, SinglePlace, Disjoint, InHand
<1>8. ByteAccounting'
  BY <1>4, MaxBytesAssumption DEF IInv, ByteAccounting, TypeOK
<1>9. CountAccounting'
  <2>1. Live' = Live
    BY <1>1, <1>3 DEF Live
  <2>. QED BY <2>1 DEF IInv, CountAccounting
<1>10. PcHeld' /\ OnlyLimitAborts'
  BY <1>5 DEF IInv, PcHeld, OnlyLimitAborts
<1>. QED BY <1>4, <1>6, <1>7, <1>8, <1>9, <1>10 DEF IInv

LEMMA MuxerFreeInvariant ==
  ASSUME IInv, MuxerFree
  PROVE  IInv'
<1>. DEFINE f == popped
<1>. USE DEF MuxerFree, Recycle
<1>1. f \in Frames /\ f \in InHand
  BY DEF IInv, TypeOK, InHand
<1>2. f \notin ToSet(frame_list) \cup ToSet(free_frame_list) \cup leaked
  BY <1>1 DEF IInv, SinglePlace, Disjoint
<1>3. Holding' = Holding /\ InHand' = InHand \ {f}
  BY DEF IInv, SinglePlace, Holding, InHand
<1>4. /\ free_frame_list' \in Seq(Frames) /\ IsInjective(free_frame_list')
      /\ ToSet(free_frame_list') = ToSet(free_frame_list) \cup {f}
  BY <1>1, <1>2, AppendToSet DEF IInv, TypeOK, SinglePlace
<1>5. TypeOK'
  BY <1>1, <1>4 DEF IInv, TypeOK
<1>6. SinglePlace'
  <2>1. popped' \notin {held'[q] : q \in Holding'}
    BY <1>3 DEF Holding
  <2>. QED BY <1>1, <1>2, <1>3, <1>4, <2>1 DEF IInv, SinglePlace, Disjoint
<1>7. Queued' = Queued
  <2>. DEFINE Q == ToSet(frame_list)
  <2>1. f \notin Q
    BY <1>2
  <2>. HIDE DEF Q
  <2>2. BytesOf(Q, nsize') = BytesOf(Q, nsize)
    BY <2>1, BytesSame
  <2>. QED BY <2>2 DEF Q, Queued
<1>8. Live' = Live
  BY <1>1, <1>3, <1>4 DEF Live
<1>9. PcHeld'
  BY DEF IInv, PcHeld
<1>. QED BY <1>5, <1>6, <1>7, <1>8, <1>9
         DEF IInv, ByteAccounting, CountAccounting, OnlyLimitAborts

LEMMA DeinitInvariant ==
  ASSUME IInv, deinit_queue
  PROVE  IInv'
<1>. USE DEF deinit_queue
<1>1. ToSet(<<>>) = {} /\ IsInjective(<<>>)
  BY DEF ToSet, IsInjective
<1>2. ncur_frame_size' = 0 /\ halted' = "deleted"
  BY DEF IInv, ByteAccounting, TypeOK
<1>3. Queued' = {}
  BY <1>1 DEF Queued, BytesOf
<1>4. Holding' = {} /\ InHand' = {}
  BY DEF Holding, InHand
<1>5. TypeOK'
  BY <1>2, MaxCountAssumption DEF IInv, TypeOK
<1>6. SinglePlace'
  BY <1>1, <1>4 DEF SinglePlace, Disjoint
<1>7. IsFiniteSet(Queued)' /\ ByteAccounting'
  BY <1>2, <1>3, FS_EmptySet, MaxBytesAssumption DEF ByteAccounting
<1>8. CountAccounting' /\ PcHeld' /\ OnlyLimitAborts'
  BY <1>2 DEF IInv, CountAccounting, PcHeld, OnlyLimitAborts
<1>. QED BY <1>5, <1>6, <1>7, <1>8 DEF IInv

LEMMA NextInvariant == IInv /\ [Next]_vars => IInv'
<1>. SUFFICES ASSUME IInv, [Next]_vars PROVE IInv'
  OBVIOUS
<1>1. ASSUME NEW p \in Producers, ProducerStep(p) PROVE IInv'
  <2>1. ASSUME NEW kind \in {"packet", "metadata"}, get_frame_buffer(p, kind)
        PROVE  IInv'
    BY <2>1, GetInvariant
  <2>2. ASSUME NEW n \in Sizes, SendPacket(p, n) PROVE IInv'
    BY <2>2, PutInvariant, LoseInvariant DEF SendPacket
  <2>3. ASSUME NEW n \in Sizes, SendMetadata(p, n) PROVE IInv'
    BY <2>3, PutInvariant, RefuseInvariant DEF SendMetadata
  <2>4. ASSUME free_frame_buffer(p) PROVE IInv'
    BY <2>4, GiveBackInvariant
  <2>. QED BY <1>1, <2>1, <2>2, <2>3, <2>4 DEF ProducerStep
<1>2. CASE UNCHANGED vars
  <2>1. /\ Queued' = Queued /\ Live' = Live /\ InHand' = InHand
        /\ Holding' = Holding
    BY <1>2 DEF vars, Queued, Live, InHand, Holding
  <2>2. TypeOK' /\ PcHeld' /\ OnlyLimitAborts'
    BY <1>2 DEF vars, IInv, TypeOK, PcHeld, OnlyLimitAborts
  <2>3. SinglePlace'
    BY <1>2, <2>1 DEF vars, IInv, SinglePlace, Disjoint
  <2>. QED BY <1>2, <2>1, <2>2, <2>3
           DEF vars, IInv, ByteAccounting, CountAccounting
<1>. QED BY <1>1, <1>2, PopInvariant, MuxerFreeInvariant, DeinitInvariant DEF Next

-----------------------------------------------------------------------------
(* The theorems.                                                           *)

\* The inductive invariant holds in every state of every behaviour.
THEOREM Invariant == Spec => []IInv
BY InitInvariant, NextInvariant, PTL DEF Spec

\* The types are kept, and get_frame_buffer never counts more than MaxCount
\* buffers.
THEOREM TypeCorrect == Spec => []TypeOK
<1>1. IInv => TypeOK
  BY DEF IInv
<1>. QED BY <1>1, Invariant, PTL

\* No buffer is ever in two places.
THEOREM SinglePlaceTheorem == Spec => []SinglePlace
<1>1. IInv => SinglePlace
  BY DEF IInv
<1>. QED BY <1>1, Invariant, PTL

\* The bytes counted are the bytes queued, and they stay within the bound.
THEOREM ByteTheorem == Spec => []ByteAccounting
<1>1. IInv => ByteAccounting
  BY DEF IInv
<1>. QED BY <1>1, Invariant, PTL

\* The buffers counted are the buffers that exist.
THEOREM CountTheorem == Spec => []CountAccounting
<1>1. IInv => CountAccounting
  BY DEF IInv
<1>. QED BY <1>1, Invariant, PTL

\* Neither the overflow assertion nor the one in pop_frame can fire.
THEOREM AbortTheorem == Spec => []OnlyLimitAborts
<1>1. IInv => OnlyLimitAborts
  BY DEF IInv
<1>. QED BY <1>1, Invariant, PTL

\* Whoever holds a buffer finds the queue short of MaxCount frames: the buffer
\* itself is one of the at most MaxCount that exist, and it is not queued.
THEOREM CountNeverRefusesTheorem == Spec => []CountNeverRefuses
<1>. DEFINE Emptied == halted = "deleted" => frame_list = <<>>
<1>1. Init => Emptied
  BY DEF Init
<1>2. Emptied /\ [Next]_vars => Emptied'
  BY DEF vars, Next, ProducerStep, get_frame_buffer, Abort, TakeNew, TakeFree,
         TakeFrame, SendPacket, SendMetadata, Put, Lose, Refuse, Recycle,
         free_frame_buffer, pop_frame, MuxerFree, deinit_queue
<1>3. IInv /\ Emptied => CountNeverRefuses
  <2>. SUFFICES ASSUME IInv, Emptied, NEW p \in Producers, pc[p] \in {"packet", "metadata"}
                PROVE  Len(frame_list) < MaxCount
    BY DEF CountNeverRefuses
  <2>1. InHand # {}
    BY DEF IInv, PcHeld, InHand, Holding
  <2>2. /\ Len(frame_list) \in Nat /\ Len(free_frame_list) \in Nat
        /\ ntotal \in 0 .. MaxCount
    BY DEF IInv, TypeOK
  <2>3. CASE halted # "deleted"
    BY <2>1, <2>2, <2>3, Room, MaxCountAssumption
  <2>4. CASE halted = "deleted"
    BY <2>4, MaxCountAssumption
  <2>. QED BY <2>3, <2>4
<1>. QED BY <1>1, <1>2, <1>3, Invariant, PTL DEF Spec

-----------------------------------------------------------------------------
(* The queue is the FIFO of BoundedFifo.                                   *)

\* A producer that is about to push has no answer yet.
Unanswered == \A p \in Producers : pc[p] \in {"packet", "metadata"} => ret[p] = "none"

LEMMA NextUnanswered == TypeOK /\ Unanswered /\ [Next]_vars => Unanswered'
<1>. SUFFICES ASSUME TypeOK, Unanswered, [Next]_vars PROVE Unanswered'
  OBVIOUS
<1>. USE DEF Unanswered, TypeOK
<1>1. ASSUME NEW p \in Producers, ProducerStep(p) PROVE Unanswered'
  <2>1. ASSUME NEW kind \in {"packet", "metadata"}, get_frame_buffer(p, kind)
        PROVE  Unanswered'
    BY <2>1 DEF get_frame_buffer, Abort, TakeNew, TakeFree, TakeFrame
  <2>2. ASSUME NEW n \in Sizes, SendPacket(p, n) \/ SendMetadata(p, n) PROVE Unanswered'
    BY <2>2 DEF SendPacket, SendMetadata, Put, Lose, Refuse
  <2>3. CASE free_frame_buffer(p)
    BY <2>3 DEF free_frame_buffer
  <2>. QED BY <1>1, <2>1, <2>2, <2>3 DEF ProducerStep
<1>2. CASE pop_frame \/ MuxerFree \/ deinit_queue \/ UNCHANGED vars
  BY <1>2 DEF pop_frame, MuxerFree, deinit_queue, vars
<1>. QED BY <1>1, <1>2 DEF Next

\* The sizes of the queued frames add up to what the code counts.
LEMMA LengthsCounted ==
  ASSUME IInv
  PROVE  /\ Lengths \in Seq(Nat) /\ Len(Lengths) = Len(frame_list)
         /\ Load(Lengths) = ncur_frame_size
<1>1. /\ frame_list \in Seq(Frames) /\ nsize \in [Frames -> Nat] /\ IsInjective(frame_list)
      /\ ncur_frame_size = Cardinality(BytesOf(ToSet(frame_list), nsize))
  BY DEF IInv, TypeOK, SinglePlace, ByteAccounting, Queued
<1>2. /\ DOMAIN frame_list = 1 .. Len(frame_list) /\ Len(frame_list) \in Nat
      /\ \A i \in DOMAIN frame_list : frame_list[i] \in Frames
  BY <1>1
<1>3. /\ Lengths \in Seq(Nat) /\ DOMAIN Lengths = DOMAIN frame_list
      /\ Len(Lengths) = Len(frame_list)
  BY <1>1, <1>2 DEF Lengths
<1>4. frame_list \in Bijection(DOMAIN Lengths, ToSet(frame_list))
  BY <1>1, <1>2, <1>3 DEF Bijection, Injection, Surjection, IsInjective, ToSet
<1>5. \A i \in DOMAIN Lengths : nsize[frame_list[i]] = Lengths[i]
  BY <1>3 DEF Lengths
<1>6. Cardinality(BytesOf(ToSet(frame_list), nsize)) = Load(Lengths)
  BY <1>3, <1>4, <1>5, LoadFinite, BytesMoved DEF Load
<1>. QED BY <1>1, <1>3, <1>6

\* The sizes change with the queue only.
LEMMA LengthsKept ==
  ASSUME IInv, frame_list' = frame_list,
         nsize' = nsize \/ \E f, n : f \notin ToSet(frame_list) /\ nsize' = [nsize EXCEPT ![f] = n]
  PROVE  Lengths' = Lengths
<1>1. \A i \in DOMAIN frame_list : frame_list[i] \in ToSet(frame_list) /\ frame_list[i] \in Frames
  BY DEF ToSet, IInv, TypeOK
<1>2. \A i \in DOMAIN frame_list : nsize'[frame_list[i]] = nsize[frame_list[i]]
  BY <1>1 DEF IInv, TypeOK
<1>. QED BY <1>2 DEF Lengths

\* Whoever holds a buffer is short of bytes, never of frames, when it is refused.
LEMMA RefusedForBytes ==
  ASSUME IInv, halted = "no", NEW p \in Producers, pc[p] \in {"packet", "metadata"},
         NEW n \in Nat
  PROVE  Fits(n) <=> Load(Lengths) + n <= MaxBytes
<1>1. InHand # {}
  BY DEF IInv, PcHeld, InHand, Holding
<1>2. /\ Len(frame_list) \in Nat /\ Len(free_frame_list) \in Nat
      /\ ntotal \in 0 .. MaxCount
  BY DEF IInv, TypeOK
<1>3. Len(frame_list) < MaxCount
  BY <1>1, <1>2, Room, MaxCountAssumption
<1>. QED BY <1>3, LengthsCounted DEF Fits

LEMMA PushFifo ==
  ASSUME IInv, Unanswered, NEW p \in Producers, NEW n \in Sizes,
         SendPacket(p, n) \/ SendMetadata(p, n)
  PROVE  Fifo!Accept(p, n) \/ Fifo!Refuse(p, n) \/ Fifo!Fail(p)
<1>1. /\ halted = "no" /\ UNCHANGED halted /\ ret[p] = "none" /\ n \in Nat
      /\ pc[p] \in {"packet", "metadata"}
  BY SizesAssumption DEF SendPacket, SendMetadata, Put, Lose, Refuse, Unanswered
<1>2. Up /\ UNCHANGED Up
  BY <1>1 DEF Up
<1>0. Fifo!Load(Lengths) = Load(Lengths)
  BY Zenon DEF Fifo!Load, Load, Fifo!BytesOf, BytesOf, Fifo!Cardinality, Cardinality
<1>3. held[p] \in Frames /\ held[p] \notin ToSet(frame_list)
  BY <1>1 DEF IInv, TypeOK, PcHeld, SinglePlace, Disjoint, InHand, Holding
<1>4. Fits(n) <=> Load(Lengths) + n <= MaxBytes
  BY <1>1, RefusedForBytes
<1>5. CASE Fits(n) /\ Put(p, n)
  <2>1. Lengths' = Append(Lengths, n)
    <3>1. /\ frame_list \in Seq(Frames) /\ Len(frame_list) \in Nat
          /\ frame_list' = Append(frame_list, held[p])
          /\ nsize \in [Frames -> Nat] /\ nsize' = [nsize EXCEPT ![held[p]] = n]
      BY <1>5 DEF Put, IInv, TypeOK
    <3>2. /\ DOMAIN frame_list' = 1 .. Len(frame_list) + 1
          /\ \A i \in 1 .. Len(frame_list) :
               frame_list'[i] = frame_list[i] /\ frame_list[i] \in Frames \ {held[p]}
          /\ frame_list'[Len(frame_list) + 1] = held[p]
      BY <1>3, <3>1 DEF ToSet
    <3>3. /\ \A i \in 1 .. Len(frame_list) : nsize'[frame_list'[i]] = nsize[frame_list[i]]
          /\ nsize'[frame_list'[Len(frame_list) + 1]] = n
      BY <1>3, <3>1, <3>2
    <3>4. Lengths' = [i \in 1 .. Len(frame_list) + 1 |->
                        IF i \in 1 .. Len(frame_list) THEN nsize[frame_list[i]] ELSE n]
      BY <3>1, <3>2, <3>3 DEF Lengths
    <3>5. /\ Lengths \in Seq(Nat) /\ Len(Lengths) = Len(frame_list)
          /\ \A i \in 1 .. Len(frame_list) : Lengths[i] = nsize[frame_list[i]]
      BY LengthsCounted, <3>1 DEF Lengths
    <3>6. Append(Lengths, n) = [i \in 1 .. Len(frame_list) + 1 |->
                        IF i \in 1 .. Len(frame_list) THEN Lengths[i] ELSE n]
      BY <1>1, <3>5, AppendByIndex
    <3>. QED BY <3>4, <3>5, <3>6
  <2>. QED BY <1>0, <1>1, <1>2, <1>4, <1>5, <2>1 DEF Put, Fifo!Accept
<1>6. CASE ~Fits(n) /\ (Lose(p, n) \/ Refuse(p, n, "full"))
  <2>1. frame_list' = frame_list /\ nsize' = [nsize EXCEPT ![held[p]] = n]
        /\ ret' = [ret EXCEPT ![p] = "full"]
    BY <1>6 DEF Lose, Refuse
  <2>2. Lengths' = Lengths
    BY <1>3, <2>1, LengthsKept
  <2>3. Load(Lengths) + n > MaxBytes
    <3>1. Load(Lengths) \in Nat
      BY LengthsCounted, LoadFinite
    <3>. QED BY <1>1, <1>4, <1>6, <3>1, MaxBytesAssumption
  <2>. QED BY <1>0, <1>1, <1>2, <2>1, <2>2, <2>3 DEF Fifo!Refuse
<1>7. CASE Refuse(p, n, "fail")
  <2>1. Lengths' = Lengths
    BY <1>3, <1>7, LengthsKept DEF Refuse
  <2>. QED BY <1>1, <1>2, <1>7, <2>1 DEF Refuse, Fifo!Fail
<1>. QED BY <1>5, <1>6, <1>7 DEF SendPacket, SendMetadata

LEMMA PopFifo ==
  ASSUME IInv, IInv', pop_frame
  PROVE  Fifo!Deliver
<1>1. /\ halted = "no" /\ halted' = "no" /\ frame_list # <<>> /\ frame_list \in Seq(Frames)
      /\ frame_list' = Tail(frame_list) /\ UNCHANGED <<nsize, ret>>
      /\ nsize \in [Frames -> Nat]
  BY DEF pop_frame, IInv, OnlyLimitAborts, TypeOK
<1>2. Up /\ UNCHANGED Up
  BY <1>1 DEF Up
<1>3. /\ Len(frame_list) \in Nat \ {0} /\ DOMAIN frame_list' = 1 .. Len(frame_list) - 1
      /\ DOMAIN frame_list = 1 .. Len(frame_list)
      /\ \A i \in 1 .. Len(frame_list) - 1 : frame_list'[i] = frame_list[i + 1]
  BY <1>1
<1>4. /\ Lengths \in Seq(Nat) /\ Len(Lengths) = Len(frame_list) /\ Lengths # <<>>
      /\ \A i \in 1 .. Len(frame_list) : Lengths[i] = nsize[frame_list[i]]
  BY <1>3, LengthsCounted DEF Lengths
<1>5. Lengths' = [i \in 1 .. Len(Lengths) - 1 |-> nsize[frame_list[i + 1]]]
  BY <1>1, <1>3, <1>4 DEF Lengths
<1>6. Lengths' = [i \in 1 .. Len(Lengths) - 1 |-> Lengths[i + 1]]
  BY <1>3, <1>4, <1>5
<1>7. Tail(Lengths) = [i \in 1 .. Len(Lengths) - 1 |-> Lengths[i + 1]]
  BY <1>4, TailByIndex
<1>. QED BY <1>1, <1>2, <1>4, <1>6, <1>7 DEF Fifo!Deliver

LEMMA NextFifo ==
  ASSUME IInv, IInv', Unanswered, [Next]_vars
  PROVE  Fifo!Next \/ UNCHANGED <<Lengths, ret, Up>>
<1>1. ASSUME NEW p \in Producers, ProducerStep(p)
      PROVE  Fifo!Next \/ UNCHANGED <<Lengths, ret, Up>>
  <2>1. ASSUME NEW kind \in {"packet", "metadata"}, get_frame_buffer(p, kind)
        PROVE  Fifo!Begin(p) \/ Fifo!Halt
    <3>1. Lengths' = Lengths
      BY <2>1, LengthsKept DEF get_frame_buffer, Abort, TakeNew, TakeFree, TakeFrame
    <3>2. CASE Abort("overflow") \/ Abort("limit")
      <4>1. Up /\ Up' = FALSE /\ ret' = ret
        BY <2>1, <3>2 DEF get_frame_buffer, Abort, Up
      <4>. QED BY <3>1, <4>1 DEF Fifo!Halt
    <3>3. CASE TakeNew(p, kind) \/ TakeFree(p, kind)
      <4>1. Up /\ UNCHANGED Up /\ ret' = [ret EXCEPT ![p] = "none"]
        BY <2>1, <3>3 DEF get_frame_buffer, TakeNew, TakeFree, TakeFrame, Up
      <4>. QED BY <3>1, <4>1 DEF Fifo!Begin
    <3>. QED BY <2>1, <3>2, <3>3 DEF get_frame_buffer
  <2>2. ASSUME NEW n \in Sizes, SendPacket(p, n) \/ SendMetadata(p, n)
        PROVE  Fifo!Accept(p, n) \/ Fifo!Refuse(p, n) \/ Fifo!Fail(p)
    BY <2>2, PushFifo
  <2>3. CASE free_frame_buffer(p)
    <3>1. held[p] \notin ToSet(frame_list)
      BY <2>3 DEF free_frame_buffer, IInv, TypeOK, PcHeld, SinglePlace, Disjoint, InHand, Holding
    <3>2. UNCHANGED <<Lengths, ret, halted>>
      BY <2>3, <3>1, LengthsKept DEF free_frame_buffer, Recycle
    <3>. QED BY <3>2 DEF Up
  <2>. QED BY <1>1, <2>1, <2>2, <2>3 DEF ProducerStep, Fifo!Next
<1>2. CASE pop_frame
  BY <1>2, PopFifo DEF Fifo!Next
<1>3. CASE MuxerFree
  <2>1. popped \notin ToSet(frame_list)
    BY <1>3 DEF MuxerFree, IInv, SinglePlace, Disjoint, InHand
  <2>2. UNCHANGED <<Lengths, ret, halted>>
    BY <1>3, <2>1, LengthsKept DEF MuxerFree, Recycle
  <2>. QED BY <2>2 DEF Up
<1>4. CASE deinit_queue
  <2>1. Up /\ Up' = FALSE /\ ret' = ret /\ frame_list' = <<>>
    BY <1>4 DEF deinit_queue, Up
  <2>2. Lengths' = <<>>
    BY <2>1 DEF Lengths
  <2>. QED BY <2>1, <2>2 DEF Fifo!Halt, Fifo!Next
<1>5. CASE UNCHANGED vars
  BY <1>5 DEF vars, Lengths, Up
<1>. QED BY <1>1, <1>2, <1>3, <1>4, <1>5 DEF Next

\* CFrameQueue is the first-in first-out queue it promises to be: a frame is refused
\* exactly when it would exceed the bytes, and frames leave in the order they came.
THEOREM FifoTheorem == Spec => FifoSpec
<1>1. Init => Unanswered
  BY DEF Init, Unanswered
<1>2. IInv /\ Unanswered /\ [Next]_vars => Unanswered'
  BY NextUnanswered DEF IInv
<1>3. Init => Fifo!Init
  <2>. SUFFICES ASSUME Init PROVE Fifo!Init
    OBVIOUS
  <2>1. Lengths = <<>> /\ Up = TRUE
    BY DEF Init, Lengths, Up
  <2>. QED BY <2>1 DEF Init, Fifo!Init
<1>4. IInv /\ IInv' /\ Unanswered /\ [Next]_vars => [Fifo!Next]_(Fifo!fifoVars)
  BY NextFifo DEF Fifo!fifoVars
<1>. QED BY <1>1, <1>2, <1>3, <1>4, Invariant, PTL DEF Spec, FifoSpec, Fifo!Spec
=============================================================================
