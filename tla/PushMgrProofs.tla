---------------------------- MODULE PushMgrProofs ----------------------------
(***************************************************************************)
(* What holds of PushMgr for every number of threads and connections, and  *)
(* what the callbacks must leave alone for it: a callback of Connect or    *)
(* SendPacket may not connect if the limit is to hold, and may not close   *)
(* if no call is to work on a deleted connection.  Whatever they call,     *)
(* UnInitialize leaves nothing.  Calls nest one level, as in PushMgr.      *)
(*                                                                         *)
(* The argument: the lock excludes, so of all threads one at most is past  *)
(* "entering"; below its innermost call there is at most one more, which is*)
(* telling.  What is alive is the table and what these two are opening.    *)
(***************************************************************************)
EXTENDS PushMgr, FiniteSetTheorems, SequenceTheorems, TLAPS

Stacks == [Procs -> Seq(Frame)]

\* The calls thread p is in, and those of them it has called back from.
CallsOf(p) == {stack[p][k] : k \in DOMAIN stack[p]}
Rest(p) == {stack[p][k] : k \in DOMAIN stack[p] \ {1}}

-----------------------------------------------------------------------------
(* What the operations on a stack do.                                      *)

LEMMA StackType ==
  ASSUME stack \in Stacks, NEW p \in Procs
  PROVE  /\ stack[p] \in Seq(Frame) /\ Len(stack[p]) \in Nat
         /\ DOMAIN stack[p] = 1 .. Len(stack[p])
         /\ stack[p] # <<>> => /\ CallsOf(p) = {stack[p][1]} \cup Rest(p)
                               /\ Len(stack[p]) # 0
         /\ stack[p] = <<>> => CallsOf(p) = {} /\ Rest(p) = {} /\ Len(stack[p]) = 0
         /\ Len(stack[p]) = 1 => Rest(p) = {}
         /\ Len(stack[p]) = 2 => Rest(p) = {stack[p][2]}
         /\ \A f \in CallsOf(p) : f \in Frame /\ f.id \in Ids
<1>1. stack[p] \in Seq(Frame)
  BY DEF Stacks
<1>2. /\ Len(stack[p]) \in Nat /\ DOMAIN stack[p] = 1 .. Len(stack[p])
      /\ \A k \in DOMAIN stack[p] : stack[p][k] \in Frame
  BY <1>1
<1>3. stack[p] # <<>> => 1 \in DOMAIN stack[p] /\ Len(stack[p]) # 0
  BY <1>1, EmptySeq
<1>4. \A f \in CallsOf(p) : f \in Frame
  BY <1>2 DEF CallsOf
<1>5. \A f \in Frame : f.id \in Ids
  BY DEF Frame
<1>6. stack[p] = <<>> => CallsOf(p) = {} /\ Rest(p) = {} /\ Len(stack[p]) = 0
  BY DEF CallsOf, Rest
<1>7. stack[p] # <<>> => CallsOf(p) = {stack[p][1]} \cup Rest(p)
  BY <1>3 DEF CallsOf, Rest
<1>8. Len(stack[p]) = 1 => Rest(p) = {}
  BY <1>2 DEF Rest
<1>9. Len(stack[p]) = 2 => Rest(p) = {stack[p][2]}
  <2>1. Len(stack[p]) = 2 => DOMAIN stack[p] \ {1} = {2}
    BY <1>2
  <2> QED
    BY <2>1 DEF Rest
<1> QED
  BY <1>1, <1>2, <1>3, <1>4, <1>5, <1>6, <1>7, <1>8, <1>9

LEMMA Same ==
  ASSUME NEW q \in Procs, stack'[q] = stack[q]
  PROVE  CallsOf(q)' = CallsOf(q) /\ Rest(q)' = Rest(q)
BY DEF CallsOf, Rest

LEMMA Pushed ==
  ASSUME stack \in Stacks, NEW p \in Procs, NEW f \in Frame,
         stack' = [stack EXCEPT ![p] = <<f>> \o stack[p]]
  PROVE  /\ stack' \in Stacks
         /\ \A q \in Procs \ {p} : stack'[q] = stack[q]
         /\ Len(stack'[p]) = Len(stack[p]) + 1
         /\ stack'[p] # <<>> /\ stack'[p][1] = f
         /\ Rest(p)' = CallsOf(p)
         /\ CallsOf(p)' = CallsOf(p) \cup {f}
<1>1. stack[p] \in Seq(Frame)
  BY DEF Stacks
<1>2. stack'[p] = <<f>> \o stack[p] /\ \A q \in Procs \ {p} : stack'[q] = stack[q]
  BY DEF Stacks
<1>3. <<f>> \o stack[p] \in Seq(Frame)
  BY <1>1
<1>4. stack' \in Stacks
  BY <1>3 DEF Stacks
<1>5. /\ Len(stack'[p]) = Len(stack[p]) + 1 /\ stack'[p][1] = f
      /\ \A k \in 1 .. Len(stack[p]) : stack'[p][k + 1] = stack[p][k]
      /\ DOMAIN stack'[p] = 1 .. Len(stack[p]) + 1
      /\ DOMAIN stack[p] = 1 .. Len(stack[p]) /\ Len(stack[p]) \in Nat
  BY <1>1, <1>2
<1>6. Rest(p)' = CallsOf(p)
  <2>1. ASSUME NEW k \in DOMAIN stack'[p] \ {1}
        PROVE  \E l \in DOMAIN stack[p] : stack'[p][k] = stack[p][l]
    <3>1. k - 1 \in DOMAIN stack[p] /\ (k - 1) + 1 = k
      BY <1>5
    <3> QED
      BY <1>5, <3>1
  <2>2. ASSUME NEW k \in DOMAIN stack[p]
        PROVE  \E l \in DOMAIN stack'[p] \ {1} : stack'[p][l] = stack[p][k]
    <3>1. k + 1 \in DOMAIN stack'[p] \ {1}
      BY <1>5
    <3> QED
      BY <1>5, <3>1
  <2>3. Rest(p)' \subseteq CallsOf(p)
    BY <2>1 DEF CallsOf, Rest
  <2>4. CallsOf(p) \subseteq Rest(p)'
    BY <2>2 DEF CallsOf, Rest
  <2> QED
    BY <2>3, <2>4
<1>7. stack'[p] # <<>>
  BY <1>5
<1>8. CallsOf(p)' = {f} \cup Rest(p)'
  <2>1. 1 \in DOMAIN stack'[p]
    BY <1>5
  <2> QED
    BY <1>5, <2>1 DEF CallsOf, Rest
<1> QED
  BY <1>2, <1>4, <1>5, <1>6, <1>7, <1>8

\* The innermost call becomes f.
LEMMA Replaced ==
  ASSUME stack \in Stacks, NEW p \in Procs, stack[p] # <<>>, NEW f \in Frame,
         stack' = [stack EXCEPT ![p] = [stack[p] EXCEPT ![1] = f]]
  PROVE  /\ stack' \in Stacks
         /\ \A q \in Procs \ {p} : stack'[q] = stack[q]
         /\ Len(stack'[p]) = Len(stack[p])
         /\ stack'[p] # <<>> /\ stack'[p][1] = f
         /\ Rest(p)' = Rest(p)
         /\ CallsOf(p)' = Rest(p) \cup {f}
<1>1. stack[p] \in Seq(Frame) /\ 1 \in DOMAIN stack[p]
  BY StackType
<1>2. stack'[p] = [stack[p] EXCEPT ![1] = f] /\ \A q \in Procs \ {p} : stack'[q] = stack[q]
  BY DEF Stacks
<1>3. stack'[p] \in Seq(Frame)
  BY <1>1, <1>2
<1>4. stack' \in Stacks
  BY <1>3 DEF Stacks
<1>5. /\ DOMAIN stack'[p] = DOMAIN stack[p] /\ stack'[p][1] = f
      /\ \A k \in DOMAIN stack[p] : k # 1 => stack'[p][k] = stack[p][k]
  BY <1>1, <1>2
<1>6. Len(stack'[p]) = Len(stack[p]) /\ stack'[p] # <<>>
  BY <1>1, <1>2, <1>3, <1>5
<1>7. Rest(p)' = Rest(p)
  BY <1>5 DEF Rest
<1>8. CallsOf(p)' = Rest(p)' \cup {f}
  <2>1. 1 \in DOMAIN stack'[p]
    BY <1>1, <1>5
  <2> QED
    BY <1>5, <2>1 DEF CallsOf, Rest
<1> QED
  BY <1>2, <1>4, <1>5, <1>6, <1>7, <1>8

LEMMA Moved ==
  ASSUME stack \in Stacks, NEW p \in Procs, stack[p] # <<>>,
         NEW at \in {"connecting", "telling", "waiting", "destroying"}, Goto(p, at)
  PROVE  \E f \in Frame : /\ f.call = stack[p][1].call /\ f.id = stack[p][1].id /\ f.at = at
                          /\ stack' = [stack EXCEPT ![p] = [stack[p] EXCEPT ![1] = f]]
<1>1. stack[p][1] \in Frame
  BY StackType
<1> DEFINE f == [stack[p][1] EXCEPT !.at = at]
<1>2. f \in Frame /\ f.call = stack[p][1].call /\ f.id = stack[p][1].id /\ f.at = at
  BY <1>1 DEF Frame
<1>3. stack' = [stack EXCEPT ![p] = [stack[p] EXCEPT ![1] = f]]
  BY DEF Goto
<1> QED
  BY <1>2, <1>3

LEMMA Returned ==
  ASSUME stack \in Stacks, NEW p \in Procs, Len(stack[p]) \in {1, 2}, Return(p)
  PROVE  /\ stack' \in Stacks
         /\ \A q \in Procs \ {p} : stack'[q] = stack[q]
         /\ Len(stack'[p]) = Len(stack[p]) - 1
         /\ CallsOf(p)' = Rest(p) /\ Rest(p)' = {}
<1>1. stack[p] \in Seq(Frame) /\ Tail(stack[p]) \in Seq(Frame)
  <2>1. stack[p] \in Seq(Frame) /\ stack[p] # <<>>
    BY StackType
  <2> QED
    BY <2>1
<1>2. /\ stack'[p] = Tail(stack[p]) /\ stack' \in Stacks
      /\ \A q \in Procs \ {p} : stack'[q] = stack[q]
  <2>1. stack' = [stack EXCEPT ![p] = Tail(stack[p])]
    BY DEF Return
  <2> HIDE DEF Return
  <2> QED
    BY <1>1, <2>1 DEF Stacks
<1>3. stack' \in Stacks
  BY <1>2
<1>4. /\ Len(stack'[p]) = Len(stack[p]) - 1
      /\ DOMAIN stack'[p] = 1 .. Len(stack[p]) - 1
      /\ Len(stack[p]) = 2 => stack'[p][1] = stack[p][2]
  BY <1>1, <1>2
<1>5. CASE Len(stack[p]) = 1
  <2>1. DOMAIN stack'[p] = {} /\ Rest(p) = {}
    BY <1>4, <1>5, StackType
  <2> QED
    BY <1>2, <1>3, <1>4, <2>1 DEF CallsOf, Rest
<1>6. CASE Len(stack[p]) = 2
  <2>1. DOMAIN stack'[p] = {1} /\ Rest(p) = {stack[p][2]}
    BY <1>4, <1>6, StackType
  <2>2. CallsOf(p)' = {stack'[p][1]} /\ Rest(p)' = {}
    BY <2>1 DEF CallsOf, Rest
  <2> QED
    BY <1>2, <1>3, <1>4, <1>6, <2>1, <2>2
<1> QED
  BY <1>5, <1>6

-----------------------------------------------------------------------------
(* The inductive invariant.                                                *)

Opening(f) == f.call = "connect" /\ f.at \in {"connecting", "telling"}
Waiting(f) == f.call = "close" /\ f.at = "waiting"
Sending(f) == f.call = "send" /\ f.at = "telling"

\* Where a call can be depends on which call it is.
Coherent(f) == /\ f.at = "connecting" => f.call = "connect"
               /\ f.at = "telling" => f.call \in {"connect", "send"}
               /\ f.at = "waiting" => f.call = "close"
               /\ f.at = "destroying" => f.call = "destroy"

\* A nested call is made while the outer one tells; a muxer thread nests none.
ShapeOf(p) == /\ Len(stack[p]) \in {0, 1, 2}
              /\ \A f \in Rest(p) : f.at = "telling"
              /\ Rest(p) # {} => stack[p][1].call \in AppCalls
              /\ \A f \in CallsOf(p) : Coherent(f)
              /\ p \in Ids => Rest(p) = {} /\ \A f \in CallsOf(p) : f.call \in MuxerCalls
Shape == \A p \in Procs : ShapeOf(p)

Working(p) == \E f \in CallsOf(p) : f.at # "entering"
OneHolds == \A p, q \in Procs : Working(p) /\ Working(q) => p = q

\* A connection opened inside the callback of another's is another one.
ApartIn(p) == stack[p] # <<>> => \A f \in Rest(p) :
                Opening(f) /\ Opening(stack[p][1]) => f.id # stack[p][1].id
Apart == \A p \in Procs : ApartIn(p)

\* The table and the connections being opened are all there is.
Books ==
  /\ \A p \in Procs : \A f \in CallsOf(p) :
       /\ Opening(f) => object[f.id] = "alive" /\ f.id \notin m_mPushList
       /\ Waiting(f) => f.id \in m_mPushList
  /\ \A i \in Alive : \/ i \in m_mPushList
                      \/ \E p \in Procs : \E f \in CallsOf(p) : Opening(f) /\ f.id = i

\* Ids are drawn in turn, and threads belong to objects that are alive.
Numbers == \A i \in Ids : /\ object[i] = "none" <=> i >= m_lConnectId
                          /\ muxer[i] \in {"running", "asked", "telling"} => object[i] = "alive"
                          /\ object[i] = "none" => muxer[i] = "none"

\* The room a connection was given when it was begun is still there.
Room == "connect" \notin AppCalls =>
  /\ Cardinality(m_mPushList) <= MaxConnections
  /\ \A p \in Procs : \A f \in CallsOf(p) :
       Opening(f) => Cardinality(m_mPushList) < MaxConnections

\* What is sent on stays in the table.
InUse == "close" \notin AppCalls =>
  \A p \in Procs : \A f \in CallsOf(p) : Sending(f) => f.id \in m_mPushList

\* A muxer thread calls while it runs, and opens other connections than its own.
Running == {i \in Ids : muxer[i] \in {"running", "asked", "telling"}}
Busy(f, i) == i \in Running /\ (Opening(f) => f.id # i)
Own == \A i \in Ids : \A f \in CallsOf(i) : Busy(f, i)

\* After UnInitialize the application calls nothing more, and what is left is
\* being closed.
Gone == g_pPushMgr = "gone" =>
          /\ \A p \in Threads : \A f \in CallsOf(p) : f.call = "destroy"
          /\ \/ m_mPushList = {}
             \/ \E p \in Threads : \E f \in CallsOf(p) : f.call = "destroy"

IInv == /\ TypeOK /\ Shape /\ OneHolds /\ Apart /\ Books /\ Numbers
        /\ Room /\ InUse /\ Own /\ Gone

-----------------------------------------------------------------------------
(* What follows from it.                                                   *)

\* Whoever has the lock, or may take it, is the only one past "entering".
LEMMA Excluded ==
  ASSUME TypeOK, OneHolds, NEW p \in Procs, NEW q \in Procs, q # p,
         CanLock(p) \/ Working(p)
  PROVE  ~Working(q)
<1>1. Holds(q) <=> Working(q)
  BY DEF Holds, Working, CallsOf
<1> QED
  BY <1>1 DEF CanLock, OneHolds

\* So the others open, close and send nothing.
Idle(f) == ~Opening(f) /\ ~Waiting(f) /\ ~Sending(f)

LEMMA OthersIdle ==
  ASSUME TypeOK, OneHolds, NEW p \in Procs, CanLock(p) \/ Working(p),
         NEW q \in Procs \ {p}, NEW f \in CallsOf(q)
  PROVE  Idle(f)
<1>1. ~Working(q)
  BY Excluded
<1> QED
  BY <1>1 DEF Working, Idle, Opening, Waiting, Sending

LEMMA OneOpening ==
  ASSUME TypeOK, Shape, OneHolds, "connect" \notin AppCalls,
         NEW p \in Procs, NEW f \in CallsOf(p), Opening(f),
         NEW q \in Procs, NEW g \in CallsOf(q), Opening(g)
  PROVE  f = g
<1>1. stack \in Stacks
  BY DEF TypeOK, Stacks
<1>2. p = q
  BY DEF OneHolds, Working, Opening
<1>3. stack[p] # <<>> /\ CallsOf(p) = {stack[p][1]} \cup Rest(p)
  BY <1>1, StackType
<1>4. CASE Rest(p) = {}
  BY <1>2, <1>3, <1>4
<1>5. CASE Rest(p) # {}
  <2>1. ~Opening(stack[p][1])
    BY <1>5 DEF Shape, ShapeOf, Opening
  <2>2. Rest(p) = {stack[p][2]}
    BY <1>1, <1>5, StackType DEF Shape, ShapeOf
  <2> QED
    BY <1>2, <1>3, <2>1, <2>2
<1> QED
  BY <1>4, <1>5

LEMMA Finite ==
  ASSUME TypeOK
  PROVE  /\ IsFiniteSet(m_mPushList) /\ Cardinality(m_mPushList) \in Nat
         /\ IsFiniteSet(Alive)
<1>1. IsFiniteSet(Ids)
  BY FS_Interval, MaxIdsAssumption DEF Ids
<1>2. m_mPushList \subseteq Ids /\ Alive \subseteq Ids
  BY DEF TypeOK, Alive
<1> QED
  BY <1>1, <1>2, FS_Subset, FS_CardinalityType

LEMMA Limit ==
  ASSUME IInv, "connect" \notin AppCalls
  PROVE  WithinLimit
<1>1. IsFiniteSet(m_mPushList) /\ Cardinality(m_mPushList) \in Nat /\ IsFiniteSet(Alive)
  BY Finite DEF IInv
<1>2. CASE \E p \in Procs : \E f \in CallsOf(p) : Opening(f)
  <2>1. PICK p \in Procs : \E f \in CallsOf(p) : Opening(f)
    BY <1>2
  <2>2. PICK f \in CallsOf(p) : Opening(f)
    BY <2>1
  <2>3. Alive \subseteq m_mPushList \cup {f.id}
    BY <2>2, OneOpening DEF IInv, Books
  <2>4. Cardinality(m_mPushList) < MaxConnections /\ f.id \notin m_mPushList
    BY <2>2 DEF IInv, Books, Room
  <2>5. /\ IsFiniteSet(m_mPushList \cup {f.id})
        /\ Cardinality(m_mPushList \cup {f.id}) = Cardinality(m_mPushList) + 1
    BY <1>1, <2>4, FS_AddElement
  <2>6. Cardinality(Alive) <= Cardinality(m_mPushList) + 1 /\ Cardinality(Alive) \in Nat
    BY <1>1, <2>3, <2>5, FS_Subset, FS_CardinalityType
  <2> QED
    BY <1>1, <2>4, <2>6, MaxConnectionsAssumption DEF WithinLimit
<1>3. CASE ~ \E p \in Procs : \E f \in CallsOf(p) : Opening(f)
  <2>1. Alive \subseteq m_mPushList
    BY <1>3 DEF IInv, Books
  <2>2. Cardinality(Alive) <= Cardinality(m_mPushList) /\ Cardinality(Alive) \in Nat
    BY <1>1, <2>1, FS_Subset, FS_CardinalityType
  <2> QED
    BY <1>1, <2>2, MaxConnectionsAssumption DEF IInv, Room, WithinLimit
<1> QED
  BY <1>2, <1>3

LEMMA Works ==
  ASSUME IInv, "close" \notin AppCalls
  PROVE  WorksOnAlive
<1>1. stack \in Stacks /\ m_mPushList \subseteq Alive
  BY DEF IInv, TypeOK, Stacks
<1>2. ASSUME NEW p \in Procs, NEW f \in CallsOf(p), f.at \in {"connecting", "telling", "waiting"}
      PROVE  object[f.id] = "alive"
  <2>1. Coherent(f)
    BY DEF IInv, Shape, ShapeOf
  <2>2. Opening(f) \/ Waiting(f) \/ Sending(f)
    BY <1>2, <2>1 DEF Coherent, Opening, Waiting, Sending
  <2> QED
    BY <1>1, <2>2 DEF IInv, Books, InUse, Alive
<1>3. \A i \in Ids : muxer[i] \in {"running", "asked", "telling"} => object[i] = "alive"
  BY DEF IInv, Numbers
<1> QED
  BY <1>2, <1>3 DEF WorksOnAlive, CallsOf

\* A muxer thread that is past the lock belongs to a connection in the table:
\* nobody else is opening one, and it does not open its own.
LEMMA Entered ==
  ASSUME IInv, NEW i \in Ids, Working(i)
  PROVE  i \in m_mPushList
<1>1. i \in Procs /\ \E f \in CallsOf(i) : TRUE
  BY DEF Procs, Working
<1>2. i \in Alive
  BY <1>1 DEF IInv, Own, Busy, Running, Numbers, Alive
<1>3. SUFFICES ASSUME NEW q \in Procs, NEW f \in CallsOf(q), Opening(f), f.id = i
               PROVE  FALSE
  BY <1>2 DEF IInv, Books
<1>4. q = i
  BY <1>1, <1>3 DEF IInv, OneHolds, Working, Opening
<1> QED
  BY <1>3, <1>4 DEF IInv, Own, Busy

LEMMA Nothing ==
  ASSUME IInv
  PROVE  NothingLeft
<1> SUFFICES ASSUME g_pPushMgr = "gone", \A t \in Threads : stack[t] = <<>>
             PROVE  Alive = {} /\ \A i \in Ids : muxer[i] \in {"none", "done"}
  BY DEF NothingLeft
<1>1. stack \in Stacks
  BY DEF IInv, TypeOK, Stacks
<1>2. \A p \in Threads : CallsOf(p) = {}
  BY <1>1, StackType DEF Procs
<1>3. m_mPushList = {}
  BY <1>2 DEF IInv, Gone
<1>4. \A p \in Procs : \A f \in CallsOf(p) : ~Opening(f)
  BY <1>2, <1>3, Entered DEF Procs, Working, Opening
<1>5. Alive = {}
  BY <1>3, <1>4 DEF IInv, Books
<1>6. \A i \in Ids : muxer[i] \notin {"running", "asked", "telling"}
  BY <1>5 DEF IInv, Numbers, Alive
<1>7. \A i \in Ids : muxer[i] \in {"none", "running", "asked", "telling", "done"}
  BY DEF IInv, TypeOK
<1> QED
  BY <1>5, <1>6, <1>7

-----------------------------------------------------------------------------
(* A step of one thread's stack keeps the shape and the lock, and changes  *)
(* that thread's calls alone.                                              *)

\* The calls of p become these.
Only(p, calls) == /\ \A q \in Procs \ {p} : CallsOf(q)' = CallsOf(q) /\ ApartIn(q)' = ApartIn(q)
                  /\ CallsOf(p)' = calls

LEMMA ShapeKept ==
  ASSUME TypeOK, Shape, NEW p \in Procs, \A q \in Procs \ {p} : stack'[q] = stack[q],
         ShapeOf(p)', NEW calls, CallsOf(p)' = calls
  PROVE  Shape' /\ Only(p, calls)
<1>1. \A q \in Procs \ {p} : CallsOf(q)' = CallsOf(q) /\ Rest(q)' = Rest(q)
  BY Same
<1>2. \A q \in Procs \ {p} : ShapeOf(q)'
  BY <1>1 DEF Shape, ShapeOf
<1>3. \A q \in Procs \ {p} : ApartIn(q)' = ApartIn(q)
  BY <1>1 DEF ApartIn, Opening
<1> QED
  BY <1>1, <1>2, <1>3 DEF Shape, Only

LEMMA LockKept ==
  ASSUME TypeOK, OneHolds, NEW p \in Procs, NEW calls, Only(p, calls),
         Working(p)' => Working(p) \/ CanLock(p)
  PROVE  OneHolds'
<1>1. \A q \in Procs \ {p} : Working(q)' <=> Working(q)
  BY DEF Working, Only
<1>2. \A q \in Procs \ {p} : Working(p)' => ~Working(q)
  BY Excluded
<1> QED
  BY <1>1, <1>2 DEF OneHolds

LEMMA PushStep ==
  ASSUME TypeOK, Shape, OneHolds, Apart, NEW p \in Procs, NEW f \in Frame, f.at = "entering",
         stack' = [stack EXCEPT ![p] = <<f>> \o stack[p]],
         \/ Len(stack[p]) = 0 /\ (p \in Ids => f.call \in MuxerCalls)
         \/ /\ Len(stack[p]) = 1 /\ p \notin Ids
            /\ f.call \in AppCalls /\ stack[p][1].at = "telling"
  PROVE  /\ stack' \in Stacks /\ Shape' /\ OneHolds' /\ Apart'
         /\ Only(p, CallsOf(p) \cup {f})
<1>1. stack \in Stacks
  BY DEF TypeOK, Stacks
<1>2. /\ stack' \in Stacks
      /\ \A q \in Procs \ {p} : stack'[q] = stack[q]
      /\ Len(stack'[p]) = Len(stack[p]) + 1
      /\ stack'[p][1] = f
      /\ Rest(p)' = CallsOf(p) /\ CallsOf(p)' = CallsOf(p) \cup {f}
  BY <1>1, Pushed
<1>3. Coherent(f) /\ ~Opening(f)
  BY DEF Coherent, Opening
<1>4. \A g \in CallsOf(p) : Coherent(g)
  BY DEF Shape, ShapeOf
<1>5. ShapeOf(p)'
  <2>1. CASE Len(stack[p]) = 0 /\ (p \in Ids => f.call \in MuxerCalls)
    <3>1. CallsOf(p) = {}
      BY <1>1, <2>1, StackType
    <3>2. Len(stack'[p]) = 1 /\ Rest(p)' = {} /\ CallsOf(p)' = {f}
      BY <1>2, <2>1, <3>1
    <3> QED
      BY <1>3, <2>1, <3>2 DEF ShapeOf, Coherent
  <2>2. CASE /\ Len(stack[p]) = 1 /\ p \notin Ids
             /\ f.call \in AppCalls /\ stack[p][1].at = "telling"
    <3>1. CallsOf(p) = {stack[p][1]}
      BY <1>1, <2>2, StackType
    <3>2. Len(stack'[p]) = 2
      BY <1>2, <2>2
    <3> QED
      BY <1>2, <1>3, <1>4, <2>2, <3>1, <3>2 DEF ShapeOf, Coherent
  <2> QED
    BY <2>1, <2>2
<1>6. Shape' /\ Only(p, CallsOf(p) \cup {f})
  BY <1>2, <1>5, ShapeKept
<1>7. Working(p)' => Working(p)
  BY <1>2 DEF Working
<1>8. ApartIn(p)'
  BY <1>2, <1>3 DEF ApartIn, Opening
<1> QED
  BY <1>2, <1>6, <1>7, <1>8, LockKept DEF Apart, Only

LEMMA ReturnStep ==
  ASSUME TypeOK, Shape, OneHolds, Apart, NEW p \in Procs, stack[p] # <<>>, Return(p)
  PROVE  /\ stack' \in Stacks /\ Shape' /\ OneHolds' /\ Apart'
         /\ Only(p, Rest(p)) /\ CallsOf(p) = {stack[p][1]} \cup Rest(p)
<1>1. stack \in Stacks
  BY DEF TypeOK, Stacks
<1>2. /\ Len(stack[p]) \in {1, 2}
      /\ CallsOf(p) = {stack[p][1]} \cup Rest(p)
  BY <1>1, StackType DEF Shape, ShapeOf
<1>3. /\ stack' \in Stacks
      /\ \A q \in Procs \ {p} : stack'[q] = stack[q]
      /\ Len(stack'[p]) = Len(stack[p]) - 1
      /\ CallsOf(p)' = Rest(p) /\ Rest(p)' = {}
  BY <1>1, <1>2, Returned
<1>4. Len(stack'[p]) \in {0, 1}
  BY <1>2, <1>3
<1>5. ShapeOf(p)'
  BY <1>2, <1>3, <1>4 DEF Shape, ShapeOf, Coherent
<1>6. Shape' /\ Only(p, Rest(p))
  BY <1>3, <1>5, ShapeKept
<1>7. Working(p)' => Working(p)
  BY <1>2, <1>3 DEF Working
<1>8. ApartIn(p)'
  BY <1>3 DEF ApartIn
<1> QED
  BY <1>2, <1>3, <1>6, <1>7, <1>8, LockKept DEF Apart, Only

\* The innermost call goes on as f.
LEMMA ReplaceStep ==
  ASSUME TypeOK, Shape, OneHolds, Apart, NEW p \in Procs, stack[p] # <<>>, NEW f \in Frame,
         f.call = stack[p][1].call, Coherent(f), Working(p) \/ CanLock(p),
         stack' = [stack EXCEPT ![p] = [stack[p] EXCEPT ![1] = f]],
         \A g \in Rest(p) : Opening(f) /\ Opening(g) => f.id # g.id
  PROVE  /\ stack' \in Stacks /\ Shape' /\ OneHolds' /\ Apart'
         /\ Only(p, Rest(p) \cup {f}) /\ CallsOf(p) = {stack[p][1]} \cup Rest(p)
<1>1. stack \in Stacks
  BY DEF TypeOK, Stacks
<1>2. CallsOf(p) = {stack[p][1]} \cup Rest(p)
  BY <1>1, StackType
<1>3. /\ stack' \in Stacks
      /\ \A q \in Procs \ {p} : stack'[q] = stack[q]
      /\ Len(stack'[p]) = Len(stack[p]) /\ stack'[p][1] = f
      /\ Rest(p)' = Rest(p) /\ CallsOf(p)' = Rest(p) \cup {f}
  BY <1>1, Replaced
<1>4. ShapeOf(p)'
  BY <1>2, <1>3 DEF Shape, ShapeOf, Coherent
<1>5. Shape' /\ Only(p, Rest(p) \cup {f})
  BY <1>3, <1>4, ShapeKept
<1>6. ApartIn(p)'
  BY <1>3 DEF ApartIn, Opening
<1> QED
  BY <1>2, <1>3, <1>5, <1>6, LockKept DEF Apart, Only

-----------------------------------------------------------------------------
(* What the calls say of the table and the objects.                        *)

Accounts == Books /\ Room /\ InUse

\* Nothing is opened, deleted or taken out of the table.
LEMMA AccountsKept ==
  ASSUME IInv, UNCHANGED <<m_mPushList, object>>, NEW p \in Procs, NEW calls, Only(p, calls),
         \A f \in calls :
           /\ Opening(f) => \E g \in CallsOf(p) : Opening(g) /\ g.id = f.id
           /\ Waiting(f) \/ Sending(f) => f.id \in m_mPushList \/ f \in CallsOf(p),
         \A f \in CallsOf(p) : Opening(f) => \E g \in calls : Opening(g) /\ g.id = f.id
  PROVE  Accounts'
<1>1. \A q \in Procs : \A f \in CallsOf(q)' :
        /\ Opening(f) => \E g \in CallsOf(q) : Opening(g) /\ g.id = f.id
        /\ Waiting(f) \/ Sending(f) => f.id \in m_mPushList \/ f \in CallsOf(q)
  BY DEF Only
<1>2. \A q \in Procs : \A f \in CallsOf(q) :
        Opening(f) => \E g \in CallsOf(q)' : Opening(g) /\ g.id = f.id
  BY DEF Only
<1>3. \A q \in Procs : \A f \in CallsOf(q)' : Opening(f) =>
        /\ object[f.id] = "alive" /\ f.id \notin m_mPushList
        /\ "connect" \notin AppCalls => Cardinality(m_mPushList) < MaxConnections
  <2> SUFFICES ASSUME NEW q \in Procs, NEW f \in CallsOf(q)', Opening(f)
               PROVE  /\ object[f.id] = "alive" /\ f.id \notin m_mPushList
                      /\ "connect" \notin AppCalls => Cardinality(m_mPushList) < MaxConnections
    OBVIOUS
  <2>1. PICK g \in CallsOf(q) : Opening(g) /\ g.id = f.id
    BY <1>1
  <2> QED
    BY <2>1 DEF IInv, Books, Room
<1>4. \A q \in Procs : \A f \in CallsOf(q)' :
        /\ Waiting(f) => f.id \in m_mPushList
        /\ "close" \notin AppCalls => (Sending(f) => f.id \in m_mPushList)
  BY <1>1 DEF IInv, Books, InUse
<1>5. \A i \in Alive : \/ i \in m_mPushList
                       \/ \E q \in Procs : \E f \in CallsOf(q)' : Opening(f) /\ f.id = i
  <2> SUFFICES ASSUME NEW i \in Alive, i \notin m_mPushList
               PROVE  \E q \in Procs : \E f \in CallsOf(q)' : Opening(f) /\ f.id = i
    OBVIOUS
  <2>1. PICK q \in Procs : \E f \in CallsOf(q) : Opening(f) /\ f.id = i
    BY DEF IInv, Books
  <2> QED
    BY <1>2, <2>1
<1>6. Alive' = Alive /\ m_mPushList' = m_mPushList
  BY DEF Alive
<1>7. Books'
  BY <1>3, <1>4, <1>5, <1>6 DEF Books, Opening, Waiting
<1>8. Room'
  BY <1>3, <1>6 DEF IInv, Room, Opening
<1>9. InUse'
  BY <1>4, <1>6 DEF InUse, Sending
<1> QED
  BY <1>7, <1>8, <1>9 DEF Accounts

\* While p has the lock, what p's calls say is all there is to say.
LEMMA AccountsOf ==
  ASSUME IInv, NEW p \in Procs, NEW calls, Only(p, calls), CanLock(p) \/ Working(p),
         \A f \in calls :
           /\ Opening(f) => object'[f.id] = "alive" /\ f.id \notin m_mPushList'
           /\ Waiting(f) => f.id \in m_mPushList'
           /\ "close" \notin AppCalls => (Sending(f) => f.id \in m_mPushList')
           /\ "connect" \notin AppCalls =>
                (Opening(f) => Cardinality(m_mPushList') < MaxConnections),
         \A i \in Alive' : i \in m_mPushList' \/ \E f \in calls : Opening(f) /\ f.id = i,
         "connect" \notin AppCalls => Cardinality(m_mPushList') <= MaxConnections
  PROVE  Accounts'
<1>1. \A q \in Procs \ {p} : \A f \in CallsOf(q)' : Idle(f)
  BY OthersIdle DEF IInv, Only
<1>2. CallsOf(p)' = calls
  BY DEF Only
<1>3. \A q \in Procs : \A f \in CallsOf(q)' :
        /\ Opening(f) => object'[f.id] = "alive" /\ f.id \notin m_mPushList'
        /\ Waiting(f) => f.id \in m_mPushList'
        /\ "close" \notin AppCalls => (Sending(f) => f.id \in m_mPushList')
        /\ "connect" \notin AppCalls =>
             (Opening(f) => Cardinality(m_mPushList') < MaxConnections)
  BY <1>1, <1>2 DEF Idle
<1>4. Books'
  BY <1>2, <1>3 DEF Books, Opening, Waiting
<1>5. Room'
  BY <1>3 DEF Room, Opening
<1>6. InUse'
  BY <1>3 DEF InUse, Sending
<1> QED
  BY <1>4, <1>5, <1>6 DEF Accounts

LEMMA GoneKept ==
  ASSUME IInv, g_pPushMgr' = g_pPushMgr, m_mPushList' \subseteq m_mPushList,
         NEW p \in Procs, NEW calls, Only(p, calls),
         \A f \in calls : \E g \in CallsOf(p) : g.call = f.call,
         \A f \in CallsOf(p) : f.call = "destroy" =>
           m_mPushList' = {} \/ \E g \in calls : g.call = "destroy"
  PROVE  Gone'
<1> SUFFICES ASSUME g_pPushMgr = "gone"
             PROVE  /\ \A q \in Threads : \A f \in CallsOf(q)' : f.call = "destroy"
                    /\ \/ m_mPushList' = {}
                       \/ \E q \in Threads : \E f \in CallsOf(q)' : f.call = "destroy"
  BY DEF Gone
<1>1. \A q \in Threads : \A f \in CallsOf(q)' : f.call = "destroy"
  BY DEF IInv, Gone, Only, Procs
<1>2. ASSUME m_mPushList' # {}
      PROVE  \E q \in Threads : \E f \in CallsOf(q)' : f.call = "destroy"
  <2>1. PICK q \in Threads : \E f \in CallsOf(q) : f.call = "destroy"
    BY <1>2 DEF IInv, Gone
  <2> QED
    BY <1>2, <2>1 DEF Only, Procs
<1> QED
  BY <1>1, <1>2

\* No muxer thread ends, and those that call are the ones that did, or run.
LEMMA OwnKept ==
  ASSUME IInv, NEW p \in Procs, NEW calls, Only(p, calls),
         Running \subseteq Running',
         p \in Ids => \A f \in calls : Busy(f, p)
  PROVE  Own'
<1>1. \A i \in Ids : i \in Procs
  BY DEF Procs
<1>2. \A i \in Ids : \A f \in CallsOf(i)' : Busy(f, i)
  BY <1>1 DEF IInv, Own, Only
<1>3. \A i \in Ids : \A f : Busy(f, i) => Busy(f, i)'
  BY DEF Busy, Opening
<1> QED
  BY <1>2, <1>3 DEF Own

LEMMA TypeKept ==
  ASSUME TypeOK, UNCHANGED <<g_pPushMgr, m_mPushList, m_lConnectId, object, muxer>>,
         stack' \in Stacks
  PROVE  TypeOK'
BY DEF TypeOK, Alive, Stacks

LEMMA NumbersKept ==
  ASSUME Numbers, UNCHANGED <<m_lConnectId, object, muxer>>
  PROVE  Numbers'
BY DEF Numbers

\* A call is made: by the application, or from a callback.
LEMMA CallMade ==
  ASSUME IInv, NEW p \in Procs, NEW call \in {"connect", "send", "query", "close"},
         CallApi(p, call),
         \/ Len(stack[p]) = 0 /\ (p \in Ids => call \in MuxerCalls /\ p \in Running)
         \/ /\ Len(stack[p]) = 1 /\ p \notin Ids
            /\ call \in AppCalls /\ stack[p][1].at = "telling"
  PROVE  IInv'
<1> USE DEF IInv
<1>1. /\ g_pPushMgr = "live" /\ UNCHANGED <<g_pPushMgr, m_mPushList, m_lConnectId, object, muxer>>
      /\ \E id \in Ids : Push(p, call, id)
  BY DEF CallApi
<1>2. PICK id \in Ids : Push(p, call, id)
  BY <1>1
<1> DEFINE f == [call |-> call, at |-> "entering", id |-> id]
<1>3. /\ f \in Frame /\ f.at = "entering" /\ f.call = call
      /\ ~Opening(f) /\ ~Waiting(f) /\ ~Sending(f)
  BY DEF Frame, Opening, Waiting, Sending
<1>4. stack' = [stack EXCEPT ![p] = <<f>> \o stack[p]]
  BY <1>2 DEF Push
<1> HIDE DEF f
<1>5. /\ stack' \in Stacks /\ Shape' /\ OneHolds' /\ Apart'
      /\ Only(p, CallsOf(p) \cup {f})
  BY <1>3, <1>4, PushStep
<1>6. Accounts'
  <2>1. \A g \in CallsOf(p) \cup {f} : Opening(g) => \E h \in CallsOf(p) : Opening(h) /\ h.id = g.id
    BY <1>3
  <2>2. \A g \in CallsOf(p) \cup {f} : Waiting(g) \/ Sending(g) => g \in CallsOf(p)
    BY <1>3
  <2> QED
    BY <1>1, <1>5, <2>1, <2>2, AccountsKept
<1>7. Gone'
  BY <1>1 DEF Gone
<1>8. Own'
  <2>1. p \in Ids => \A g \in CallsOf(p) \cup {f} : Busy(g, p)
    BY <1>3 DEF Own, Busy
  <2> QED
    BY <1>1, <1>5, <2>1, OwnKept DEF Running
<1> QED
  BY <1>1, <1>5, <1>6, <1>7, <1>8, TypeKept, NumbersKept DEF Accounts

\* A call that has opened nothing returns and changes nothing else.
LEMMA PlainReturn ==
  ASSUME IInv, NEW p \in Procs, stack[p] # <<>>, Return(p),
         UNCHANGED <<g_pPushMgr, m_mPushList, m_lConnectId, object, muxer>>,
         ~Opening(stack[p][1]), stack[p][1].call = "destroy" => m_mPushList = {}
  PROVE  IInv'
<1> USE DEF IInv
<1>1. /\ stack' \in Stacks /\ Shape' /\ OneHolds' /\ Apart'
      /\ Only(p, Rest(p)) /\ CallsOf(p) = {stack[p][1]} \cup Rest(p)
  BY ReturnStep
<1>2. Accounts'
  <2>1. \A f \in Rest(p) : Opening(f) => \E g \in CallsOf(p) : Opening(g) /\ g.id = f.id
    BY <1>1
  <2>2. \A f \in CallsOf(p) : Opening(f) => \E g \in Rest(p) : Opening(g) /\ g.id = f.id
    BY <1>1
  <2>3. \A f \in Rest(p) : f \in CallsOf(p)
    BY <1>1
  <2> QED
    BY <1>1, <2>1, <2>2, <2>3, AccountsKept
<1>3. Gone'
  BY <1>1, GoneKept
<1>4. Own'
  <2>1. p \in Ids => \A f \in Rest(p) : Busy(f, p)
    BY <1>1 DEF Own
  <2> QED
    BY <1>1, <2>1, OwnKept DEF Running
<1> QED
  BY <1>1, <1>2, <1>3, <1>4, TypeKept, NumbersKept DEF Accounts

-----------------------------------------------------------------------------
(* The steps of Connect.                                                   *)

\* The id that is drawn is nobody's.
LEMMA DrawnId ==
  ASSUME IInv, HasRoom
  PROVE  /\ m_lConnectId \in Ids /\ Cardinality(m_mPushList) < MaxConnections
         /\ object[m_lConnectId] = "none" /\ m_lConnectId \notin m_mPushList
         /\ \A q \in Procs : \A f \in CallsOf(q) : Opening(f) => f.id # m_lConnectId
<1> USE DEF IInv
<1>1. m_lConnectId \in 1 .. MaxIds + 1 /\ m_mPushList \subseteq Alive
  BY DEF TypeOK
<1>2. m_lConnectId \in Ids /\ Cardinality(m_mPushList) < MaxConnections
  BY <1>1, MaxIdsAssumption DEF HasRoom, Ids
<1>3. object[m_lConnectId] = "none"
  BY <1>1, <1>2 DEF Numbers
<1>4. m_lConnectId \notin m_mPushList
  BY <1>1, <1>3 DEF Alive
<1>5. \A q \in Procs : \A f \in CallsOf(q) : Opening(f) => f.id # m_lConnectId
  BY <1>3 DEF Books
<1> QED
  BY <1>2, <1>3, <1>4, <1>5

LEMMA ConnectStep ==
  ASSUME IInv, NEW p \in Procs, Connect(p)
  PROVE  IInv'
<1> USE DEF IInv
<1>1. /\ stack[p] # <<>> /\ stack[p][1].call = "connect" /\ stack[p][1].at = "entering"
      /\ CanLock(p) /\ UNCHANGED <<g_pPushMgr, m_mPushList, muxer>>
  BY DEF Connect, Inside
<1>2. CASE ~HasRoom /\ Return(p) /\ UNCHANGED <<m_lConnectId, object>>
  <2>1. ~Opening(stack[p][1])
    BY <1>1 DEF Opening
  <2> QED
    BY <1>1, <1>2, <2>1, PlainReturn
<1>3. CASE /\ HasRoom /\ m_lConnectId' = m_lConnectId + 1
           /\ object' = [object EXCEPT ![m_lConnectId] = "alive"]
           /\ stack' = [stack EXCEPT ![p][1].at = "connecting", ![p][1].id = m_lConnectId]
  <2>1. /\ stack \in Stacks /\ m_lConnectId \in 1 .. MaxIds + 1
        /\ object \in [Ids -> {"none", "alive", "deleted"}] /\ m_mPushList \subseteq Alive
    BY DEF TypeOK, Stacks
  <2> DEFINE id == m_lConnectId
             f == [stack[p][1] EXCEPT !.at = "connecting", !.id = id]
  <2>2. /\ id \in Ids /\ Cardinality(m_mPushList) < MaxConnections
        /\ object[id] = "none" /\ id \notin m_mPushList
        /\ \A q \in Procs : \A g \in CallsOf(q) : Opening(g) => g.id # id
    BY <1>3, DrawnId
  <2>3. stack[p][1] \in Frame /\ stack[p][1] \in CallsOf(p)
    BY <1>1, <2>1, StackType
  <2>4. f \in Frame /\ f.call = "connect" /\ f.at = "connecting" /\ f.id = id
    BY <1>1, <2>2, <2>3 DEF Frame
  <2>5. stack' = [stack EXCEPT ![p] = [stack[p] EXCEPT ![1] = f]]
    BY <1>3
  <2> HIDE DEF f
  <2>6. Coherent(f) /\ Opening(f) /\ ~Waiting(f) /\ ~Sending(f)
    BY <2>4 DEF Coherent, Opening, Waiting, Sending
  <2>7. CallsOf(p) = {stack[p][1]} \cup Rest(p) /\ ~Opening(stack[p][1])
    BY <1>1, <2>1, StackType DEF Opening
  <2>8. /\ stack' \in Stacks /\ Shape' /\ OneHolds' /\ Apart'
        /\ Only(p, Rest(p) \cup {f})
    <3>1. \A g \in Rest(p) : Opening(f) /\ Opening(g) => f.id # g.id
      BY <2>2, <2>4, <2>7
    <3> QED
      BY <1>1, <2>4, <2>5, <2>6, <3>1, ReplaceStep
  <2>9. /\ Alive' = Alive \cup {id} /\ object'[id] = "alive"
        /\ \A i \in Ids : i # id => object'[i] = object[i]
    BY <1>3, <2>1, <2>2 DEF Alive
  <2>10. TypeOK'
    <3>1. m_lConnectId' \in 1 .. MaxIds + 1
      BY <1>3, <2>2, MaxIdsAssumption DEF Ids
    <3>2. object' \in [Ids -> {"none", "alive", "deleted"}]
      BY <1>3, <2>1
    <3>3. m_mPushList' \subseteq Alive'
      BY <1>1, <2>1, <2>9
    <3> QED
      BY <1>1, <2>8, <3>1, <3>2, <3>3 DEF TypeOK, Stacks
  <2>11. Accounts'
    <3>1. \A g \in Rest(p) \cup {f} :
            /\ Opening(g) => object'[g.id] = "alive" /\ g.id \notin m_mPushList'
            /\ Waiting(g) => g.id \in m_mPushList'
            /\ "close" \notin AppCalls => (Sending(g) => g.id \in m_mPushList')
      <4>1. \A g \in Rest(p) : g \in CallsOf(p) /\ g.id \in Ids
        BY <2>1, <2>7, StackType
      <4> QED
        BY <1>1, <2>2, <2>4, <2>6, <2>9, <4>1 DEF Books, InUse
    <3>2. \A i \in Alive' : i \in m_mPushList' \/ \E g \in Rest(p) \cup {f} : Opening(g) /\ g.id = i
      <4>1. \A q \in Procs \ {p} : \A g \in CallsOf(q) : ~Opening(g)
        BY <1>1, OthersIdle DEF Idle
      <4>2. \A i \in Alive : i \in m_mPushList \/ \E g \in Rest(p) : Opening(g) /\ g.id = i
        BY <2>7, <4>1 DEF Books
      <4> QED
        BY <1>1, <2>4, <2>6, <2>9, <4>2
    <3>3. Cardinality(m_mPushList') < MaxConnections /\ Cardinality(m_mPushList') <= MaxConnections
      BY <1>1, <2>2, Finite, MaxConnectionsAssumption
    <3> QED
      BY <1>1, <2>8, <3>1, <3>2, <3>3, AccountsOf
  <2>12. Numbers'
    <3> SUFFICES ASSUME NEW i \in Ids
                 PROVE  /\ object'[i] = "none" <=> i >= m_lConnectId'
                        /\ muxer'[i] \in {"running", "asked", "telling"} => object'[i] = "alive"
                        /\ object'[i] = "none" => muxer'[i] = "none"
      BY DEF Numbers
    <3>1. CASE i = id
      BY <1>1, <1>3, <2>1, <2>2, <3>1 DEF Ids
    <3>2. CASE i # id
      BY <1>1, <1>3, <2>1, <2>2, <3>2 DEF Numbers, Ids
    <3> QED
      BY <3>1, <3>2
  <2>13. Gone'
    <3>1. \A g \in Rest(p) \cup {f} : \E h \in CallsOf(p) : h.call = g.call
      BY <1>1, <2>3, <2>4, <2>7
    <3>2. \A g \in CallsOf(p) : g.call = "destroy" => \E h \in Rest(p) \cup {f} : h.call = "destroy"
      BY <1>1, <2>7
    <3> QED
      BY <1>1, <2>8, <3>1, <3>2, GoneKept
  <2>14. Own'
    <3>1. ASSUME p \in Ids PROVE \A g \in Rest(p) \cup {f} : Busy(g, p)
      <4>1. p \in Running /\ \A g \in Rest(p) : Busy(g, p)
        BY <2>3, <2>7, <3>1 DEF Own, Busy
      <4>2. object[p] = "alive"
        BY <4>1 DEF Running, Numbers
      <4> QED
        BY <2>2, <2>4, <4>1, <4>2 DEF Busy
    <3> QED
      BY <1>1, <2>8, <3>1, OwnKept DEF Running
  <2> QED
    BY <2>8, <2>10, <2>11, <2>12, <2>13, <2>14 DEF Accounts
<1> QED
  BY <1>2, <1>3 DEF Connect

\* The innermost call of p moves to another place and the table, the objects
\* and the ids are left alone.
LEMMA MoveOn ==
  ASSUME IInv, NEW p \in Procs, stack[p] # <<>>,
         NEW at \in {"connecting", "telling", "waiting", "destroying"}, Goto(p, at),
         Working(p) \/ CanLock(p),
         UNCHANGED <<g_pPushMgr, m_mPushList, m_lConnectId, object>>, Running \subseteq Running',
         \/ Opening(stack[p][1]) /\ at = "telling"
         \/ stack[p][1].call = "send" /\ at = "telling" /\ stack[p][1].id \in m_mPushList
         \/ stack[p][1].call = "close" /\ at = "waiting" /\ stack[p][1].id \in m_mPushList
         \/ stack[p][1].call = "destroy" /\ at = "destroying"
  PROVE  stack' \in Stacks /\ Shape' /\ OneHolds' /\ Apart' /\ Accounts' /\ Own' /\ Gone'
<1> USE DEF IInv
<1>1. stack \in Stacks
  BY DEF TypeOK, Stacks
<1> DEFINE g == stack[p][1]
<1>2. PICK f \in Frame : /\ f.call = g.call /\ f.id = g.id /\ f.at = at
                         /\ stack' = [stack EXCEPT ![p] = [stack[p] EXCEPT ![1] = f]]
  BY <1>1, Moved
<1>3. CallsOf(p) = {g} \cup Rest(p)
  BY <1>1, StackType
<1>4. /\ Coherent(f)
      /\ Waiting(f) \/ Sending(f) => f.id \in m_mPushList
      /\ Opening(f) <=> Opening(g)
  BY <1>2 DEF Coherent, Opening, Waiting, Sending
<1>5. \A h \in Rest(p) : Opening(f) /\ Opening(h) => f.id # h.id
  BY <1>2, <1>4 DEF Apart, ApartIn
<1>6. /\ stack' \in Stacks /\ Shape' /\ OneHolds' /\ Apart' /\ Only(p, Rest(p) \cup {f})
  BY <1>2, <1>4, <1>5, ReplaceStep
<1> HIDE DEF g
<1>7. Accounts'
  <2>1. \A h \in Rest(p) \cup {f} : Opening(h) => \E k \in CallsOf(p) : Opening(k) /\ k.id = h.id
    BY <1>2, <1>3, <1>4
  <2>2. \A h \in CallsOf(p) : Opening(h) => \E k \in Rest(p) \cup {f} : Opening(k) /\ k.id = h.id
    BY <1>2, <1>3, <1>4
  <2>3. \A h \in Rest(p) \cup {f} : Waiting(h) \/ Sending(h) => h.id \in m_mPushList \/ h \in CallsOf(p)
    BY <1>3, <1>4
  <2> QED
    BY <1>6, <2>1, <2>2, <2>3, AccountsKept
<1>8. Gone'
  <2>1. \A h \in Rest(p) \cup {f} : \E k \in CallsOf(p) : k.call = h.call
    BY <1>2, <1>3
  <2>2. \A h \in CallsOf(p) : h.call = "destroy" => \E k \in Rest(p) \cup {f} : k.call = "destroy"
    BY <1>2, <1>3
  <2> QED
    BY <1>6, <2>1, <2>2, GoneKept
<1>9. Own'
  <2>1. ASSUME p \in Ids PROVE \A h \in Rest(p) \cup {f} : Busy(h, p)
    <3>1. Busy(g, p) /\ \A h \in Rest(p) : Busy(h, p)
      BY <1>3, <2>1 DEF Own
    <3> QED
      BY <1>2, <1>4, <3>1 DEF Busy
  <2> QED
    BY <1>6, <2>1, OwnKept
<1> QED
  BY <1>6, <1>7, <1>8, <1>9

LEMMA ToldStep ==
  ASSUME IInv, NEW p \in Procs, ConnectSucceeds(p) \/ ConnectFails(p)
  PROVE  IInv'
<1> USE DEF IInv
<1>1. /\ stack[p] # <<>> /\ stack[p][1].call = "connect" /\ stack[p][1].at = "connecting"
      /\ Goto(p, "telling") /\ UNCHANGED <<g_pPushMgr, m_mPushList, m_lConnectId, object>>
      /\ muxer' \in {muxer, [muxer EXCEPT ![stack[p][1].id] = "running"]}
  BY DEF ConnectSucceeds, ConnectFails, Inside, ThisId
<1>2. stack \in Stacks /\ m_lConnectId \in 1 .. MaxIds + 1
  BY DEF TypeOK, Stacks
<1>3. stack[p][1] \in CallsOf(p) /\ stack[p][1].id \in Ids
  BY <1>1, <1>2, StackType
<1>4. Opening(stack[p][1]) /\ Working(p)
  BY <1>1, <1>3 DEF Opening, Working
<1>5. stack' \in Stacks /\ Shape' /\ OneHolds' /\ Apart' /\ Accounts' /\ Own' /\ Gone'
  <2>1. Running \subseteq Running'
    BY <1>1 DEF Running, TypeOK
  <2> QED
    BY <1>1, <1>4, <2>1, MoveOn
<1>6. object[stack[p][1].id] = "alive"
  BY <1>3, <1>4 DEF Books
<1>7. muxer' \in [Ids -> {"none", "running", "asked", "telling", "done"}]
  BY <1>1 DEF TypeOK
<1>8. TypeOK'
  BY <1>1, <1>5, <1>7 DEF TypeOK, Alive, Stacks
<1>9. Numbers'
  <2>1. \A i \in Ids : i # stack[p][1].id => muxer'[i] = muxer[i]
    BY <1>1 DEF TypeOK
  <2> QED
    BY <1>1, <1>6, <2>1 DEF Numbers
<1> QED
  BY <1>5, <1>8, <1>9 DEF Accounts

\* What returns from Connect: the connection it was opening, and what it leaves.
LEMMA OpenedBy ==
  ASSUME IInv, NEW p \in Procs, stack[p] # <<>>, Opening(stack[p][1])
  PROVE  /\ stack \in Stacks /\ stack[p][1].id \in Ids /\ Working(p)
         /\ CallsOf(p) = {stack[p][1]} \cup Rest(p)
         /\ object[stack[p][1].id] = "alive" /\ stack[p][1].id \notin m_mPushList
         /\ \A f \in Rest(p) : f \in CallsOf(p) /\ f.id \in Ids /\ ~Waiting(f)
                               /\ (Opening(f) => f.id # stack[p][1].id)
         /\ "connect" \notin AppCalls =>
              Rest(p) = {} /\ Cardinality(m_mPushList) < MaxConnections
         /\ \A i \in Alive : \/ i \in m_mPushList \/ i = stack[p][1].id
                             \/ \E f \in Rest(p) : Opening(f) /\ f.id = i
<1> USE DEF IInv
<1>1. stack \in Stacks
  BY DEF TypeOK, Stacks
<1>2. /\ CallsOf(p) = {stack[p][1]} \cup Rest(p)
      /\ \A f \in CallsOf(p) : f.id \in Ids
  BY <1>1, StackType
<1>3. Working(p)
  BY <1>2 DEF Working, Opening
<1>4. /\ object[stack[p][1].id] = "alive" /\ stack[p][1].id \notin m_mPushList
      /\ "connect" \notin AppCalls => Cardinality(m_mPushList) < MaxConnections
  BY <1>2 DEF Books, Room
<1>5. "connect" \notin AppCalls => Rest(p) = {}
  BY DEF Opening, Shape, ShapeOf
<1>6. \A f \in Rest(p) : ~Waiting(f) /\ (Opening(f) => f.id # stack[p][1].id)
  BY DEF Shape, ShapeOf, Waiting, Apart, ApartIn
<1>7. \A q \in Procs \ {p} : \A f \in CallsOf(q) : ~Opening(f)
  BY <1>3, OthersIdle DEF Idle
<1>8. \A i \in Alive : \/ i \in m_mPushList \/ i = stack[p][1].id
                       \/ \E f \in Rest(p) : Opening(f) /\ f.id = i
  BY <1>2, <1>7 DEF Books
<1> QED
  BY <1>1, <1>2, <1>3, <1>4, <1>5, <1>6, <1>8

LEMMA RegisterStep ==
  ASSUME IInv, NEW p \in Procs, Register(p)
  PROVE  IInv'
<1> USE DEF IInv
<1> DEFINE f == stack[p][1]
           id == f.id
<1>1. /\ stack[p] # <<>> /\ f.call = "connect" /\ f.at = "telling"
      /\ m_mPushList' = m_mPushList \cup {id} /\ Return(p)
      /\ UNCHANGED <<g_pPushMgr, m_lConnectId, object, muxer>>
  BY DEF Register, Inside, ThisId
<1>2. Opening(f)
  BY <1>1 DEF Opening
<1> HIDE DEF f
<1>3. /\ id \in Ids /\ Working(p) /\ CallsOf(p) = {f} \cup Rest(p)
      /\ object[id] = "alive" /\ id \notin m_mPushList
      /\ \A g \in Rest(p) : g \in CallsOf(p) /\ ~Waiting(g) /\ (Opening(g) => g.id # id)
      /\ "connect" \notin AppCalls =>
           Rest(p) = {} /\ Cardinality(m_mPushList) < MaxConnections
      /\ \A i \in Alive : \/ i \in m_mPushList \/ i = id
                          \/ \E g \in Rest(p) : Opening(g) /\ g.id = i
  BY <1>1, <1>2, OpenedBy DEF f
<1>4. stack' \in Stacks /\ Shape' /\ OneHolds' /\ Apart' /\ Only(p, Rest(p))
  BY <1>1, ReturnStep
<1>5. TypeOK'
  BY <1>1, <1>3, <1>4 DEF TypeOK, Alive, Stacks
<1>6. Accounts'
  <2>1. \A g \in Rest(p) :
          /\ Opening(g) => object'[g.id] = "alive" /\ g.id \notin m_mPushList'
          /\ "close" \notin AppCalls => (Sending(g) => g.id \in m_mPushList')
    BY <1>1, <1>3 DEF Books, InUse
  <2>2. \A i \in Alive' : i \in m_mPushList' \/ \E g \in Rest(p) : Opening(g) /\ g.id = i
    BY <1>1, <1>3 DEF Alive
  <2>3. /\ Cardinality(m_mPushList') = Cardinality(m_mPushList) + 1
        /\ Cardinality(m_mPushList) \in Nat
    BY <1>1, <1>3, Finite, FS_AddElement
  <2>4. "connect" \notin AppCalls => Cardinality(m_mPushList') <= MaxConnections
    BY <1>3, <2>3, MaxConnectionsAssumption
  <2> QED
    BY <1>3, <1>4, <2>1, <2>2, <2>4, AccountsOf
<1>7. Gone'
  <2> SUFFICES ASSUME g_pPushMgr = "gone"
               PROVE  /\ \A q \in Threads : \A g \in CallsOf(q)' : g.call = "destroy"
                      /\ \E q \in Threads : \E g \in CallsOf(q)' : g.call = "destroy"
    BY <1>1 DEF Gone
  <2>1. p \in Ids /\ p \notin Threads
    BY <1>1, <1>3 DEF Gone, Procs
  <2>2. m_mPushList # {}
    BY <1>3, <2>1, Entered
  <2> QED
    BY <1>4, <2>1, <2>2 DEF Gone, Only, Procs
<1>8. Numbers'
  BY <1>1, NumbersKept
<1>9. Own'
  <2>1. p \in Ids => \A g \in Rest(p) : Busy(g, p)
    BY <1>3 DEF Own
  <2> QED
    BY <1>1, <1>4, <2>1, OwnKept DEF Running
<1> QED
  BY <1>4, <1>5, <1>6, <1>7, <1>8, <1>9 DEF Accounts

LEMMA GiveUpStep ==
  ASSUME IInv, NEW p \in Procs, GiveUp(p)
  PROVE  IInv'
<1> USE DEF IInv
<1> DEFINE f == stack[p][1]
           id == f.id
<1>1. /\ stack[p] # <<>> /\ f.call = "connect" /\ f.at = "telling" /\ muxer[id] = "none"
      /\ object' = [object EXCEPT ![id] = "deleted"] /\ Return(p)
      /\ UNCHANGED <<g_pPushMgr, m_mPushList, m_lConnectId, muxer>>
  BY DEF GiveUp, Inside, ThisId
<1>2. Opening(f)
  BY <1>1 DEF Opening
<1> HIDE DEF f
<1>3. /\ id \in Ids /\ Working(p) /\ CallsOf(p) = {f} \cup Rest(p)
      /\ object[id] = "alive" /\ id \notin m_mPushList
      /\ \A g \in Rest(p) : g \in CallsOf(p) /\ g.id \in Ids /\ ~Waiting(g)
                            /\ (Opening(g) => g.id # id)
      /\ "connect" \notin AppCalls => Rest(p) = {}
      /\ \A i \in Alive : \/ i \in m_mPushList \/ i = id
                          \/ \E g \in Rest(p) : Opening(g) /\ g.id = i
  BY <1>1, <1>2, OpenedBy DEF f
<1>4. stack' \in Stacks /\ Shape' /\ OneHolds' /\ Apart' /\ Only(p, Rest(p))
  BY <1>1, ReturnStep
<1>5. /\ object \in [Ids -> {"none", "alive", "deleted"}] /\ m_mPushList \subseteq Alive
      /\ m_mPushList' = m_mPushList
  BY <1>1 DEF TypeOK
<1>6. /\ Alive' = Alive \ {id} /\ \A i \in Ids : i # id => object'[i] = object[i]
      /\ object'[id] = "deleted" /\ object' \in [Ids -> {"none", "alive", "deleted"}]
  BY <1>1, <1>3, <1>5 DEF Alive
<1>7. TypeOK'
  BY <1>1, <1>3, <1>4, <1>5, <1>6 DEF TypeOK, Stacks
<1>8. Accounts'
  <2>1. \A g \in Rest(p) :
          /\ Opening(g) => object'[g.id] = "alive" /\ g.id \notin m_mPushList'
          /\ "close" \notin AppCalls => (Sending(g) => g.id \in m_mPushList')
    BY <1>3, <1>5, <1>6 DEF Books, InUse
  <2>2. \A i \in Alive' : i \in m_mPushList' \/ \E g \in Rest(p) : Opening(g) /\ g.id = i
    BY <1>3, <1>5, <1>6
  <2>3. "connect" \notin AppCalls => Cardinality(m_mPushList') <= MaxConnections
    BY <1>5 DEF Room
  <2> QED
    BY <1>3, <1>4, <2>1, <2>2, <2>3, AccountsOf
<1>9. Gone'
  BY <1>1, <1>3, <1>4, <1>5, GoneKept
<1>10. Numbers'
  BY <1>1, <1>3, <1>6 DEF Numbers
<1>11. Own'
  <2>1. p \in Ids => \A g \in Rest(p) : Busy(g, p)
    BY <1>3 DEF Own
  <2> QED
    BY <1>1, <1>4, <2>1, OwnKept DEF Running
<1> QED
  BY <1>4, <1>7, <1>8, <1>9, <1>10, <1>11 DEF Accounts

-----------------------------------------------------------------------------
(* The steps of the other calls.                                           *)

LEMMA Asked ==
  ASSUME TypeOK, Numbers, NEW id \in Ids, AskToStop(id), UNCHANGED <<m_lConnectId, object>>
  PROVE  /\ muxer' \in [Ids -> {"none", "running", "asked", "telling", "done"}]
         /\ Numbers' /\ Running \subseteq Running'
<1>1. /\ muxer \in [Ids -> {"none", "running", "asked", "telling", "done"}]
      /\ muxer' = [muxer EXCEPT ![id] = IF @ = "running" THEN "asked" ELSE @]
  BY DEF TypeOK, AskToStop
<1>2. \A i \in Ids : muxer'[i] = IF i = id /\ muxer[i] = "running" THEN "asked" ELSE muxer[i]
  BY <1>1
<1> QED
  BY <1>1, <1>2 DEF Numbers, Running

LEMMA SendOrCloseStep ==
  ASSUME IInv, NEW p \in Procs, Send(p) \/ Close(p)
  PROVE  IInv'
<1> USE DEF IInv
<1>1. /\ stack[p] # <<>> /\ CanLock(p) /\ stack[p][1].id \in m_mPushList
      /\ UNCHANGED <<g_pPushMgr, m_mPushList, m_lConnectId, object>>
      /\ \/ stack[p][1].call = "send" /\ Goto(p, "telling") /\ UNCHANGED muxer
         \/ stack[p][1].call = "close" /\ Goto(p, "waiting") /\ AskToStop(stack[p][1].id)
  BY DEF Send, Close, Inside, ThisId
<1>2. stack[p][1].id \in Ids
  BY <1>1 DEF TypeOK, Alive
<1>3. /\ Numbers' /\ Running \subseteq Running'
      /\ muxer' \in [Ids -> {"none", "running", "asked", "telling", "done"}]
  <2>1. CASE UNCHANGED muxer
    BY <1>1, <2>1, NumbersKept DEF TypeOK, Running
  <2>2. CASE AskToStop(stack[p][1].id)
    BY <1>1, <1>2, <2>2, Asked
  <2> QED
    BY <1>1, <2>1, <2>2
<1>4. stack' \in Stacks /\ Shape' /\ OneHolds' /\ Apart' /\ Accounts' /\ Own' /\ Gone'
  BY <1>1, <1>3, MoveOn
<1>5. TypeOK'
  BY <1>1, <1>3, <1>4 DEF TypeOK, Alive, Stacks
<1> QED
  BY <1>3, <1>4, <1>5 DEF Accounts

\* A connection leaves the table and is deleted once its thread is done.
LEMMA Deleted ==
  ASSUME IInv, NEW id \in m_mPushList, muxer[id] = "done",
         m_mPushList' = m_mPushList \ {id}, object' = [object EXCEPT ![id] = "deleted"],
         UNCHANGED <<g_pPushMgr, m_lConnectId, muxer>>, stack' \in Stacks
  PROVE  /\ TypeOK' /\ Numbers' /\ Alive' = Alive \ {id}
         /\ \A i \in Ids \ {id} : object'[i] = object[i]
         /\ "connect" \notin AppCalls => Cardinality(m_mPushList') <= MaxConnections
<1> USE DEF IInv
<1>1. /\ m_mPushList \subseteq Alive /\ id \in Ids
      /\ object \in [Ids -> {"none", "alive", "deleted"}] /\ object[id] = "alive"
  BY DEF TypeOK, Alive
<1>2. Alive' = Alive \ {id}
  BY <1>1 DEF Alive
<1>3. /\ Cardinality(m_mPushList') <= Cardinality(m_mPushList)
      /\ Cardinality(m_mPushList) \in Nat /\ Cardinality(m_mPushList') \in Nat
  BY Finite, FS_Subset, FS_CardinalityType
<1>4. TypeOK'
  BY <1>1, <1>2 DEF TypeOK, Stacks
<1>5. \A i \in Ids : object'[i] = IF i = id THEN "deleted" ELSE object[i]
  BY <1>1
<1>6. Numbers'
  BY <1>1, <1>5 DEF Numbers
<1>7. "connect" \notin AppCalls => Cardinality(m_mPushList') <= MaxConnections
  BY <1>3, MaxConnectionsAssumption DEF Room
<1> QED
  BY <1>2, <1>4, <1>5, <1>6, <1>7

LEMMA CloseReturnsStep ==
  ASSUME IInv, NEW p \in Procs, CloseReturns(p)
  PROVE  IInv'
<1> USE DEF IInv
<1> DEFINE f == stack[p][1]
           id == f.id
<1>1. /\ stack[p] # <<>> /\ f.call = "close" /\ f.at = "waiting" /\ muxer[id] = "done"
      /\ m_mPushList' = m_mPushList \ {id} /\ object' = [object EXCEPT ![id] = "deleted"]
      /\ Return(p) /\ UNCHANGED <<g_pPushMgr, m_lConnectId, muxer>>
  BY DEF CloseReturns, Inside, ThisId
<1>2. /\ stack' \in Stacks /\ Shape' /\ OneHolds' /\ Apart'
      /\ Only(p, Rest(p)) /\ CallsOf(p) = {f} \cup Rest(p)
  BY <1>1, ReturnStep
<1>3. /\ "close" \notin AppCalls => Rest(p) = {}
      /\ \A g \in Rest(p) : ~Waiting(g)
  BY <1>1 DEF Shape, ShapeOf, Waiting
<1>4. Waiting(f) /\ ~Opening(f)
  BY <1>1 DEF Waiting, Opening
<1> HIDE DEF f
<1>5. id \in m_mPushList /\ Working(p)
  BY <1>1, <1>2, <1>4 DEF Books, Working
<1>6. /\ TypeOK' /\ Numbers' /\ Alive' = Alive \ {id}
      /\ \A i \in Ids \ {id} : object'[i] = object[i]
      /\ "connect" \notin AppCalls => Cardinality(m_mPushList') <= MaxConnections
  BY <1>1, <1>2, <1>5, Deleted
<1>7. Accounts'
  <2>1. \A g \in Rest(p) : Opening(g) =>
          /\ object'[g.id] = "alive" /\ g.id \notin m_mPushList'
          /\ "connect" \notin AppCalls => Cardinality(m_mPushList') < MaxConnections
    <3> SUFFICES ASSUME NEW g \in Rest(p), Opening(g)
                 PROVE  /\ object'[g.id] = "alive" /\ g.id \notin m_mPushList'
                        /\ "connect" \notin AppCalls =>
                             Cardinality(m_mPushList') < MaxConnections
      OBVIOUS
    <3>1. g \in CallsOf(p) /\ object[g.id] = "alive" /\ g.id \notin m_mPushList
      BY <1>2 DEF Books
    <3>2. g.id \in Ids
      BY <3>1, StackType DEF TypeOK, Stacks
    <3>3. "connect" \notin AppCalls => Cardinality(m_mPushList) < MaxConnections
      BY <3>1 DEF Room
    <3>4. /\ Cardinality(m_mPushList') <= Cardinality(m_mPushList)
          /\ Cardinality(m_mPushList) \in Nat /\ Cardinality(m_mPushList') \in Nat
      BY <1>1, Finite, FS_Subset, FS_CardinalityType
    <3>5. g.id # id
      BY <1>5, <3>1
    <3> QED
      BY <1>1, <1>6, <3>1, <3>2, <3>3, <3>4, <3>5, MaxConnectionsAssumption
  <2>2. \A i \in Alive' : i \in m_mPushList' \/ \E g \in Rest(p) : Opening(g) /\ g.id = i
    <3>1. \A q \in Procs \ {p} : \A g \in CallsOf(q) : ~Opening(g)
      BY <1>5, OthersIdle DEF Idle
    <3>2. \A i \in Alive : i \in m_mPushList \/ \E g \in Rest(p) : Opening(g) /\ g.id = i
      BY <1>2, <1>4, <3>1 DEF Books
    <3> QED
      BY <1>1, <1>6, <3>2
  <2> QED
    BY <1>2, <1>3, <1>5, <1>6, <2>1, <2>2, AccountsOf
<1>8. Gone'
  <2>1. \A g \in CallsOf(p) : g.call = "destroy" => g \in Rest(p)
    BY <1>1, <1>2
  <2>2. \A g \in Rest(p) : g \in CallsOf(p)
    BY <1>2
  <2>3. g_pPushMgr' = g_pPushMgr /\ m_mPushList' \subseteq m_mPushList
    BY <1>1
  <2> QED
    BY <1>2, <2>1, <2>2, <2>3, GoneKept
<1>9. Own'
  <2>1. p \in Ids => \A g \in Rest(p) : Busy(g, p)
    BY <1>2 DEF Own
  <2> QED
    BY <1>1, <1>2, <2>1, OwnKept DEF Running
<1> QED
  BY <1>2, <1>6, <1>7, <1>8, <1>9 DEF Accounts

LEMMA DestroyNextStep ==
  ASSUME IInv, NEW p \in Procs, DestroyNext(p)
  PROVE  IInv'
<1> USE DEF IInv
<1>1. /\ stack[p] # <<>> /\ stack[p][1].call = "destroy" /\ CanLock(p)
      /\ Goto(p, "destroying") /\ UNCHANGED <<g_pPushMgr, m_lConnectId>>
  BY DEF DestroyNext
<1>2. stack \in Stacks
  BY DEF TypeOK, Stacks
<1>3. PICK id \in m_mPushList :
        \/ AskToStop(id) /\ UNCHANGED <<m_mPushList, object>>
        \/ /\ muxer[id] = "done" /\ m_mPushList' = m_mPushList \ {id}
           /\ object' = [object EXCEPT ![id] = "deleted"] /\ UNCHANGED muxer
  BY DEF DestroyNext
<1>4. id \in Ids
  BY DEF TypeOK, Alive
<1>5. CASE AskToStop(id) /\ UNCHANGED <<m_mPushList, object>>
  <2>1. /\ Numbers' /\ Running \subseteq Running'
        /\ muxer' \in [Ids -> {"none", "running", "asked", "telling", "done"}]
    BY <1>1, <1>4, <1>5, Asked
  <2>2. stack' \in Stacks /\ Shape' /\ OneHolds' /\ Apart' /\ Accounts' /\ Own' /\ Gone'
    BY <1>1, <1>5, <2>1, MoveOn
  <2>3. TypeOK'
    BY <1>1, <1>5, <2>1, <2>2 DEF TypeOK, Alive, Stacks
  <2> QED
    BY <2>1, <2>2, <2>3 DEF Accounts
<1>6. CASE /\ muxer[id] = "done" /\ m_mPushList' = m_mPushList \ {id}
           /\ object' = [object EXCEPT ![id] = "deleted"] /\ UNCHANGED muxer
  <2>1. PICK f \in Frame : /\ f.call = "destroy" /\ f.at = "destroying"
                           /\ stack' = [stack EXCEPT ![p] = [stack[p] EXCEPT ![1] = f]]
    BY <1>1, <1>2, Moved
  <2>2. Coherent(f) /\ ~Opening(f) /\ ~Waiting(f) /\ ~Sending(f)
    BY <2>1 DEF Coherent, Opening, Waiting, Sending
  <2>3. Rest(p) = {}
    BY <1>1, CallsAssumption DEF Shape, ShapeOf
  <2>4. /\ stack' \in Stacks /\ Shape' /\ OneHolds' /\ Apart' /\ Only(p, {f})
        /\ CallsOf(p) = {stack[p][1]}
    BY <1>1, <2>1, <2>2, <2>3, ReplaceStep
  <2>5. /\ TypeOK' /\ Numbers' /\ Alive' = Alive \ {id}
        /\ "connect" \notin AppCalls => Cardinality(m_mPushList') <= MaxConnections
    BY <1>1, <1>6, <2>4, Deleted
  <2>6. Accounts'
    <3>1. ~Opening(stack[p][1])
      BY <1>1 DEF Opening
    <3>2. \A q \in Procs : \A g \in CallsOf(q) : ~Opening(g)
      BY <1>1, <2>4, <3>1, OthersIdle DEF Idle
    <3>3. \A i \in Alive' : i \in m_mPushList'
      BY <1>6, <2>5, <3>2 DEF Books
    <3> QED
      BY <1>1, <2>2, <2>4, <2>5, <3>3, AccountsOf
  <2>7. Gone'
    BY <1>1, <1>6, <2>1, <2>4, GoneKept
  <2>8. Own'
    <3>1. stack[p][1] \in CallsOf(p)
      BY <2>4
    <3>2. p \in Ids => \A g \in {f} : Busy(g, p)
      BY <2>2, <3>1 DEF Own, Busy
    <3> QED
      BY <1>6, <2>4, <3>2, OwnKept DEF Running
  <2> QED
    BY <2>4, <2>5, <2>6, <2>7, <2>8 DEF Accounts
<1> QED
  BY <1>3, <1>5, <1>6

LEMMA UnInitializeStep ==
  ASSUME IInv, NEW p \in Threads, UnInitialize(p)
  PROVE  IInv'
<1> USE DEF IInv
<1>1. /\ \A t \in Threads : stack[t] = <<>>
      /\ g_pPushMgr' = "gone" /\ Push(p, "destroy", 1)
      /\ UNCHANGED <<m_mPushList, m_lConnectId, object, muxer>>
  BY DEF UnInitialize
<1>2. stack \in Stacks /\ p \in Procs /\ p \notin Ids /\ 1 \in Ids
  BY ThreadsAssumption, MaxIdsAssumption DEF TypeOK, Stacks, Procs, Ids
<1> DEFINE f == [call |-> "destroy", at |-> "entering", id |-> 1]
<1>3. /\ f \in Frame /\ f.at = "entering" /\ f.call = "destroy"
      /\ ~Opening(f) /\ ~Waiting(f) /\ ~Sending(f)
  BY <1>2 DEF Frame, Opening, Waiting, Sending
<1>4. stack' = [stack EXCEPT ![p] = <<f>> \o stack[p]]
  BY <1>1 DEF Push
<1> HIDE DEF f
<1>5. \A t \in Threads : CallsOf(t) = {} /\ Len(stack[t]) = 0
  BY <1>1, <1>2, StackType DEF Procs
<1>6. stack' \in Stacks /\ Shape' /\ OneHolds' /\ Apart' /\ Only(p, {f})
  BY <1>2, <1>3, <1>4, <1>5, PushStep
<1>7. Accounts'
  BY <1>1, <1>2, <1>3, <1>5, <1>6, AccountsKept
<1>8. Gone'
  <2>1. \A t \in Threads : \A g \in CallsOf(t)' : g.call = "destroy"
    BY <1>3, <1>5, <1>6 DEF Only, Procs
  <2>2. \E g \in CallsOf(p)' : g.call = "destroy"
    BY <1>3, <1>6 DEF Only
  <2> QED
    BY <2>1, <2>2 DEF Gone
<1>9. TypeOK'
  BY <1>1, <1>6 DEF TypeOK, Alive, Stacks
<1>10. Numbers'
  BY <1>1, NumbersKept
<1>11. Own'
  BY <1>1, <1>2, <1>6, OwnKept DEF Running
<1> QED
  BY <1>6, <1>7, <1>8, <1>9, <1>10, <1>11 DEF Accounts

\* Steps that leave the calls alone.
LEMMA StillStep ==
  ASSUME IInv, UNCHANGED <<m_mPushList, m_lConnectId, object, stack>>,
         g_pPushMgr' \in {"none", "live", "gone"}, g_pPushMgr' = "gone" => g_pPushMgr = "gone",
         \/ UNCHANGED muxer
         \/ \E i \in Ids : /\ muxer[i] \in {"running", "asked", "telling"}
                           /\ stack[i] = <<>>
                           /\ \E s \in {"telling", "done"} : muxer' = [muxer EXCEPT ![i] = s]
  PROVE  IInv'
<1> USE DEF IInv
<1>1. \A p \in Procs : CallsOf(p)' = CallsOf(p) /\ Rest(p)' = Rest(p)
  BY DEF CallsOf, Rest
<1>2. Shape' /\ OneHolds' /\ Apart'
  BY <1>1 DEF Shape, ShapeOf, OneHolds, Working, Apart, ApartIn
<1>3. Books' /\ Room' /\ InUse'
  BY <1>1 DEF Books, Room, InUse, Alive
<1>4. Gone'
  BY <1>1 DEF Gone, Procs
<1>5. muxer' \in [Ids -> {"none", "running", "asked", "telling", "done"}]
  BY DEF TypeOK
<1>6. TypeOK'
  BY <1>5 DEF TypeOK, Alive
<1>7. Numbers'
  <2>1. CASE UNCHANGED muxer
    BY <2>1, NumbersKept
  <2>2. CASE \E i \in Ids : /\ muxer[i] \in {"running", "asked", "telling"}
                            /\ \E s \in {"telling", "done"} : muxer' = [muxer EXCEPT ![i] = s]
    <3>1. PICK i \in Ids : /\ muxer[i] \in {"running", "asked", "telling"}
                           /\ \E s \in {"telling", "done"} : muxer' = [muxer EXCEPT ![i] = s]
      BY <2>2
    <3>2. PICK s \in {"telling", "done"} : muxer' = [muxer EXCEPT ![i] = s]
      BY <3>1
    <3>3. object[i] = "alive" /\ \A j \in Ids : muxer'[j] = IF j = i THEN s ELSE muxer[j]
      BY <3>1, <3>2 DEF Numbers, TypeOK
    <3> QED
      BY <3>3 DEF Numbers
  <2> QED
    BY <2>1, <2>2
<1>8. Own'
  <2>1. \A i \in Ids : \A f \in CallsOf(i) : muxer'[i] = muxer[i]
    BY DEF CallsOf, TypeOK
  <2> QED
    BY <1>1, <2>1 DEF Own, Busy, Running, Opening, Procs
<1> QED
  BY <1>2, <1>3, <1>4, <1>6, <1>7, <1>8

-----------------------------------------------------------------------------
(* The invariant holds always.                                             *)

LEMMA Starts ==
  ASSUME Init
  PROVE  IInv
<1>1. \A p \in Procs : stack[p] = <<>> /\ CallsOf(p) = {} /\ Rest(p) = {} /\ Len(stack[p]) = 0
  BY DEF Init, CallsOf, Rest
<1>2. TypeOK
  <2>1. <<>> \in Seq(Frame)
    OBVIOUS
  <2>2. 1 \in 1 .. MaxIds + 1
    BY MaxIdsAssumption
  <2> QED
    BY <2>1, <2>2 DEF Init, TypeOK
<1>3. Shape /\ OneHolds /\ Apart
  BY <1>1 DEF Shape, ShapeOf, OneHolds, Working, Apart, ApartIn
<1>4. Books /\ Room /\ InUse
  BY <1>1, FS_EmptySet, MaxConnectionsAssumption DEF Init, Books, Room, InUse, Alive
<1>5. Numbers /\ Gone /\ Own
  BY <1>1 DEF Init, Numbers, Gone, Own, Ids, Procs
<1> QED
  BY <1>2, <1>3, <1>4, <1>5 DEF IInv

LEMMA CallStepKeeps ==
  ASSUME IInv, NEW p \in Procs, CallStep(p)
  PROVE  IInv'
<1>1. CASE Connect(p)
  BY <1>1, ConnectStep
<1>2. CASE ConnectSucceeds(p) \/ ConnectFails(p)
  BY <1>2, ToldStep
<1>3. CASE Register(p)
  BY <1>3, RegisterStep
<1>4. CASE GiveUp(p)
  BY <1>4, GiveUpStep
<1>5. CASE NotFound(p) \/ SendReturns(p) \/ Query(p)
  <2>1. /\ stack[p] # <<>> /\ Return(p)
        /\ stack[p][1].call \in {"send", "query", "close"}
        /\ UNCHANGED <<g_pPushMgr, m_mPushList, m_lConnectId, object, muxer>>
    BY <1>5 DEF NotFound, SendReturns, Query, Inside
  <2> QED
    BY <2>1, PlainReturn DEF Opening
<1>6. CASE Send(p) \/ Close(p)
  BY <1>6, SendOrCloseStep
<1>7. CASE CloseReturns(p)
  BY <1>7, CloseReturnsStep
<1>8. CASE DestroyNext(p)
  BY <1>8, DestroyNextStep
<1>9. CASE DestroyReturns(p)
  <2>1. /\ stack[p] # <<>> /\ Return(p) /\ stack[p][1].call = "destroy" /\ m_mPushList = {}
        /\ UNCHANGED <<g_pPushMgr, m_mPushList, m_lConnectId, object, muxer>>
    BY <1>9 DEF DestroyReturns
  <2> QED
    BY <2>1, PlainReturn DEF Opening
<1> QED
  BY <1>1, <1>2, <1>3, <1>4, <1>5, <1>6, <1>7, <1>8, <1>9 DEF CallStep

LEMMA StepKeeps ==
  ASSUME IInv, [Next]_vars
  PROVE  IInv'
<1>1. stack \in Stacks
  BY DEF IInv, TypeOK, Stacks
<1>2. ASSUME NEW p \in Threads, Initialize(p) PROVE IInv'
  BY <1>2, StillStep DEF Initialize
<1>3. ASSUME NEW p \in Threads, NewCall(p) PROVE IInv'
  <2>1. p \in Procs /\ p \notin Ids
    BY ThreadsAssumption DEF Procs, Ids
  <2>2. Len(stack[p]) = 0 /\ \E call \in {"connect", "send", "query", "close"} : CallApi(p, call)
    BY <1>1, <1>3, <2>1, StackType DEF NewCall
  <2> QED
    BY <2>1, <2>2, CallMade
<1>4. ASSUME NEW p \in Threads, AppCallback(p) PROVE IInv'
  <2>1. p \in Procs /\ p \notin Ids
    BY ThreadsAssumption DEF Procs, Ids
  <2>2. /\ Len(stack[p]) = 1 /\ stack[p][1].at = "telling"
        /\ \E call \in AppCalls : CallApi(p, call)
    BY <1>4 DEF AppCallback
  <2> QED
    BY <2>1, <2>2, CallsAssumption, CallMade
<1>5. ASSUME NEW i \in Ids, MuxerCallback(i) PROVE IInv'
  <2>1. i \in Procs
    BY DEF Procs
  <2>2. Len(stack[i]) = 0 /\ i \in Running /\ \E call \in MuxerCalls : CallApi(i, call)
    BY <1>1, <1>5, <2>1, StackType DEF MuxerCallback, Running
  <2> QED
    BY <2>1, <2>2, CallsAssumption, CallMade
<1>6. ASSUME NEW i \in Ids, MuxerEnds(i) \/ MuxerExits(i) PROVE IInv'
  <2>1. /\ UNCHANGED <<g_pPushMgr, m_mPushList, m_lConnectId, object, stack>>
        /\ muxer[i] \in {"running", "asked", "telling"} /\ stack[i] = <<>>
        /\ \E s \in {"telling", "done"} : muxer' = [muxer EXCEPT ![i] = s]
    BY <1>6 DEF MuxerEnds, MuxerExits
  <2>2. g_pPushMgr' \in {"none", "live", "gone"} /\ g_pPushMgr' = g_pPushMgr
    BY <2>1 DEF IInv, TypeOK
  <2> QED
    BY <2>1, <2>2, StillStep
<1>7. CASE UNCHANGED vars
  <2>1. UNCHANGED <<g_pPushMgr, m_mPushList, m_lConnectId, object, muxer, stack>>
    BY <1>7 DEF vars
  <2>2. g_pPushMgr' \in {"none", "live", "gone"} /\ g_pPushMgr' = g_pPushMgr
    BY <2>1 DEF IInv, TypeOK
  <2> QED
    BY <2>1, <2>2, StillStep
<1> QED
  BY <1>2, <1>3, <1>4, <1>5, <1>6, <1>7, UnInitializeStep, CallStepKeeps DEF Next

LEMMA Always == Spec => []IInv
<1>1. Init => IInv
  BY Starts
<1>2. IInv /\ [Next]_vars => IInv'
  BY StepKeeps
<1> QED
  BY <1>1, <1>2, PTL DEF Spec

\* The variables keep to their types, and the table only ever names objects
\* that have not been deleted (pushmgr.cpp: m_mPushList), whatever the callbacks
\* call.
THEOREM TypeCorrect == Spec => []TypeOK
<1>1. IInv => TypeOK
  BY DEF IInv
<1> QED
  BY <1>1, Always, PTL

\* Never more connections alive than nMax_Connection_Count, although Connect
\* measures the table when it draws the id and enters it after its callbacks:
\* unless one of these callbacks connects, they leave it its room.
THEOREM LimitTheorem ==
  ASSUME "connect" \notin AppCalls
  PROVE  Spec => []WithinLimit
<1>1. IInv => WithinLimit
  BY Limit
<1> QED
  BY <1>1, Always, PTL

\* No call and no muxer thread works on a connection another call has deleted,
\* unless a callback on an application's thread closes what its caller works on.
THEOREM WorksTheorem ==
  ASSUME "close" \notin AppCalls
  PROVE  Spec => []WorksOnAlive
<1>1. IInv => WorksOnAlive
  BY Works
<1> QED
  BY <1>1, Always, PTL

\* Once UnInitialize is over no connection is alive and no muxer thread runs,
\* whatever the callbacks call: one that a muxer thread opens in the meantime is
\* in the table before its own connection can be destroyed.
THEOREM NothingLeftTheorem == Spec => []NothingLeft
<1>1. IInv => NothingLeft
  BY Nothing
<1> QED
  BY <1>1, Always, PTL
=============================================================================
