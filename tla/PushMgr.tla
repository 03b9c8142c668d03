------------------------------ MODULE PushMgr ------------------------------
(***************************************************************************)
(* The manager of the push connections (sdk/pushmgr.cpp) behind the API of *)
(* sdk/isvpush.cpp: the table of connections, the one recursive lock every *)
(* call holds to its end, and the callbacks the application gets on its own*)
(* threads (inside Connect and SendPacket) and on the muxer threads.       *)
(*                                                                         *)
(* A thread is a stack of calls, the innermost first: the application may  *)
(* call the API again from a callback (AppCalls, MuxerCalls say what it    *)
(* calls there).  A connection is an id and what its muxer thread does;    *)
(* BasePush has the inside of a connection.                                *)
(*                                                                         *)
(* The application keeps to "Init resource once" and calls UnInitialize    *)
(* when none of its threads is inside the API.                             *)
(***************************************************************************)
EXTENDS Naturals, Sequences, FiniteSets

CONSTANTS Threads,         \* threads of the application
          MaxIds,          \* bound: connections ever opened
          MaxConnections,  \* g_nMaxConnectionCount
          AppCalls,        \* what a callback on an application thread calls
          MuxerCalls       \* what a callback on a muxer thread calls

ASSUME MaxIdsAssumption == MaxIds \in Nat \ {0}
ASSUME MaxConnectionsAssumption == MaxConnections \in Nat \ {0}
ASSUME ThreadsAssumption == Threads \cap Nat = {}
ASSUME CallsAssumption == AppCalls \cup MuxerCalls \subseteq {"connect", "send", "query", "close"}

Ids == 1 .. MaxIds

VARIABLES
  g_pPushMgr,    \* "none" before Initialize, "live", "gone" after UnInitialize
  m_mPushList,   \* the ids in the table
  m_lConnectId,  \* the next id
  object,        \* the connection objects: "none", "alive" or "deleted"
  muxer,         \* the muxer threads
  stack          \* the calls each thread is in, the innermost first

vars == <<g_pPushMgr, m_mPushList, m_lConnectId, object, muxer, stack>>

\* A muxer thread is named by its connection.
Procs == Threads \cup Ids

Init == /\ g_pPushMgr = "none"
        /\ m_mPushList = {}
        /\ m_lConnectId = 1
        /\ object = [i \in Ids |-> "none"]
        /\ muxer = [i \in Ids |-> "none"]
        /\ stack = [p \in Procs |-> <<>>]

-----------------------------------------------------------------------------
(* Calls and the lock.                                                     *)

\* Everyone between taking the lock and returning holds it; it is recursive.
Holds(p) == \E i \in DOMAIN stack[p] : stack[p][i].at # "entering"
CanLock(p) == \A q \in Procs \ {p} : ~Holds(q)

Inside(p, call, at) == /\ stack[p] # <<>>
                       /\ stack[p][1].call = call /\ stack[p][1].at = at
ThisId(p) == stack[p][1].id

Push(p, call, id) ==
  stack' = [stack EXCEPT ![p] = <<[call |-> call, at |-> "entering", id |-> id]>> \o @]
Goto(p, at) == stack' = [stack EXCEPT ![p][1].at = at]
Return(p) == stack' = [stack EXCEPT ![p] = Tail(@)]

\* The calls start with lbcheck_pointer(g_pPushMgr).
CallApi(p, call) == /\ g_pPushMgr = "live"
                    /\ \E id \in Ids : /\ call = "connect" => id = 1
                                       /\ Push(p, call, id)
                    /\ UNCHANGED <<g_pPushMgr, m_mPushList, m_lConnectId, object, muxer>>

\* Initialize creates the manager, also when it then refuses its parameters.
Initialize(p) == /\ g_pPushMgr = "none" /\ stack[p] = <<>>
                 /\ g_pPushMgr' = "live"
                 /\ UNCHANGED <<m_mPushList, m_lConnectId, object, muxer, stack>>

NewCall(p) == /\ stack[p] = <<>>
              /\ \E call \in {"connect", "send", "query", "close"} : CallApi(p, call)

\* A callback calls the API: on an application thread from within Connect and
\* SendPacket (at "telling"), on a muxer thread from its own callbacks.
AppCallback(p) == /\ Len(stack[p]) = 1 /\ stack[p][1].at = "telling"
                  /\ \E call \in AppCalls : CallApi(p, call)

MuxerCallback(i) == /\ muxer[i] \in {"running", "asked", "telling"} /\ stack[i] = <<>>
                    /\ \E call \in MuxerCalls : CallApi(i, call)

-----------------------------------------------------------------------------
(* Connect, and the variants ConnectByApp, ConnectByDeviceToken and        *)
(* Live_Connect that differ in where the url comes from.                   *)

\* mutant: one connection too many
HasRoomForOneMore == Cardinality(m_mPushList) <= MaxConnections /\ m_lConnectId <= MaxIds

\* GenConnectId looks at the size of the table (and MaxIds ends the model).
HasRoom == Cardinality(m_mPushList) < MaxConnections /\ m_lConnectId <= MaxIds

Connect(p) ==
  /\ Inside(p, "connect", "entering") /\ CanLock(p)
  /\ \/ /\ HasRoom
        /\ m_lConnectId' = m_lConnectId + 1
        /\ object' = [object EXCEPT ![m_lConnectId] = "alive"]
        /\ stack' = [stack EXCEPT ![p][1].at = "connecting", ![p][1].id = m_lConnectId]
     \/ ~HasRoom /\ Return(p) /\ UNCHANGED <<m_lConnectId, object>>
  /\ UNCHANGED <<g_pPushMgr, m_mPushList, muxer>>

\* The server accepts: the muxer thread starts, CONNECT_SUCCESS is told.
ConnectSucceeds(p) == /\ Inside(p, "connect", "connecting")
                      /\ muxer' = [muxer EXCEPT ![ThisId(p)] = "running"]
                      /\ Goto(p, "telling")
                      /\ UNCHANGED <<g_pPushMgr, m_mPushList, m_lConnectId, object>>

\* Only then does the connection enter the table.
Register(p) == /\ Inside(p, "connect", "telling") /\ muxer[ThisId(p)] # "none"
               /\ m_mPushList' = m_mPushList \cup {ThisId(p)}
               /\ Return(p)
               /\ UNCHANGED <<g_pPushMgr, m_lConnectId, object, muxer>>

\* The server does not: PUBLISH_STREAM_FAILED is told and the object deleted.
ConnectFails(p) == /\ Inside(p, "connect", "connecting")
                   /\ Goto(p, "telling")
                   /\ UNCHANGED <<g_pPushMgr, m_mPushList, m_lConnectId, object, muxer>>

GiveUp(p) == /\ Inside(p, "connect", "telling") /\ muxer[ThisId(p)] = "none"
             /\ object' = [object EXCEPT ![ThisId(p)] = "deleted"]
             /\ Return(p)
             /\ UNCHANGED <<g_pPushMgr, m_mPushList, m_lConnectId, muxer>>

-----------------------------------------------------------------------------
(* The calls that look a connection up.                                    *)

NotFound(p) == /\ stack[p] # <<>> /\ stack[p][1].at = "entering"
               /\ stack[p][1].call \in {"send", "query", "close"}
               /\ CanLock(p)
               /\ ThisId(p) \notin m_mPushList
               /\ Return(p)
               /\ UNCHANGED <<g_pPushMgr, m_mPushList, m_lConnectId, object, muxer>>

\* SendPacket and SendMetadata; PAUSE may be told before they return.
Send(p) == /\ Inside(p, "send", "entering") /\ CanLock(p)
           /\ ThisId(p) \in m_mPushList
           /\ Goto(p, "telling")
           /\ UNCHANGED <<g_pPushMgr, m_mPushList, m_lConnectId, object, muxer>>

SendReturns(p) == /\ Inside(p, "send", "telling")
                  /\ Return(p)
                  /\ UNCHANGED <<g_pPushMgr, m_mPushList, m_lConnectId, object, muxer>>

\* IsConnected and RecordSendPacket.
Query(p) == /\ Inside(p, "query", "entering") /\ CanLock(p)
            /\ ThisId(p) \in m_mPushList
            /\ Return(p)
            /\ UNCHANGED <<g_pPushMgr, m_mPushList, m_lConnectId, object, muxer>>

\* Stop: a running thread is asked to end.
AskToStop(id) == muxer' = [muxer EXCEPT ![id] = IF @ = "running" THEN "asked" ELSE @]

\* mutant: the thread is waited for and never asked
CloseUnasked(p) == /\ Inside(p, "close", "entering") /\ CanLock(p)
                   /\ ThisId(p) \in m_mPushList
                   /\ Goto(p, "waiting")
                   /\ UNCHANGED <<g_pPushMgr, m_mPushList, m_lConnectId, object, muxer>>

Close(p) == /\ Inside(p, "close", "entering") /\ CanLock(p)
            /\ ThisId(p) \in m_mPushList
            /\ AskToStop(ThisId(p))
            /\ Goto(p, "waiting")
            /\ UNCHANGED <<g_pPushMgr, m_mPushList, m_lConnectId, object>>

\* mutant: the entry is erased before the thread has ended
CloseTooSoon(p) == /\ Inside(p, "close", "waiting")
                   /\ m_mPushList' = m_mPushList \ {ThisId(p)}
                   /\ object' = [object EXCEPT ![ThisId(p)] = "deleted"]
                   /\ Return(p)
                   /\ UNCHANGED <<g_pPushMgr, m_lConnectId, muxer>>

\* mutant: the entry stays in the table
CloseKeepsEntry(p) == /\ Inside(p, "close", "waiting") /\ muxer[ThisId(p)] = "done"
                      /\ object' = [object EXCEPT ![ThisId(p)] = "deleted"]
                      /\ Return(p)
                      /\ UNCHANGED <<g_pPushMgr, m_mPushList, m_lConnectId, muxer>>

\* The lock is held while the muxer thread ends.
CloseReturns(p) == /\ Inside(p, "close", "waiting") /\ muxer[ThisId(p)] = "done"
                   /\ m_mPushList' = m_mPushList \ {ThisId(p)}
                   /\ object' = [object EXCEPT ![ThisId(p)] = "deleted"]
                   /\ Return(p)
                   /\ UNCHANGED <<g_pPushMgr, m_lConnectId, muxer>>

-----------------------------------------------------------------------------
(* UnInitialize clears the pointer first, and ~CSVPushMgr takes the lock   *)
(* and closes what is in the table, the smallest id first.                 *)
UnInitialize(p) == /\ g_pPushMgr = "live"
                   /\ \A t \in Threads : stack[t] = <<>>
                   /\ g_pPushMgr' = "gone"
                   /\ Push(p, "destroy", 1)
                   /\ UNCHANGED <<m_mPushList, m_lConnectId, object, muxer>>

\* TRUE when the destructor of p is to deal with id next.
IsNext(id) == id \in m_mPushList /\ \A i \in m_mPushList : id <= i

DestroyNext(p) == /\ stack[p] # <<>> /\ stack[p][1].call = "destroy" /\ CanLock(p)
                  /\ \E id \in m_mPushList :
                       /\ IsNext(id)
                       /\ \/ muxer[id] # "done" /\ AskToStop(id)
                             /\ UNCHANGED <<m_mPushList, object>>
                          \/ /\ muxer[id] = "done"
                             /\ m_mPushList' = m_mPushList \ {id}
                             /\ object' = [object EXCEPT ![id] = "deleted"]
                             /\ UNCHANGED muxer
                  /\ Goto(p, "destroying")
                  /\ UNCHANGED <<g_pPushMgr, m_lConnectId>>

DestroyReturns(p) == /\ stack[p] # <<>> /\ stack[p][1].call = "destroy" /\ CanLock(p)
                     /\ m_mPushList = {}
                     /\ Return(p)
                     /\ UNCHANGED <<g_pPushMgr, m_mPushList, m_lConnectId, object, muxer>>

-----------------------------------------------------------------------------
(* The muxer threads.                                                      *)

\* The thread was asked to end, or a send has failed; it tells how it ended.
MuxerEnds(i) == /\ muxer[i] \in {"running", "asked"} /\ stack[i] = <<>>
                /\ muxer' = [muxer EXCEPT ![i] = "telling"]
                /\ UNCHANGED <<g_pPushMgr, m_mPushList, m_lConnectId, object, stack>>

\* mutant: the thread is taken for ended while it is in a callback
MuxerExitsEarly(i) == /\ muxer[i] = "telling"
                      /\ muxer' = [muxer EXCEPT ![i] = "done"]
                      /\ UNCHANGED <<g_pPushMgr, m_mPushList, m_lConnectId, object, stack>>

MuxerExits(i) == /\ muxer[i] = "telling" /\ stack[i] = <<>>
                 /\ muxer' = [muxer EXCEPT ![i] = "done"]
                 /\ UNCHANGED <<g_pPushMgr, m_mPushList, m_lConnectId, object, stack>>

-----------------------------------------------------------------------------
\* A call that is under way goes on.
CallStep(p) == \/ Connect(p) \/ ConnectSucceeds(p) \/ Register(p)
               \/ ConnectFails(p) \/ GiveUp(p)
               \/ NotFound(p) \/ Send(p) \/ SendReturns(p) \/ Query(p)
               \/ Close(p) \/ CloseReturns(p)
               \/ DestroyNext(p) \/ DestroyReturns(p)

Next == \/ \E p \in Threads : Initialize(p) \/ NewCall(p) \/ AppCallback(p) \/ UnInitialize(p)
        \/ \E p \in Procs : CallStep(p)
        \/ \E i \in Ids : MuxerCallback(i) \/ MuxerEnds(i) \/ MuxerExits(i)

Spec == Init /\ [][Next]_vars

\* Calls go on, callbacks return, and a thread that was asked to end does so
\* (BasePush: CloseReturns).
FairSpec == /\ Spec
            /\ \A p \in Procs : WF_vars(CallStep(p))
            /\ \A i \in Ids : WF_vars(muxer[i] # "running" /\ (MuxerEnds(i) \/ MuxerExits(i)))

-----------------------------------------------------------------------------
(* What is checked.                                                        *)

Alive == {i \in Ids : object[i] = "alive"}

Frame == [call : {"connect", "send", "query", "close", "destroy"}, id : Ids,
          at : {"entering", "connecting", "telling", "waiting", "destroying"}]

TypeOK == /\ g_pPushMgr \in {"none", "live", "gone"}
          /\ m_mPushList \subseteq Alive
          /\ m_lConnectId \in 1 .. MaxIds + 1
          /\ object \in [Ids -> {"none", "alive", "deleted"}]
          /\ muxer \in [Ids -> {"none", "running", "asked", "telling", "done"}]
          /\ stack \in [Procs -> Seq(Frame)]

\* isvpush.h: nMax_Connection_Count is the maximum number of connections.  The
\* table is measured when the id is drawn, and grows only after the callbacks.
WithinLimit == Cardinality(Alive) <= MaxConnections

\* Whatever a call or a muxer thread still works on has not been deleted by
\* another call in the meantime, nested in it or on another thread.
WorksOnAlive ==
  /\ \A p \in Procs : \A i \in DOMAIN stack[p] :
       stack[p][i].at \in {"connecting", "telling", "waiting"}
         => object[stack[p][i].id] = "alive"
  /\ \A i \in Ids : muxer[i] \in {"running", "asked", "telling"} => object[i] = "alive"

\* Close waits for the muxer thread with the lock held.  It ends, unless that
\* thread is in a callback that has called the API.
CloseEndsUnlessCalled == \A p \in Threads :
  Inside(p, "close", "waiting")
    ~> ~Inside(p, "close", "waiting") \/ stack[ThisId(p)] # <<>>

\* isvpush.h: SVPush_API_Close returns 0 or -1, whatever the callbacks do.
CloseEnds == \A p \in Threads :
  Inside(p, "close", "waiting") ~> ~Inside(p, "close", "waiting")

\* UnInitialize leaves no connection behind, whatever the callbacks call, one that
\* a muxer thread's callback opens while the destructor waits for it included.
NothingLeft == g_pPushMgr = "gone" /\ (\A t \in Threads : stack[t] = <<>>)
                 => Alive = {} /\ \A i \in Ids : muxer[i] \in {"none", "done"}
=============================================================================
