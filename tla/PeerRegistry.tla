---------------------------- MODULE PeerRegistry ----------------------------
(***************************************************************************)
(* The peers of one process: their creation by the server's accept and the *)
(* client's connect handlers, the static peer_list with its mutex, the     *)
(* relaying of messages through peer_list::broadcast, and the end of a     *)
(* peer, which its destructor runs in whichever thread drops the last      *)
(* shared_ptr (p2p-network/src/peer_list.cpp, peer.cpp, server_impl.h).    *)
(*                                                                         *)
(* One thread runs the io_service, as in both programs of the repository;  *)
(* Callers are the other threads that call peer_list::broadcast (the main  *)
(* thread of sunum.cpp).  A std::mutex locked again by its owner blocks,   *)
(* as it does in the CMake build with glibc.                               *)
(***************************************************************************)
EXTENDS Integers, Sequences, FiniteSets

CONSTANTS
    Inbound,   \* connections that reach the server
    Outbound,  \* connections that the clients open
    Io,        \* the thread in io_service::run
    Callers,   \* threads that broadcast from outside
    MaxCon,    \* server_impl::max_connections_, 0 for no limit
    SendPing,  \* DEBUG_CLIENT_SEND_PING is defined
    MaxCasts,  \* bound: broadcasts in a behaviour
    None       \* a null pointer, an empty weak_ptr, no thread

Peer == Inbound \cup Outbound
Thread == Callers \cup {Io}

ASSUME PeerAssumption == Inbound \cap Outbound = {} /\ None \notin Peer
ASSUME PeersFinite == IsFiniteSet(Inbound)
ASSUME ThreadAssumption == Io \notin Callers /\ None \notin Thread
ASSUME LimitAssumption == MaxCon \in Nat /\ MaxCasts \in Nat /\ SendPing \in BOOLEAN

VARIABLES
    phase,       \* a peer's life, from "new" to "gone"
    reading,     \* an async_read_some of the peer is pending
    closures,    \* send closures and async_writes of the peer that are pending
    lost,        \* the peer's connection has broken
    connections, \* server_impl::connections_
    list,        \* peer_list::list_
    mutex,       \* the owner of peer_list::mutex_
    pos,         \* the owner's place in the list
    dst,         \* where remove_if moves the next survivor
    th,          \* what each thread is doing and the shared_ptrs it holds
    casts,       \* broadcasts begun
    due,         \* history: peers the broadcast in progress has to reach
    got          \* history: how often it has sent to a peer

vars == <<phase, reading, closures, lost, connections, list, mutex, pos, dst,
          th, casts, due, got>>

Idle == [pc |-> "idle", self |-> None, spt |-> None, dtor |-> None]

----------------------------------------------------------------------------
(* References.                                                             *)

\* Mutant of Held: the list holds shared_ptrs.
Held_ByList(p, r, c, h) ==
    \/ r[p] \/ c[p] > 0
    \/ \E t \in Thread : h[t].self = p \/ h[t].spt = p
    \/ \E i \in 1 .. Len(list) : list[i] = p

\* Whether a shared_ptr to p is left, given what is pending and the threads.
Held(p, r, c, h) ==
    \/ r[p] \/ c[p] > 0
    \/ \E t \in Thread : h[t].self = p \/ h[t].spt = p

\* Thread t has let go of p, leaving r, c and h: if nothing holds p any more
\* the destructor starts in t.
Release(t, p, r, c, h) ==
    /\ reading' = r
    /\ closures' = c
    /\ \/ /\ Held(p, r, c, h)
          /\ th' = h
          /\ UNCHANGED phase
       \/ /\ ~Held(p, r, c, h)
          /\ th' = [h EXCEPT ![t].dtor = p]
          /\ phase' = [phase EXCEPT ![p] = "dying"]

\* weak_ptr::lock on an entry of the list succeeds.
Lockable(x) == x # None /\ phase[x] = "live"

\* Thread t may run code: it is not inside a destructor.
Running(t, pc) == th[t].pc = pc /\ th[t].dtor = None

----------------------------------------------------------------------------
(* Connections.                                                            *)

\* make_shared of a peer for p; the temporary shared_ptr calls start.
MakePeer(p) ==
    /\ phase' = [phase EXCEPT ![p] = "live"]
    /\ th' = [th EXCEPT ![Io].pc = "start", ![Io].self = p]

add_peer(p) == mutex = None /\ list' = Append(list, p)

\* Messages that a client sends on its new peer.
FirstSends(p) == IF p \in Outbound /\ SendPing THEN 1 ELSE 0

\* Mutant of HasRoom: one connection too many is let in.
HasRoom_OffByOne == MaxCon = 0 \/ connections <= MaxCon

HasRoom == MaxCon = 0 \/ connections < MaxCon

\* The handler of async_accept: a peer is made, or the socket is closed.
Accept(p) ==
    /\ Running(Io, "idle") /\ phase[p] = "new"
    /\ \/ /\ HasRoom
          /\ connections' = connections + 1
          /\ MakePeer(p)
       \/ /\ ~HasRoom
          /\ phase' = [phase EXCEPT ![p] = "refused"]
          /\ UNCHANGED <<connections, th>>
    /\ UNCHANGED <<reading, closures, lost, list, mutex, pos, dst, casts, due, got>>

\* The handler of async_connect: a peer is made unless there was an error.
Connect(p) ==
    /\ Running(Io, "idle") /\ phase[p] = "new"
    /\ \/ MakePeer(p)
       \/ /\ phase' = [phase EXCEPT ![p] = "refused"]
          /\ UNCHANGED th
    /\ UNCHANGED <<reading, closures, lost, connections, list, mutex, pos, dst,
                   casts, due, got>>

\* peer::start: add_peer, then do_read (dispatched in the io thread, the
\* strand runs it at once); a client may send a PING; the creating handler
\* ends and with it its shared_ptr.
Start(p) ==
    /\ Running(Io, "start") /\ th[Io].self = p
    /\ add_peer(p)
    /\ Release(Io, p, [reading EXCEPT ![p] = TRUE],
               [closures EXCEPT ![p] = @ + FirstSends(p)],
               [th EXCEPT ![Io] = Idle])
    /\ UNCHANGED <<lost, connections, mutex, pos, dst, casts, due, got>>

\* The network or the remote process ends the connection.
Lose(p) ==
    /\ phase[p] = "live" /\ ~lost[p]
    /\ lost' = [lost EXCEPT ![p] = TRUE]
    /\ UNCHANGED <<phase, reading, closures, connections, list, mutex, pos, dst,
                   th, casts, due, got>>

----------------------------------------------------------------------------
(* Handlers of a peer.                                                     *)

\* async_read_some completes with data: the handler runs with its self.
Read(p) ==
    /\ Running(Io, "idle") /\ reading[p] /\ ~lost[p]
    /\ reading' = [reading EXCEPT ![p] = FALSE]
    /\ th' = [th EXCEPT ![Io].pc = "handler", ![Io].self = p]
    /\ UNCHANGED <<phase, closures, lost, connections, list, mutex, pos, dst,
                   casts, due, got>>

\* A message with hops left was handled: it is broadcast.
Relay(p) ==
    /\ Running(Io, "handler") /\ th[Io].self = p
    /\ casts < MaxCasts
    /\ casts' = casts + 1
    /\ th' = [th EXCEPT ![Io].pc = "lock"]
    /\ UNCHANGED <<phase, reading, closures, lost, connections, list, mutex, pos,
                   dst, due, got>>

\* A PING was handled: its answer is sent in the strand.
Answer(p) ==
    /\ Running(Io, "handler") /\ th[Io].self = p
    /\ closures[p] < MaxCasts
    /\ closures' = [closures EXCEPT ![p] = @ + 1]
    /\ UNCHANGED <<phase, reading, lost, connections, list, mutex, pos, dst, th,
                   casts, due, got>>

\* receive returned true: do_read, and the old handler ends.
Rearm(p) ==
    /\ Running(Io, "handler") /\ th[Io].self = p
    /\ Release(Io, p, [reading EXCEPT ![p] = TRUE], closures,
               [th EXCEPT ![Io] = Idle])
    /\ UNCHANGED <<lost, connections, list, mutex, pos, dst, casts, due, got>>

\* receive returned false or threw: the handler ends without do_read.
Stop(p) ==
    /\ Running(Io, "handler") /\ th[Io].self = p
    /\ Release(Io, p, reading, closures, [th EXCEPT ![Io] = Idle])
    /\ UNCHANGED <<lost, connections, list, mutex, pos, dst, casts, due, got>>

\* async_read_some completes with an error.
ReadError(p) ==
    /\ Running(Io, "idle") /\ reading[p] /\ lost[p]
    /\ Release(Io, p, [reading EXCEPT ![p] = FALSE], closures, th)
    /\ UNCHANGED <<lost, connections, list, mutex, pos, dst, casts, due, got>>

\* A send closure and the async_write it led to are done with.
Written(p) ==
    /\ Running(Io, "idle") /\ closures[p] > 0
    /\ Release(Io, p, reading, [closures EXCEPT ![p] = @ - 1], th)
    /\ UNCHANGED <<lost, connections, list, mutex, pos, dst, casts, due, got>>

----------------------------------------------------------------------------
(* peer_list::broadcast.                                                   *)

\* A caller outside the io_service: broadcast(msg, nullptr).
CallerCast(t) ==
    /\ t \in Callers /\ Running(t, "idle")
    /\ casts < MaxCasts
    /\ casts' = casts + 1
    /\ th' = [th EXCEPT ![t].pc = "lock"]
    /\ UNCHANGED <<phase, reading, closures, lost, connections, list, mutex, pos,
                   dst, due, got>>

Listed(p) == \E i \in 1 .. Len(list) : list[i] = p

CastLock(t) ==
    /\ Running(t, "lock") /\ mutex = None
    /\ mutex' = t
    /\ pos' = 1
    /\ th' = [th EXCEPT ![t].pc = "visit"]
    /\ due' = {p \in Peer : Lockable(p) /\ Listed(p) /\ p # th[t].self}
    /\ got' = [p \in Peer |-> 0]
    /\ UNCHANGED <<phase, reading, closures, lost, connections, list, dst, casts>>

\* Mutant of SendsTo: the message also goes back to where it came from.
SendsTo_Echo(t, p) == th[t].self # None

\* Nothing is sent to the peer a message came from, nor if it came from none.
SendsTo(t, p) == th[t].self \notin {None, p}

\* One entry: lock the weak_ptr and send.
CastVisit(t) ==
    /\ Running(t, "visit") /\ pos <= Len(list)
    /\ LET p == list[pos]
       IN  \/ /\ ~Lockable(p)
              /\ pos' = pos + 1
              /\ UNCHANGED <<closures, got, th>>
           \/ /\ Lockable(p)
              /\ th' = [th EXCEPT ![t].pc = "drop", ![t].spt = p]
              /\ IF SendsTo(t, p)
                 THEN /\ closures' = [closures EXCEPT ![p] = @ + 1]
                      /\ got' = [got EXCEPT ![p] = @ + 1]
                 ELSE UNCHANGED <<closures, got>>
              /\ UNCHANGED pos
    /\ UNCHANGED <<phase, reading, lost, connections, list, mutex, dst, casts, due>>

\* spt goes out of scope, the mutex still locked.
CastDrop(t) ==
    /\ Running(t, "drop")
    /\ pos' = pos + 1
    /\ Release(t, th[t].spt, reading, closures,
               [th EXCEPT ![t].pc = "visit", ![t].spt = None])
    /\ UNCHANGED <<lost, connections, list, mutex, dst, casts, due, got>>

\* Mutant of CastUnlock: the mutex stays locked.
CastUnlock_Keep(t) ==
    /\ Running(t, "visit") /\ pos > Len(list)
    /\ th' = [th EXCEPT ![t].pc = IF t = Io THEN "handler" ELSE "idle"]
    /\ UNCHANGED <<phase, reading, closures, lost, connections, list, mutex, pos,
                   dst, casts, due, got>>

CastUnlock(t) ==
    /\ Running(t, "visit") /\ pos > Len(list)
    /\ mutex' = None
    /\ th' = [th EXCEPT ![t].pc = IF t = Io THEN "handler" ELSE "idle"]
    /\ UNCHANGED <<phase, reading, closures, lost, connections, list, pos, dst,
                   casts, due, got>>

----------------------------------------------------------------------------
(* ~peer.                                                                  *)

\* Mutant of GivesBack: a client's peer also gives a connection back.
GivesBack_Any(p) == TRUE

\* Only the server's peers have an on_session_end_ that does something.
GivesBack(p) == p \in Inbound

\* on_session_end_: the server gives the connection back.
SessionEnd(t) ==
    /\ th[t].dtor # None /\ phase[th[t].dtor] = "dying"
    /\ connections' = IF GivesBack(th[t].dtor) THEN connections - 1
                   ELSE connections
    /\ phase' = [phase EXCEPT ![th[t].dtor] = "ended"]
    /\ UNCHANGED <<reading, closures, lost, list, mutex, pos, dst, th, casts, due, got>>

\* remove_peer locks the mutex.  Its owner waits for itself.
RemoveLock(t) ==
    /\ th[t].dtor # None /\ phase[th[t].dtor] = "ended"
    /\ mutex = None
    /\ mutex' = t
    /\ pos' = 1
    /\ dst' = 1
    /\ phase' = [phase EXCEPT ![th[t].dtor] = "removing"]
    /\ UNCHANGED <<reading, closures, lost, connections, list, th, casts, due, got>>

Removing(t) == th[t].dtor # None /\ phase[th[t].dtor] = "removing"

\* Mutant of Moved: the weak_ptr is copied.
Moved_Copy(i, j) == [list EXCEPT ![j] = list[i]]

\* The list once entry i is moved to place j: an empty weak_ptr stays behind.
Moved(i, j) == [list EXCEPT ![i] = None, ![j] = list[i]]

\* One entry of std::remove_if: a survivor moves to the front.  The
\* peer's own entry has expired with it, and no other peer has its uuid.
RemoveVisit(t) ==
    /\ Removing(t) /\ pos <= Len(list)
    /\ pos' = pos + 1
    /\ \/ /\ Lockable(list[pos])
          /\ list' = Moved(pos, dst)
          /\ dst' = dst + 1
       \/ /\ ~Lockable(list[pos])
          /\ UNCHANGED <<list, dst>>
    /\ UNCHANGED <<phase, reading, closures, lost, connections, mutex, th, casts,
                   due, got>>

\* Nothing is erased: the list keeps its length.
RemoveUnlock(t) ==
    /\ Removing(t) /\ pos > Len(list)
    /\ mutex' = None
    /\ phase' = [phase EXCEPT ![th[t].dtor] = "gone"]
    /\ th' = [th EXCEPT ![t].dtor = None]
    /\ UNCHANGED <<reading, closures, lost, connections, list, pos, dst, casts, due, got>>

----------------------------------------------------------------------------

Init ==
    /\ phase = [p \in Peer |-> "new"]
    /\ reading = [p \in Peer |-> FALSE]
    /\ closures = [p \in Peer |-> 0]
    /\ lost = [p \in Peer |-> FALSE]
    /\ connections = 0
    /\ list = <<>>
    /\ mutex = None /\ pos = 1 /\ dst = 1
    /\ th = [t \in Thread |-> Idle]
    /\ casts = 0 /\ due = {} /\ got = [p \in Peer |-> 0]

Handler(p) == Relay(p) \/ Answer(p) \/ Rearm(p) \/ Stop(p)

PeerStep(p) ==
    \/ Start(p) \/ Lose(p) \/ Read(p) \/ Handler(p) \/ ReadError(p) \/ Written(p)

Cast(t) == CastLock(t) \/ CastVisit(t) \/ CastDrop(t) \/ CastUnlock(t)

Destructor(t) ==
    SessionEnd(t) \/ RemoveLock(t) \/ RemoveVisit(t) \/ RemoveUnlock(t)

\* Every thread is idle: io_service::run waits for an event.
Wait == (\A t \in Thread : th[t] = Idle) /\ UNCHANGED vars

Next ==
    \/ \E p \in Inbound : Accept(p)
    \/ \E p \in Outbound : Connect(p)
    \/ \E p \in Peer : PeerStep(p)
    \/ \E t \in Thread : CallerCast(t) \/ Cast(t) \/ Destructor(t)
    \/ Wait

Spec == Init /\ [][Next]_vars

\* A thread that can go on does; io_service::run takes ready handlers in the
\* order in which they became ready, so none is passed over for ever.
Fairness ==
    /\ \A p \in Peer :
         /\ WF_vars(Start(p)) /\ WF_vars(Rearm(p) \/ Stop(p))
         /\ SF_vars(ReadError(p)) /\ SF_vars(Written(p))
    /\ \A t \in Thread : WF_vars(Cast(t)) /\ WF_vars(Destructor(t))

FairSpec == Spec /\ Fairness

----------------------------------------------------------------------------
(* Properties.                                                             *)

Phases == {"new", "refused", "live", "dying", "ended", "removing", "gone"}

\* Type correctness of the registry, the peers and the threads.
TypeOK ==
    /\ phase \in [Peer -> Phases]
    /\ reading \in [Peer -> BOOLEAN]
    /\ closures \in [Peer -> Nat]
    /\ lost \in [Peer -> BOOLEAN]
    /\ connections \in Nat
    /\ list \in Seq(Peer \cup {None})
    /\ mutex \in Thread \cup {None}
    /\ pos \in Nat \ {0} /\ dst \in Nat \ {0}
    /\ th \in [Thread -> [pc : {"idle", "start", "handler", "lock", "visit", "drop"},
                          self : Peer \cup {None}, spt : Peer \cup {None},
                          dtor : Peer \cup {None}]]
    /\ casts \in Nat /\ due \subseteq Peer /\ got \in [Peer -> Nat]

\* The peer is live and peer::start has added it.
Registered(p) ==
    phase[p] = "live" /\ ~(th[Io].pc = "start" /\ th[Io].self = p)

\* While peers come and go and remove_if shuffles the list under their
\* entries, every started peer that lives has one entry and only one.
ListedOnce ==
    \A p \in Peer : Registered(p) =>
        /\ Listed(p)
        /\ \A i, j \in 1 .. Len(list) : list[i] = p /\ list[j] = p => i = j

\* connections_ counts the accepted peers whose session has not ended, in
\* whatever thread they end, so the server neither refuses a connection it
\* has room for nor exceeds its maximum.
ConnectionsExact ==
    /\ connections = Cardinality({p \in Inbound : phase[p] \in {"live", "dying"}})
    /\ MaxCon # 0 => connections <= MaxCon

\* The broadcast of t has passed the last entry.
CastComplete(t) == Running(t, "visit") /\ mutex = t /\ pos > Len(list)

\* The broadcast in progress has sent once to each peer it is for, and to no
\* other that lives.
Reached == \A p \in Peer :
              phase[p] = "live" => got[p] = (IF p \in due THEN 1 ELSE 0)

\* A message relayed by a read handler goes to every other peer that was
\* there when the broadcast began, exactly once, and not back.
RelayReaches ==
    \A t \in Thread : CastComplete(t) /\ th[t].self # None => Reached

\* ... and so does a message broadcast by the program itself.
CallerReaches ==
    \A t \in Thread : CastComplete(t) /\ th[t].self = None => Reached

\* No thread that is about to lock the mutex in a destructor owns it.
NoSelfLock ==
    \A t \in Thread : th[t].dtor # None /\ mutex = t => Removing(t)

\* A peer whose connection is lost is destroyed and unregistered: neither the
\* list nor a pending send keeps it.
LostPeersGo == \A p \in Peer : lost[p] ~> phase[p] = "gone"

\* A broadcast of a caller returns to it.
BroadcastReturns ==
    \A t \in Callers : th[t].pc = "lock" ~> th[t].pc = "idle"

=============================================================================
