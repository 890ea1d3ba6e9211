------------------------- MODULE PeerRegistryProofs -------------------------
(***************************************************************************)
(* Invariants of PeerRegistry for every set of connections and threads,    *)
(* every connection limit and every number of broadcasts.                  *)
(***************************************************************************)
EXTENDS PeerRegistry, SequenceTheorems, FiniteSetTheorems, TLAPS

\* What a thread is doing and holds.
ThreadRecord ==
    [pc : {"idle", "start", "handler", "lock", "visit", "drop"},
     self : Peer \cup {None}, spt : Peer \cup {None}, dtor : Peer \cup {None}]

\* The places of a thread.
PCs == {"idle", "start", "handler", "lock", "visit", "drop"}

\* Thread t is in the loop of broadcast.
Visiting(t) == th[t].pc \in {"visit", "drop"}

\* p is made, and not yet added.
Starting(p) == th[Io].pc = "start" /\ th[Io].self = p

\* The broadcast of the io thread has dealt with entry i.
Passed(i) == i < pos \/ (i = pos /\ th[Io].pc = "drop")

\* The accepted peers whose session has not ended.
Open == {p \in Inbound : phase[p] \in {"live", "dying"}}

----------------------------------------------------------------------------
(* The inductive invariant.                                                *)

\* A peer to which there is a shared_ptr lives.
RefInv == \A p \in Peer : Held(p, reading, closures, th) => phase[p] = "live"

\* A destructor runs for a peer that has died, and only one does.
DtorInv ==
    /\ \A t \in Thread : th[t].dtor # None =>
         phase[th[t].dtor] \in {"dying", "ended", "removing"}
    /\ \A t, u \in Thread : th[t].dtor # None /\ th[t].dtor = th[u].dtor => t = u

\* The mutex is owned by the thread in the loop of broadcast or of remove_if,
\* and by no other.
MutexInv ==
    \A t \in Thread :
        /\ Visiting(t) => mutex = t
        /\ Removing(t) => mutex = t /\ ~Visiting(t)
        /\ mutex = t => Visiting(t) \/ Removing(t)

\* broadcast holds the peer it is sending to; only the io thread runs handlers,
\* and a handler has its self.
ThreadInv ==
    /\ \A t \in Thread : th[t].pc = "drop" => th[t].spt # None
    /\ \A t \in Callers : th[t].self = None /\ th[t].pc \notin {"start", "handler"}
    /\ th[Io].pc # "idle" => th[Io].self # None

\* Only started peers are in the list, a live one once.
ListInv ==
    /\ \A i \in 1 .. Len(list) : list[i] # None =>
         phase[list[i]] \notin {"new", "refused"} /\ ~Starting(list[i])
    /\ ListedOnce

\* remove_if leaves no live entry between the place it writes and the place it
\* reads: what it overwrites has expired.
ScanInv ==
    \A t \in Thread : Removing(t) =>
        /\ dst <= pos
        /\ \A i \in 1 .. Len(list) : dst <= i /\ i < pos => ~Lockable(list[i])

\* The io thread runs destructors only outside handlers: in broadcast, the
\* closure it has just made, or its own self, keeps the peer.
IoInv ==
    /\ th[Io].dtor # None => th[Io].pc = "idle"
    /\ th[Io].pc = "drop" => \/ th[Io].spt = th[Io].self
                             \/ closures[th[Io].spt] > 0

\* While the io thread broadcasts, due is the live entries but its own, and got
\* counts one for each of them that it has passed.
RelayInv ==
    Visiting(Io) =>
        /\ th[Io].pc = "drop" => pos <= Len(list) /\ list[pos] = th[Io].spt
        /\ \A p \in Peer : phase[p] = "live" =>
             /\ p \in due <=> Listed(p) /\ p # th[Io].self
             /\ got[p] = IF /\ p # th[Io].self
                            /\ \E i \in 1 .. Len(list) : list[i] = p /\ Passed(i)
                         THEN 1 ELSE 0

\* The inductive invariant.
Inv == /\ TypeOK /\ ConnectionsExact
       /\ RefInv /\ DtorInv /\ MutexInv /\ ThreadInv
       /\ ListInv /\ ScanInv /\ IoInv /\ RelayInv

----------------------------------------------------------------------------
(* Lemmas.                                                                 *)

\* Threads, peers and None are told apart.
LEMMA Names ==
    /\ Io \in Thread /\ Callers \subseteq Thread /\ Io \notin Callers
    /\ \A t \in Thread : t = Io \/ t \in Callers
    /\ None \notin Peer /\ None \notin Thread
    /\ Inbound \subseteq Peer /\ Outbound \subseteq Peer /\ Inbound \cap Outbound = {}
BY PeerAssumption, ThreadAssumption DEF Thread, Peer

\* Types of the functions, with a name for the records.
LEMMA Types ==
    ASSUME TypeOK
    PROVE  /\ th \in [Thread -> ThreadRecord] /\ phase \in [Peer -> Phases]
           /\ reading \in [Peer -> BOOLEAN] /\ closures \in [Peer -> Nat]
           /\ pos \in Nat \ {0} /\ dst \in Nat \ {0} /\ got \in [Peer -> Nat]
BY DEF TypeOK, ThreadRecord

\* Entries of the list are peers or empty.
LEMMA ListTypes ==
    ASSUME TypeOK
    PROVE  /\ Len(list) \in Nat
           /\ \A i \in 1 .. Len(list) : list[i] \in Peer \cup {None}
<1>1. list \in Seq(Peer \cup {None})
  BY DEF TypeOK
<1> QED BY <1>1

\* The count stays exact when no session begins or ends.
LEMMA CountSame ==
    ASSUME ConnectionsExact, connections' = connections,
           \A p \in Inbound : phase'[p] \in {"live", "dying"}
                                <=> phase[p] \in {"live", "dying"}
    PROVE  ConnectionsExact'
<1>1. Open' = Open
  BY DEF Open
<1> QED BY <1>1 DEF ConnectionsExact, Open

\* There are finitely many open sessions.
LEMMA OpenFinite == IsFiniteSet(Open)
BY PeersFinite, FS_Subset DEF Open

\* A thread goes to another place.
LEMMA PcEffect ==
    ASSUME NEW t \in Thread, NEW x \in PCs, th \in [Thread -> ThreadRecord],
           th' = [th EXCEPT ![t].pc = x]
    PROVE  /\ th' \in [Thread -> ThreadRecord]
           /\ \A u \in Thread : u # t => th'[u] = th[u]
           /\ th'[t].pc = x /\ th'[t].self = th[t].self
           /\ th'[t].spt = th[t].spt /\ th'[t].dtor = th[t].dtor
BY DEF ThreadRecord, PCs

\* A thread enters a handler, or the start of a peer.
LEMMA SelfEffect ==
    ASSUME NEW t \in Thread, NEW x \in PCs, NEW p \in Peer,
           th \in [Thread -> ThreadRecord],
           th' = [th EXCEPT ![t].pc = x, ![t].self = p]
    PROVE  /\ th' \in [Thread -> ThreadRecord]
           /\ \A u \in Thread : u # t => th'[u] = th[u]
           /\ th'[t].pc = x /\ th'[t].self = p
           /\ th'[t].spt = th[t].spt /\ th'[t].dtor = th[t].dtor
BY DEF ThreadRecord, PCs

\* broadcast locks a weak_ptr.
LEMMA SptEffect ==
    ASSUME NEW t \in Thread, NEW p \in Peer, th \in [Thread -> ThreadRecord],
           th' = [th EXCEPT ![t].pc = "drop", ![t].spt = p]
    PROVE  /\ th' \in [Thread -> ThreadRecord]
           /\ \A u \in Thread : u # t => th'[u] = th[u]
           /\ th'[t].pc = "drop" /\ th'[t].spt = p
           /\ th'[t].self = th[t].self /\ th'[t].dtor = th[t].dtor
BY DEF ThreadRecord

\* The temporary of broadcast goes.
LEMMA DropEffect ==
    ASSUME NEW t \in Thread, th \in [Thread -> ThreadRecord]
    PROVE  LET h == [th EXCEPT ![t].pc = "visit", ![t].spt = None]
           IN  /\ h \in [Thread -> ThreadRecord]
               /\ \A u \in Thread : u # t => h[u] = th[u]
               /\ h[t].pc = "visit" /\ h[t].spt = None
               /\ h[t].self = th[t].self /\ h[t].dtor = th[t].dtor
BY DEF ThreadRecord

\* What Release does, h being the records of the threads.
LetGo(t, p, r, c, h) ==
    /\ reading' = r /\ closures' = c
    /\ th' \in [Thread -> ThreadRecord] /\ phase' \in [Peer -> Phases]
    /\ \A u \in Thread : /\ th'[u].pc = h[u].pc /\ th'[u].self = h[u].self
                          /\ th'[u].spt = h[u].spt
    /\ \A u \in Thread : u # t => th'[u].dtor = h[u].dtor
    /\ \A q \in Peer : q # p => phase'[q] = phase[q]
    /\ \/ Held(p, r, c, h) /\ phase' = phase /\ th'[t].dtor = None
       \/ ~Held(p, r, c, h) /\ phase'[p] = "dying" /\ th'[t].dtor = p

\* Release in terms of single fields.
LEMMA ReleaseEffect ==
    ASSUME NEW t \in Thread, NEW p \in Peer, NEW r, NEW c,
           NEW h \in [Thread -> ThreadRecord], h[t].dtor = None,
           phase \in [Peer -> Phases], Release(t, p, r, c, h)
    PROVE  LetGo(t, p, r, c, h)
BY PeerAssumption DEF Release, LetGo, ThreadRecord, Phases

\* The invariant holds when the process starts.
LEMMA InvInit == Init => Inv
<1> SUFFICES ASSUME Init PROVE Inv
  OBVIOUS
<1> USE DEF Init
<1>1. TypeOK
  BY LimitAssumption, ThreadAssumption, PeerAssumption DEF TypeOK, Idle, Phases
<1>2. ConnectionsExact
  <2>1. {p \in Inbound : phase[p] \in {"live", "dying"}} = {}
    BY DEF Peer
  <2>2. connections = 0 /\ Cardinality({}) = 0
    BY FS_EmptySet
  <2>3. MaxCon # 0 => 0 <= MaxCon
    BY LimitAssumption
  <2> HIDE DEF Init
  <2> QED BY <2>1, <2>2, <2>3 DEF ConnectionsExact
<1>3. RefInv /\ DtorInv /\ ThreadInv /\ IoInv
  BY PeerAssumption, ThreadAssumption 
  DEF RefInv, Held, DtorInv, ThreadInv, IoInv, Idle, Thread
<1>4. MutexInv /\ ScanInv /\ RelayInv
  BY PeerAssumption, ThreadAssumption 
  DEF MutexInv, ScanInv, RelayInv, Visiting, Removing, Idle, Thread
<1>5. ListInv
  BY DEF ListInv, ListedOnce, Registered
<1> QED BY <1>1, <1>2, <1>3, <1>4, <1>5 DEF Inv

----------------------------------------------------------------------------
(* Handlers of the io thread.                                              *)

\* The io thread ends a handler and lets go of p: all that does not depend on
\* the list is kept.
LEMMA IoLetsGo ==
    ASSUME Inv, NEW p \in Peer, NEW r, NEW c \in [Peer -> Nat], NEW h,
           LetGo(Io, p, r, c, h),
           phase[p] = "live", th[Io].dtor = None,
           \A q \in Peer : q # p => r[q] = reading[q] /\ c[q] = closures[q],
           \A u \in Thread : u # Io => h[u] = th[u],
           h[Io].pc = "idle", h[Io].self \in {None, th[Io].self},
           h[Io].spt \in {None, th[Io].spt}, ~Visiting(Io),
           UNCHANGED <<connections, mutex>>
    PROVE  /\ ConnectionsExact' /\ RefInv' /\ DtorInv' /\ MutexInv' /\ ThreadInv'
           /\ IoInv' /\ RelayInv'
<1> USE DEF Inv
<1> USE Names
<1>t. /\ th \in [Thread -> ThreadRecord] /\ phase \in [Peer -> Phases]
      /\ reading \in [Peer -> BOOLEAN] /\ closures \in [Peer -> Nat]
  BY Types
<1>2. ConnectionsExact'
  BY <1>t, CountSame DEF LetGo
<1>3. RefInv'
  BY <1>t DEF RefInv, Held, LetGo, ThreadRecord
<1>4. DtorInv'
  BY <1>t, SMTT(30) DEF DtorInv, LetGo, ThreadRecord
<1>5. MutexInv'
  BY <1>t DEF DtorInv, MutexInv, Visiting, Removing, LetGo, ThreadRecord
<1>6. ThreadInv'
  BY <1>t DEF ThreadInv, LetGo
<1>9. IoInv'
  BY <1>t DEF IoInv, LetGo
<1>10. RelayInv'
  BY <1>t DEF RelayInv, Visiting, LetGo
<1> QED BY <1>2, <1>3, <1>4, <1>5, <1>6, <1>9, <1>10

\* ... and the list too, if the handler did not add to it.
LEMMA ListKept ==
    ASSUME Inv, NEW p \in Peer, UNCHANGED <<list, pos, dst>>,
           th[Io].pc # "start", th'[Io].pc # "start",
           \A q \in Peer : q # p => phase'[q] = phase[q], phase[p] = "live",
           phase' = phase \/ phase'[p] = "dying",
           \A t \in Thread : Removing(t)' => Removing(t)
    PROVE  ListInv' /\ ScanInv'
<1> USE DEF Inv
<1> USE Names
<1>t. Len(list) \in Nat /\ \A i \in 1 .. Len(list) : list[i] \in Peer \cup {None}
  BY ListTypes
<1>7. ListInv'
  BY <1>t DEF ListInv, Starting, ListedOnce, Listed, Registered
<1>8. ScanInv'
  BY <1>t, Types DEF ScanInv, Lockable
<1> QED BY <1>7, <1>8

\* A handler that leaves the list alone ends and lets go of p.
LEMMA HandlerEnds ==
    ASSUME Inv, NEW p \in Peer, NEW r \in [Peer -> BOOLEAN], NEW c \in [Peer -> Nat],
           NEW h \in [Thread -> ThreadRecord], Release(Io, p, r, c, h),
           phase[p] = "live", th[Io].dtor = None, ~Visiting(Io), th[Io].pc # "start",
           \A q \in Peer : q # p => r[q] = reading[q] /\ c[q] = closures[q],
           \A u \in Thread : u # Io => h[u] = th[u],
           h[Io].dtor = None, h[Io].pc = "idle", h[Io].self \in {None, th[Io].self},
           h[Io].spt \in {None, th[Io].spt},
           UNCHANGED <<lost, connections, list, mutex, pos, dst, casts, due, got>>
    PROVE  Inv'
<1> USE DEF Inv
<1> USE Names
<1>t. th \in [Thread -> ThreadRecord] /\ phase \in [Peer -> Phases]
  BY Types
<1>1. LetGo(Io, p, r, c, h)
  BY <1>t, ReleaseEffect
<1>2. /\ ConnectionsExact' /\ RefInv' /\ DtorInv' /\ MutexInv' /\ ThreadInv'
      /\ IoInv' /\ RelayInv'
  BY <1>1, IoLetsGo
<1>3. ListInv' /\ ScanInv'
  <2>1. \A t \in Thread : Removing(t)' => Removing(t)
    BY <1>t, <1>1 DEF Removing, LetGo, DtorInv, ThreadRecord
  <2> QED BY <2>1, <1>1, ListKept DEF LetGo
<1>4. TypeOK'
  BY <1>1 DEF TypeOK, LetGo, ThreadRecord
<1> QED BY <1>2, <1>3, <1>4 DEF Inv

\* do_read at the end of a handler.
LEMMA RearmStep ==
    ASSUME Inv, NEW p \in Peer, Rearm(p) PROVE Inv'
<1> DEFINE r == [reading EXCEPT ![p] = TRUE]
           c == closures
           h == [th EXCEPT ![Io] = Idle]
<1> USE DEF Inv
<1> USE Names
<1>t. /\ th \in [Thread -> ThreadRecord] /\ phase \in [Peer -> Phases]
      /\ reading \in [Peer -> BOOLEAN] /\ closures \in [Peer -> Nat]
  BY Types
<1>1. /\ h \in [Thread -> ThreadRecord] /\ h[Io].dtor = None /\ h[Io].pc = "idle"
      /\ \A u \in Thread : u # Io => h[u] = th[u]
      /\ h[Io].self \in {None, th[Io].self} /\ h[Io].spt \in {None, th[Io].spt}
  BY <1>t DEF Rearm, Running, ThreadRecord, Idle
<1>2. /\ r \in [Peer -> BOOLEAN] /\ c \in [Peer -> Nat]
      /\ \A q \in Peer : q # p => r[q] = reading[q] /\ c[q] = closures[q]
  BY <1>t DEF Rearm
<1>3. /\ phase[p] = "live" /\ th[Io].dtor = None
      /\ ~Visiting(Io) /\ th[Io].pc # "start"
  BY <1>t DEF Rearm, Running, RefInv, Held, Visiting
<1>4. /\ Release(Io, p, r, c, h)
      /\ UNCHANGED <<lost, connections, list, mutex, pos, dst, casts, due, got>>
  BY DEF Rearm
<1> HIDE DEF r, c, h
<1> QED BY <1>1, <1>2, <1>3, <1>4, HandlerEnds

\* A handler that ends the reading.
LEMMA StopStep ==
    ASSUME Inv, NEW p \in Peer, Stop(p) PROVE Inv'
<1> DEFINE r == reading
           c == closures
           h == [th EXCEPT ![Io] = Idle]
<1> USE DEF Inv
<1> USE Names
<1>t. /\ th \in [Thread -> ThreadRecord] /\ phase \in [Peer -> Phases]
      /\ reading \in [Peer -> BOOLEAN] /\ closures \in [Peer -> Nat]
  BY Types
<1>1. /\ h \in [Thread -> ThreadRecord] /\ h[Io].dtor = None /\ h[Io].pc = "idle"
      /\ \A u \in Thread : u # Io => h[u] = th[u]
      /\ h[Io].self \in {None, th[Io].self} /\ h[Io].spt \in {None, th[Io].spt}
  BY <1>t DEF Stop, Running, ThreadRecord, Idle
<1>2. /\ r \in [Peer -> BOOLEAN] /\ c \in [Peer -> Nat]
      /\ \A q \in Peer : q # p => r[q] = reading[q] /\ c[q] = closures[q]
  BY <1>t DEF Stop
<1>3. /\ phase[p] = "live" /\ th[Io].dtor = None
      /\ ~Visiting(Io) /\ th[Io].pc # "start"
  BY <1>t DEF Stop, Running, RefInv, Held, Visiting
<1>4. /\ Release(Io, p, r, c, h)
      /\ UNCHANGED <<lost, connections, list, mutex, pos, dst, casts, due, got>>
  BY DEF Stop
<1> HIDE DEF r, c, h
<1> QED BY <1>1, <1>2, <1>3, <1>4, HandlerEnds

\* A read that fails.
LEMMA ReadErrorStep ==
    ASSUME Inv, NEW p \in Peer, ReadError(p) PROVE Inv'
<1> DEFINE r == [reading EXCEPT ![p] = FALSE]
           c == closures
           h == th
<1> USE DEF Inv
<1> USE Names
<1>t. /\ th \in [Thread -> ThreadRecord] /\ phase \in [Peer -> Phases]
      /\ reading \in [Peer -> BOOLEAN] /\ closures \in [Peer -> Nat]
  BY Types
<1>1. /\ h \in [Thread -> ThreadRecord] /\ h[Io].dtor = None /\ h[Io].pc = "idle"
      /\ \A u \in Thread : u # Io => h[u] = th[u]
      /\ h[Io].self \in {None, th[Io].self} /\ h[Io].spt \in {None, th[Io].spt}
  BY <1>t DEF ReadError, Running, ThreadRecord, Idle
<1>2. /\ r \in [Peer -> BOOLEAN] /\ c \in [Peer -> Nat]
      /\ \A q \in Peer : q # p => r[q] = reading[q] /\ c[q] = closures[q]
  BY <1>t DEF ReadError
<1>3. /\ phase[p] = "live" /\ th[Io].dtor = None
      /\ ~Visiting(Io) /\ th[Io].pc # "start"
  BY <1>t DEF ReadError, Running, RefInv, Held, Visiting
<1>4. /\ Release(Io, p, r, c, h)
      /\ UNCHANGED <<lost, connections, list, mutex, pos, dst, casts, due, got>>
  BY DEF ReadError
<1> HIDE DEF r, c, h
<1> QED BY <1>1, <1>2, <1>3, <1>4, HandlerEnds

\* A write that ends.
LEMMA WrittenStep ==
    ASSUME Inv, NEW p \in Peer, Written(p) PROVE Inv'
<1> DEFINE r == reading
           c == [closures EXCEPT ![p] = @ - 1]
           h == th
<1> USE DEF Inv
<1> USE Names
<1>t. /\ th \in [Thread -> ThreadRecord] /\ phase \in [Peer -> Phases]
      /\ reading \in [Peer -> BOOLEAN] /\ closures \in [Peer -> Nat]
  BY Types
<1>1. /\ h \in [Thread -> ThreadRecord] /\ h[Io].dtor = None /\ h[Io].pc = "idle"
      /\ \A u \in Thread : u # Io => h[u] = th[u]
      /\ h[Io].self \in {None, th[Io].self} /\ h[Io].spt \in {None, th[Io].spt}
  BY <1>t DEF Written, Running, ThreadRecord, Idle
<1>2. /\ r \in [Peer -> BOOLEAN] /\ c \in [Peer -> Nat]
      /\ \A q \in Peer : q # p => r[q] = reading[q] /\ c[q] = closures[q]
  BY <1>t DEF Written
<1>3. /\ phase[p] = "live" /\ th[Io].dtor = None
      /\ ~Visiting(Io) /\ th[Io].pc # "start"
  BY <1>t DEF Written, Running, RefInv, Held, Visiting
<1>4. /\ Release(Io, p, r, c, h)
      /\ UNCHANGED <<lost, connections, list, mutex, pos, dst, casts, due, got>>
  BY DEF Written
<1> HIDE DEF r, c, h
<1> QED BY <1>1, <1>2, <1>3, <1>4, HandlerEnds

----------------------------------------------------------------------------
(* Connections.                                                            *)

\* A connection is made or refused: no entry of the list is a new peer.
LEMMA NewPeer ==
    ASSUME Inv, NEW p \in Peer, Running(Io, "idle"), phase[p] = "new",
           \/ MakePeer(p)
           \/ phase' = [phase EXCEPT ![p] = "refused"] /\ UNCHANGED th,
           UNCHANGED <<reading, closures, lost, list, mutex, pos, dst, casts, due,
                       got>>,
           ConnectionsExact', connections' \in Nat
    PROVE  Inv'
<1> USE DEF Inv
<1> USE Names
<1>t. /\ th \in [Thread -> ThreadRecord] /\ phase \in [Peer -> Phases]
      /\ reading \in [Peer -> BOOLEAN] /\ closures \in [Peer -> Nat]
  BY Types
<1>l. Len(list) \in Nat /\ \A i \in 1 .. Len(list) : list[i] \in Peer \cup {None}
  BY ListTypes
<1>1. /\ th' \in [Thread -> ThreadRecord] /\ phase' \in [Peer -> Phases]
      /\ \A u \in Thread : th'[u].spt = th[u].spt /\ th'[u].dtor = th[u].dtor
      /\ \A u \in Thread : u # Io => th'[u] = th[u]
      /\ \A q \in Peer : q # p => phase'[q] = phase[q]
      /\ \/ phase'[p] = "live" /\ th'[Io].pc = "start" /\ th'[Io].self = p
         \/ phase'[p] = "refused" /\ th' = th
  <2>1. CASE MakePeer(p)
    <3>1. th' = [th EXCEPT ![Io].pc = "start", ![Io].self = p]
      BY <2>1 DEF MakePeer
    <3>2. /\ phase' \in [Peer -> Phases] /\ phase'[p] = "live"
          /\ \A q \in Peer : q # p => phase'[q] = phase[q]
      BY <1>t, <2>1 DEF MakePeer, Phases
    <3>3. "start" \in PCs
      BY DEF PCs
    <3>4. /\ th' \in [Thread -> ThreadRecord]
          /\ \A u \in Thread : u # Io => th'[u] = th[u]
          /\ th'[Io].pc = "start" /\ th'[Io].self = p
          /\ th'[Io].spt = th[Io].spt /\ th'[Io].dtor = th[Io].dtor
      BY <1>t, <3>1, <3>3, SelfEffect
    <3> QED BY <3>2, <3>4
  <2>2. CASE ~MakePeer(p)
    BY <1>t, <2>2 DEF Phases
  <2> QED BY <2>1, <2>2
<1>2. th[Io].pc = "idle" /\ th[Io].dtor = None
  BY DEF Running
<1>3. TypeOK'
  BY <1>1 DEF TypeOK, ThreadRecord
<1>4. RefInv'
  BY <1>t, <1>1, <1>2 DEF RefInv, Held
<1>5. DtorInv'
  BY <1>t, <1>1 DEF DtorInv, ThreadRecord
<1>6. MutexInv'
  BY <1>t, <1>1, <1>2 DEF DtorInv, MutexInv, Visiting, Removing, ThreadRecord
<1>7. ThreadInv' /\ IoInv' /\ RelayInv'
  BY <1>t, <1>1, <1>2 DEF ThreadInv, IoInv, RelayInv, Visiting
<1>8. ListInv'
  BY <1>l, <1>1, <1>2 DEF ListInv, Starting, ListedOnce, Listed, Registered
<1>9. ScanInv'
  BY <1>t, <1>l, <1>1 DEF ScanInv, DtorInv, Removing, Lockable, ListInv, ThreadRecord
<1> QED BY <1>3, <1>4, <1>5, <1>6, <1>7, <1>8, <1>9 DEF Inv

\* The accept handler counts the session it opens.
LEMMA AcceptStep ==
    ASSUME Inv, NEW p \in Inbound, Accept(p) PROVE Inv'
<1> USE Names
<1>t. TypeOK /\ ConnectionsExact /\ phase \in [Peer -> Phases] /\ connections \in Nat
  BY Types DEF Inv, TypeOK
<1>1. Running(Io, "idle") /\ phase[p] = "new"
      /\ UNCHANGED <<reading, closures, lost, list, mutex, pos, dst, casts, due, got>>
  BY DEF Accept
<1>2. CASE HasRoom /\ connections' = connections + 1 /\ MakePeer(p)
  <2>1. phase' = [phase EXCEPT ![p] = "live"]
    BY <1>2 DEF MakePeer
  <2>2. Open' = Open \cup {p} /\ p \notin Open
    BY <1>t, <1>1, <2>1 DEF Open
  <2>3. Cardinality(Open') = Cardinality(Open) + 1
    BY <2>2, OpenFinite, FS_AddElement
  <2>4. connections = Cardinality(Open) /\ (MaxCon # 0 => connections + 1 <= MaxCon)
    BY <1>2, <1>t, LimitAssumption DEF ConnectionsExact, HasRoom, Open
  <2>5. ConnectionsExact' /\ connections' \in Nat
    BY <1>t, <1>2, <2>3, <2>4 DEF ConnectionsExact, Open
  <2> QED BY <1>1, <1>2, <2>5, NewPeer
<1>3. CASE /\ ~HasRoom /\ phase' = [phase EXCEPT ![p] = "refused"]
           /\ UNCHANGED <<connections, th>>
  <2>1. ConnectionsExact' /\ connections' \in Nat
    BY <1>t, <1>1, <1>3, CountSame
  <2> QED BY <1>1, <1>3, <2>1, NewPeer
<1> QED BY <1>2, <1>3 DEF Accept

\* The connect handler does not count.
LEMMA ConnectStep ==
    ASSUME Inv, NEW p \in Outbound, Connect(p) PROVE Inv'
<1> USE Names
<1>t. TypeOK /\ ConnectionsExact /\ phase \in [Peer -> Phases] /\ connections \in Nat
  BY Types DEF Inv, TypeOK
<1>1. ConnectionsExact' /\ connections' \in Nat
  BY <1>t, CountSame DEF Connect, MakePeer
<1> QED BY <1>1, NewPeer DEF Connect

\* peer::start adds an entry for a peer that has none.
LEMMA StartStep ==
    ASSUME Inv, NEW p \in Peer, Start(p) PROVE Inv'
<1> DEFINE r == [reading EXCEPT ![p] = TRUE]
           c == [closures EXCEPT ![p] = @ + FirstSends(p)]
           h == [th EXCEPT ![Io] = Idle]
<1> USE DEF Inv
<1> USE Names
<1>t. /\ th \in [Thread -> ThreadRecord] /\ phase \in [Peer -> Phases]
      /\ reading \in [Peer -> BOOLEAN] /\ closures \in [Peer -> Nat]
  BY Types
<1>1. /\ h \in [Thread -> ThreadRecord] /\ h[Io].dtor = None /\ h[Io].pc = "idle"
      /\ \A u \in Thread : u # Io => h[u] = th[u]
      /\ h[Io].self \in {None, th[Io].self} /\ h[Io].spt \in {None, th[Io].spt}
  BY <1>t DEF Start, Running, ThreadRecord, Idle
<1>2. /\ r \in [Peer -> BOOLEAN] /\ c \in [Peer -> Nat] /\ r[p]
      /\ \A q \in Peer : q # p => r[q] = reading[q] /\ c[q] = closures[q]
  BY <1>t DEF FirstSends
<1>3. phase[p] = "live" /\ th[Io].dtor = None /\ ~Visiting(Io)
  BY <1>t DEF Start, Running, RefInv, Held, Visiting
<1>4. Release(Io, p, r, c, h)
  BY DEF Start
<1>5. /\ UNCHANGED <<lost, connections, mutex, pos, dst, casts, due, got>>
      /\ list' = Append(list, p) /\ mutex = None /\ Starting(p)
  BY DEF Start, Running, add_peer, Starting
<1> HIDE DEF r, c, h
<1>6. LetGo(Io, p, r, c, h)
  BY <1>t, <1>1, <1>4, ReleaseEffect
<1>7. /\ ConnectionsExact' /\ RefInv' /\ DtorInv' /\ MutexInv' /\ ThreadInv'
      /\ IoInv' /\ RelayInv'
  <2>1. UNCHANGED <<connections, mutex>>
    BY <1>5
  <2> QED BY <2>1, <1>1, <1>2, <1>3, <1>6, IoLetsGo
<1>8. phase' = phase
  BY <1>2, <1>6 DEF LetGo, Held
<1>9. TypeOK'
  <2>1. list' \in Seq(Peer \cup {None})
    BY <1>5, AppendProperties DEF TypeOK
  <2> QED BY <2>1, <1>2, <1>5, <1>6 DEF TypeOK, LetGo, ThreadRecord
<1>10. ScanInv'
  BY <1>5, <1>7 DEF ScanInv, MutexInv
<1>11. ListInv'
  <2>1. PICK n \in Nat : n = Len(list)
    BY ListTypes
  <2>2. /\ Len(list') = n + 1 /\ list'[n + 1] = p
        /\ \A i \in 1 .. n : list'[i] = list[i]
    BY <2>1, <1>5, AppendProperties DEF TypeOK
  <2>3. th'[Io].pc = "idle"
    BY <1>1, <1>6 DEF LetGo, Starting
  <2>4. \A i \in 1 .. n : list[i] # p
    BY <1>5, <2>1 DEF ListInv
  <2>5. \A i \in 1 .. n : list[i] \in Peer \cup {None}
    BY <2>1, ListTypes
  <2> QED
    BY <1>3, <1>5, <1>8, <2>1, <2>2, <2>3, <2>4, <2>5
    DEF ListInv, Starting, ListedOnce, Listed, Registered
<1> QED BY <1>7, <1>9, <1>10, <1>11 DEF Inv

----------------------------------------------------------------------------
(* Steps that keep phases and list.                                        *)

\* A step that keeps phases and list, and only adds references to peers that
\* have some.
LEMMA QuietStep ==
    ASSUME Inv, th' \in [Thread -> ThreadRecord],
           UNCHANGED <<phase, connections, list, mutex, pos, dst, due, got>>,
           \A u \in Thread : /\ th'[u].spt = th[u].spt /\ th'[u].dtor = th[u].dtor
                             /\ th'[u].pc \in {"handler", "lock"} \/ th'[u] = th[u],
           \A u \in Thread : th'[u] # th[u] =>
               th[u].dtor = None /\ ~Visiting(u) /\ th[u].pc # "start",
           \A p \in Peer : Held(p, reading', closures', th')
                             => Held(p, reading, closures, th),
           closures' \in [Peer -> Nat], \A p \in Peer : closures[p] <= closures'[p],
           ThreadInv'
    PROVE  /\ ConnectionsExact' /\ RefInv' /\ DtorInv' /\ MutexInv' /\ ThreadInv'
           /\ ListInv' /\ ScanInv' /\ IoInv' /\ RelayInv'
<1> USE DEF Inv
<1> USE Names
<1>t. /\ th \in [Thread -> ThreadRecord] /\ phase \in [Peer -> Phases]
      /\ closures \in [Peer -> Nat]
  BY Types
<1>1. ConnectionsExact'
  BY CountSame
<1>2. RefInv'
  BY DEF RefInv
<1>3. DtorInv' /\ (\A t \in Thread : Removing(t)' <=> Removing(t))
  BY DEF DtorInv, Removing
<1>4. MutexInv'
  BY <1>3 DEF MutexInv, Visiting
<1>5. /\ \A q : Starting(q)' <=> Starting(q)
      /\ Visiting(Io)' => th'[Io] = th[Io]
  BY DEF Starting, Visiting
<1>6. ListInv' /\ ScanInv'
  BY <1>3, <1>5
  DEF ListInv, ListedOnce, Listed, Registered, Starting, ScanInv, Lockable
<1>7. IoInv'
  <2>1. th'[Io].dtor # None => th'[Io].pc = "idle"
    BY DEF IoInv
  <2>2. ASSUME th'[Io].pc = "drop"
        PROVE  th'[Io].spt = th'[Io].self \/ closures'[th'[Io].spt] > 0
    <3>1. th'[Io] = th[Io]
      BY <2>2, <1>5 DEF Visiting
    <3>2. th[Io].spt \in Peer
      BY <2>2, <3>1, <1>t DEF ThreadInv, ThreadRecord
    <3> QED BY <1>t, <2>2, <3>1, <3>2 DEF IoInv
  <2> QED BY <2>1, <2>2 DEF IoInv
<1>8. RelayInv'
  BY <1>5 DEF RelayInv, Listed, Passed, Visiting
<1> QED BY <1>1, <1>2, <1>3, <1>4, <1>6, <1>7, <1>8

\* A loss of the connection.
LEMMA LoseStep ==
    ASSUME Inv, NEW p \in Peer, Lose(p) PROVE Inv'
<1> USE DEF Inv
<1> USE Names
<1>t. /\ th \in [Thread -> ThreadRecord] /\ reading \in [Peer -> BOOLEAN]
      /\ closures \in [Peer -> Nat]
  BY Types
<1>1. th' = th
  BY DEF Lose
<1>3. /\ UNCHANGED <<phase, connections, list, mutex, pos, dst, due, got>>
      /\ closures' \in [Peer -> Nat] /\ \A q \in Peer : closures[q] <= closures'[q]
  BY <1>t DEF Lose
<1>4. \A q \in Peer :
         Held(q, reading', closures', th') => Held(q, reading, closures, th)
  BY <1>t, <1>1 DEF Held, Lose, Running
<1>5. ThreadInv'
  BY <1>t, <1>1 DEF ThreadInv, Lose, Running
<1>6. TypeOK'
  BY <1>t, <1>1, <1>3 DEF TypeOK, Lose, ThreadRecord
<1>7. /\ ConnectionsExact' /\ RefInv' /\ DtorInv' /\ MutexInv' /\ ThreadInv'
      /\ ListInv' /\ ScanInv' /\ IoInv' /\ RelayInv'
  BY <1>t, <1>1, <1>3, <1>4, <1>5, QuietStep
<1> QED BY <1>6, <1>7 DEF Inv

\* A read that completes.
LEMMA ReadStep ==
    ASSUME Inv, NEW p \in Peer, Read(p) PROVE Inv'
<1> USE DEF Inv
<1> USE Names
<1>t. /\ th \in [Thread -> ThreadRecord] /\ reading \in [Peer -> BOOLEAN]
      /\ closures \in [Peer -> Nat]
  BY Types
<1>1. /\ th' \in [Thread -> ThreadRecord]
      /\ \A u \in Thread : u # Io => th'[u] = th[u]
      /\ th'[Io].pc = "handler" /\ th'[Io].self = p
      /\ th'[Io].spt = th[Io].spt /\ th'[Io].dtor = th[Io].dtor
  BY <1>t, SelfEffect DEF Read, PCs
<1>2. th[Io].dtor = None /\ ~Visiting(Io) /\ th[Io].pc # "start"
  BY DEF Read, Running, Visiting
<1>3. /\ UNCHANGED <<phase, connections, list, mutex, pos, dst, due, got>>
      /\ closures' \in [Peer -> Nat] /\ \A q \in Peer : closures[q] <= closures'[q]
  BY <1>t DEF Read
<1>4. \A q \in Peer :
         Held(q, reading', closures', th') => Held(q, reading, closures, th)
  BY <1>t, <1>1, <1>2 DEF Held, Read, Running
<1>5. ThreadInv'
  BY <1>t, <1>1, <1>2 DEF ThreadInv, Read, Running
<1>6. TypeOK'
  BY <1>t, <1>1, <1>2, <1>3, SMTT(30) DEF TypeOK, Read, ThreadRecord
<1>7. /\ ConnectionsExact' /\ RefInv' /\ DtorInv' /\ MutexInv' /\ ThreadInv'
      /\ ListInv' /\ ScanInv' /\ IoInv' /\ RelayInv'
  BY <1>t, <1>1, <1>2, <1>3, <1>4, <1>5, QuietStep
<1> QED BY <1>6, <1>7 DEF Inv

\* A handler begins a broadcast.
LEMMA RelayStep ==
    ASSUME Inv, NEW p \in Peer, Relay(p) PROVE Inv'
<1> USE DEF Inv
<1> USE Names
<1>t. /\ th \in [Thread -> ThreadRecord] /\ reading \in [Peer -> BOOLEAN]
      /\ closures \in [Peer -> Nat]
  BY Types
<1>1. /\ th' \in [Thread -> ThreadRecord]
      /\ \A u \in Thread : u # Io => th'[u] = th[u]
      /\ th'[Io].pc = "lock" /\ th'[Io].self = th[Io].self
      /\ th'[Io].spt = th[Io].spt /\ th'[Io].dtor = th[Io].dtor
  BY <1>t, PcEffect DEF Relay, PCs
<1>2. th[Io].dtor = None /\ ~Visiting(Io) /\ th[Io].pc # "start"
  BY DEF Relay, Running, Visiting
<1>3. /\ UNCHANGED <<phase, connections, list, mutex, pos, dst, due, got>>
      /\ closures' \in [Peer -> Nat] /\ \A q \in Peer : closures[q] <= closures'[q]
  BY <1>t DEF Relay
<1>4. \A q \in Peer :
         Held(q, reading', closures', th') => Held(q, reading, closures, th)
  BY <1>t, <1>1, <1>2 DEF Held, Relay, Running
<1>5. ThreadInv'
  BY <1>t, <1>1, <1>2 DEF ThreadInv, Relay, Running
<1>6. TypeOK'
  BY <1>t, <1>1, <1>2, <1>3, SMTT(30) DEF TypeOK, Relay, ThreadRecord
<1>7. /\ ConnectionsExact' /\ RefInv' /\ DtorInv' /\ MutexInv' /\ ThreadInv'
      /\ ListInv' /\ ScanInv' /\ IoInv' /\ RelayInv'
  BY <1>t, <1>1, <1>2, <1>3, <1>4, <1>5, QuietStep
<1> QED BY <1>6, <1>7 DEF Inv

\* A handler sends an answer.
LEMMA AnswerStep ==
    ASSUME Inv, NEW p \in Peer, Answer(p) PROVE Inv'
<1> USE DEF Inv
<1> USE Names
<1>t. /\ th \in [Thread -> ThreadRecord] /\ reading \in [Peer -> BOOLEAN]
      /\ closures \in [Peer -> Nat]
  BY Types
<1>1. th' = th
  BY DEF Answer
<1>3. /\ UNCHANGED <<phase, connections, list, mutex, pos, dst, due, got>>
      /\ closures' \in [Peer -> Nat] /\ \A q \in Peer : closures[q] <= closures'[q]
  BY <1>t DEF Answer
<1>4. \A q \in Peer :
         Held(q, reading', closures', th') => Held(q, reading, closures, th)
  BY <1>t, <1>1 DEF Held, Answer, Running
<1>5. ThreadInv'
  BY <1>t, <1>1 DEF ThreadInv, Answer, Running
<1>6. TypeOK'
  BY <1>t, <1>1, <1>3 DEF TypeOK, Answer, ThreadRecord
<1>7. /\ ConnectionsExact' /\ RefInv' /\ DtorInv' /\ MutexInv' /\ ThreadInv'
      /\ ListInv' /\ ScanInv' /\ IoInv' /\ RelayInv'
  BY <1>t, <1>1, <1>3, <1>4, <1>5, QuietStep
<1> QED BY <1>6, <1>7 DEF Inv

\* Another thread begins a broadcast.
LEMMA CallerCastStep ==
    ASSUME Inv, NEW t \in Thread, CallerCast(t) PROVE Inv'
<1> USE DEF Inv
<1> USE Names
<1>t. /\ th \in [Thread -> ThreadRecord] /\ reading \in [Peer -> BOOLEAN]
      /\ closures \in [Peer -> Nat]
  BY Types
<1>1. /\ th' \in [Thread -> ThreadRecord]
      /\ \A u \in Thread : u # t => th'[u] = th[u]
      /\ th'[t].pc = "lock" /\ th'[t].self = th[t].self
      /\ th'[t].spt = th[t].spt /\ th'[t].dtor = th[t].dtor
  BY <1>t, PcEffect DEF CallerCast, PCs
<1>2. th[t].dtor = None /\ ~Visiting(t) /\ th[t].pc # "start"
  BY DEF CallerCast, Running, Visiting
<1>3. /\ UNCHANGED <<phase, connections, list, mutex, pos, dst, due, got>>
      /\ closures' \in [Peer -> Nat] /\ \A q \in Peer : closures[q] <= closures'[q]
  BY <1>t DEF CallerCast
<1>4. \A q \in Peer :
         Held(q, reading', closures', th') => Held(q, reading, closures, th)
  BY <1>t, <1>1, <1>2 DEF Held, CallerCast, Running
<1>5. ThreadInv'
  BY <1>t, <1>1, <1>2 DEF ThreadInv, CallerCast, Running
<1>6. TypeOK'
  BY <1>t, <1>1, <1>2, <1>3 DEF TypeOK, CallerCast, ThreadRecord
<1>7. /\ ConnectionsExact' /\ RefInv' /\ DtorInv' /\ MutexInv' /\ ThreadInv'
      /\ ListInv' /\ ScanInv' /\ IoInv' /\ RelayInv'
  BY <1>t, <1>1, <1>2, <1>3, <1>4, <1>5, QuietStep
<1> QED BY <1>6, <1>7 DEF Inv

----------------------------------------------------------------------------
(* peer_list::broadcast.                                                   *)

\* broadcast locks the mutex: nothing is passed, nothing sent.
LEMMA CastLockStep ==
    ASSUME Inv, NEW t \in Thread, CastLock(t) PROVE Inv'
<1> USE DEF Inv
<1> USE Names
<1>t. /\ th \in [Thread -> ThreadRecord] /\ phase \in [Peer -> Phases]
      /\ got \in [Peer -> Nat]
  BY Types
<1>l. Len(list) \in Nat
  BY ListTypes
<1>1. /\ th' \in [Thread -> ThreadRecord]
      /\ \A u \in Thread : u # t => th'[u] = th[u]
      /\ th'[t].pc = "visit" /\ th'[t].self = th[t].self
      /\ th'[t].spt = th[t].spt /\ th'[t].dtor = th[t].dtor
  BY <1>t, PcEffect DEF CastLock, PCs
<1>2. /\ th[t].pc = "lock" /\ th[t].dtor = None
      /\ mutex = None /\ mutex' = t /\ pos' = 1
      /\ UNCHANGED <<phase, reading, closures, lost, connections, list, dst, casts>>
      /\ due' = {p \in Peer : Lockable(p) /\ Listed(p) /\ p # th[t].self}
      /\ got' = [p \in Peer |-> 0]
  BY DEF CastLock, Running
<1>3. TypeOK'
  BY <1>t, <1>1, <1>2 DEF TypeOK, ThreadRecord
<1>4. ConnectionsExact'
  BY <1>2, CountSame
<1>5. RefInv' /\ DtorInv' /\ (\A u \in Thread : Removing(u)' <=> Removing(u))
  BY <1>1, <1>2 DEF RefInv, Held, DtorInv, Removing
<1>6. MutexInv'
  BY <1>1, <1>2, <1>5 DEF MutexInv, Visiting, Removing
<1>7. ThreadInv'
  BY <1>1, <1>2 DEF ThreadInv
<1>8. ListInv'
  BY <1>1, <1>2 DEF ListInv, ListedOnce, Listed, Registered, Starting
<1>9. ScanInv'
  BY <1>2, <1>5 DEF ScanInv, MutexInv
<1>10. IoInv'
  BY <1>1, <1>2 DEF IoInv
<1>11. RelayInv'
  <2>1. CASE t = Io
    <3>1. \A i \in 1 .. Len(list) : ~Passed(i)'
      BY <1>1, <1>2, <1>l, <2>1 DEF Passed
    <3>2. \A p \in Peer : phase[p] = "live" =>
            (p \in due' <=> Listed(p) /\ p # th[Io].self)
      BY <1>2, <2>1 DEF Lockable
    <3> QED BY <1>1, <1>2, <2>1, <3>1, <3>2 DEF RelayInv, Listed
  <2>2. CASE t # Io
    BY <1>1, <1>2, <2>2 DEF RelayInv, Visiting, MutexInv
  <2> QED BY <2>1, <2>2
<1> QED
  BY <1>3, <1>4, <1>5, <1>6, <1>7, <1>8, <1>9, <1>10, <1>11 DEF Inv

\* broadcast passes an expired entry.
LEMMA CastPassStep ==
    ASSUME Inv, NEW t \in Thread, Running(t, "visit"), pos <= Len(list),
           ~Lockable(list[pos]), pos' = pos + 1,
           UNCHANGED <<phase, reading, closures, lost, connections, list, mutex,
                       dst, th, casts, due, got>>
    PROVE  Inv'
<1> USE DEF Inv
<1> USE Names
<1>l. Len(list) \in Nat /\ pos \in Nat \ {0} /\ dst \in Nat \ {0}
  BY ListTypes, Types
<1>1. th[t].pc = "visit" /\ th[t].dtor = None
  BY DEF Running
<1>2. TypeOK'
  BY <1>l DEF TypeOK
<1>3. /\ ConnectionsExact' /\ RefInv' /\ DtorInv' /\ MutexInv' /\ ThreadInv' /\ IoInv'
  BY CountSame
  DEF RefInv, Held, DtorInv, MutexInv, Visiting, Removing, ThreadInv, IoInv
<1>4. ListInv'
  BY DEF ListInv, ListedOnce, Listed, Registered, Starting
<1>5. ScanInv'
  BY <1>1 DEF ScanInv, MutexInv, Visiting, Removing
<1>6. RelayInv'
  <2>1. CASE t = Io
    <3>1. \A i \in 1 .. Len(list) : Passed(i)' <=> Passed(i) \/ i = pos
      BY <1>l, <1>1, <2>1 DEF Passed
    <3>2. \A p \in Peer : phase[p] = "live" => list[pos] # p
      BY DEF Lockable
    <3>3. \A p \in Peer : phase[p] = "live" =>
            ((\E i \in 1 .. Len(list) : list[i] = p /\ Passed(i)')
               <=> \E i \in 1 .. Len(list) : list[i] = p /\ Passed(i))
      BY <3>1, <3>2
    <3> QED BY <1>1, <2>1, <3>3 DEF RelayInv, Listed, Visiting
  <2>2. CASE t # Io
    BY <1>1, <2>2 DEF RelayInv, Visiting, MutexInv
  <2> QED BY <2>1, <2>2
<1> QED
  BY <1>2, <1>3, <1>4, <1>5, <1>6 DEF Inv

\* broadcast locks an entry and sends: the entry is the only one of its peer, so
\* the peer had nothing before.
LEMMA CastSendStep ==
    ASSUME Inv, NEW t \in Thread, Running(t, "visit"), pos <= Len(list),
           NEW p, p = list[pos], Lockable(p),
           th' = [th EXCEPT ![t].pc = "drop", ![t].spt = p],
           IF SendsTo(t, p)
           THEN /\ closures' = [closures EXCEPT ![p] = @ + 1]
                /\ got' = [got EXCEPT ![p] = @ + 1]
           ELSE UNCHANGED <<closures, got>>,
           UNCHANGED <<phase, reading, lost, connections, list, mutex, pos, dst,
                       casts, due>>
    PROVE  Inv'
<1> USE DEF Inv
<1> USE Names
<1>l. /\ Len(list) \in Nat /\ pos \in Nat \ {0} /\ dst \in Nat \ {0}
      /\ pos \in 1 .. Len(list) /\ p \in Peer /\ phase[p] = "live"
  BY ListTypes, Types DEF Lockable
<1>t. /\ th \in [Thread -> ThreadRecord] /\ phase \in [Peer -> Phases]
      /\ closures \in [Peer -> Nat] /\ got \in [Peer -> Nat]
  BY Types
<1>p. p \in Peer
  BY <1>l
<1>1. th[t].pc = "visit" /\ th[t].dtor = None /\ mutex = t
  BY DEF Running, MutexInv, Visiting
<1>2. /\ th' \in [Thread -> ThreadRecord]
      /\ \A u \in Thread : u # t => th'[u] = th[u]
      /\ th'[t].pc = "drop" /\ th'[t].self = th[t].self
      /\ th'[t].spt = p /\ th'[t].dtor = th[t].dtor
  BY <1>t, <1>p, SptEffect
<1>3. /\ closures' \in [Peer -> Nat] /\ got' \in [Peer -> Nat]
      /\ \A q \in Peer : q # p => closures'[q] = closures[q] /\ got'[q] = got[q]
      /\ closures'[p] >= closures[p]
      /\ IF th[t].self \notin {None, p} THEN closures'[p] > 0 /\ got'[p] = got[p] + 1
                                        ELSE got'[p] = got[p]
  <2>1. CASE SendsTo(t, p)
    <3>1. /\ closures' = [closures EXCEPT ![p] = closures[p] + 1]
          /\ got' = [got EXCEPT ![p] = got[p] + 1]
      BY <2>1
    <3> QED BY <1>t, <1>p, <2>1, <3>1 DEF SendsTo
  <2>2. CASE ~SendsTo(t, p)
    BY <1>t, <1>p, <2>2 DEF SendsTo
  <2> QED BY <2>1, <2>2
<1>4. TypeOK'
  BY <1>2, <1>3 DEF TypeOK, ThreadRecord
<1>5. ConnectionsExact'
  BY CountSame
<1>6. RefInv'
  BY <1>t, <1>l, <1>2, <1>3 DEF RefInv, Held
<1>7. DtorInv' /\ (\A u \in Thread : Removing(u)' <=> Removing(u))
  BY <1>1, <1>2 DEF DtorInv, Removing
<1>8. MutexInv'
  BY <1>1, <1>2, <1>7 DEF MutexInv, Visiting
<1>9. ThreadInv'
  BY <1>1, <1>2, <1>l DEF ThreadInv
<1>10. ListInv'
  BY <1>1, <1>2 DEF ListInv, ListedOnce, Listed, Registered, Starting
<1>11. ScanInv'
  BY <1>1, <1>7 DEF ScanInv, MutexInv, Visiting
<1>12. CASE t = Io
  <2>1. th[Io].self # None
    BY <1>1, <1>12 DEF ThreadInv
  <2>2. IoInv'
    BY <1>1, <1>2, <1>3, <1>12, <2>1 DEF IoInv
  <2>3. RelayInv'
    <3>1. \A i \in 1 .. Len(list) : Passed(i)' <=> Passed(i) \/ i = pos
      BY <1>l, <1>1, <1>2, <1>12 DEF Passed
    <3>2. \A i \in 1 .. Len(list) : list[i] = p /\ Passed(i) => FALSE
      BY <1>l, <1>1, <1>12 DEF Passed, ListInv, ListedOnce, Registered
    <3>3. ASSUME NEW q \in Peer, phase[q] = "live"
          PROVE  /\ q \in due <=> Listed(q) /\ q # th[Io].self
                 /\ got'[q] = IF /\ q # th[Io].self
                                 /\ \E i \in 1 .. Len(list) : list[i] = q /\ Passed(i)'
                              THEN 1 ELSE 0
      <4>1. /\ q \in due <=> Listed(q) /\ q # th[Io].self
            /\ got[q] = IF /\ q # th[Io].self
                           /\ \E i \in 1 .. Len(list) : list[i] = q /\ Passed(i)
                        THEN 1 ELSE 0
        BY <1>1, <1>12, <3>3 DEF RelayInv, Visiting
      <4>2. CASE q = p
        <5>1. got[p] = 0
          BY <4>1, <4>2, <3>2
        <5>2. \E i \in 1 .. Len(list) : list[i] = p /\ Passed(i)'
          BY <1>l, <3>1
        <5> QED BY <4>1, <4>2, <5>1, <5>2, <1>3, <1>12, <2>1
      <4>3. CASE q # p
        <5>1. (\E i \in 1 .. Len(list) : list[i] = q /\ Passed(i)')
                 <=> \E i \in 1 .. Len(list) : list[i] = q /\ Passed(i)
          BY <3>1, <4>3
        <5> QED BY <4>1, <4>3, <5>1, <1>3
      <4> QED BY <4>2, <4>3
    <3> QED BY <1>l, <1>2, <1>12, <3>3 DEF RelayInv, Listed
  <2> QED
    BY <1>4, <1>5, <1>6, <1>7, <1>8, <1>9, <1>10, <1>11, <2>2, <2>3 DEF Inv
<1>13. CASE t # Io
  <2>1. IoInv'
    BY <1>1, <1>2, <1>3, <1>13 DEF IoInv, MutexInv, Visiting
  <2>2. RelayInv'
    BY <1>1, <1>2, <1>13 DEF RelayInv, Visiting, MutexInv
  <2> QED
    BY <1>4, <1>5, <1>6, <1>7, <1>8, <1>9, <1>10, <1>11, <2>1, <2>2 DEF Inv
<1> QED BY <1>12, <1>13

\* One entry of broadcast.
LEMMA CastVisitStep ==
    ASSUME Inv, NEW t \in Thread, CastVisit(t) PROVE Inv'
<1>1. CASE ~Lockable(list[pos])
  BY <1>1, CastPassStep DEF CastVisit
<1>2. CASE Lockable(list[pos])
  BY <1>2, CastSendStep DEF CastVisit
<1> QED BY <1>1, <1>2

\* The temporary goes: in the io thread it is never the last reference.
LEMMA CastDropStep ==
    ASSUME Inv, NEW t \in Thread, CastDrop(t) PROVE Inv'
<1> DEFINE h == [th EXCEPT ![t].pc = "visit", ![t].spt = None]
<1> USE DEF Inv
<1> USE Names
<1>t. /\ th \in [Thread -> ThreadRecord] /\ phase \in [Peer -> Phases]
      /\ reading \in [Peer -> BOOLEAN] /\ closures \in [Peer -> Nat]
  BY Types
<1>l. /\ Len(list) \in Nat /\ pos \in Nat \ {0} /\ dst \in Nat \ {0}
      /\ \A i \in 1 .. Len(list) : list[i] \in Peer \cup {None}
  BY ListTypes, Types
<1>1. th[t].pc = "drop" /\ th[t].dtor = None /\ mutex = t
  BY DEF CastDrop, Running, MutexInv, Visiting
<1>2. /\ h \in [Thread -> ThreadRecord] /\ h[t].dtor = None /\ h[t].pc = "visit"
      /\ \A u \in Thread : u # t => h[u] = th[u]
      /\ h[t].self = th[t].self /\ h[t].spt = None
  BY <1>t, <1>1, DropEffect
<1>3. PICK p \in Peer : p = th[t].spt
  BY <1>t, <1>1 DEF ThreadInv, ThreadRecord
<1>4. phase[p] = "live"
  BY <1>3 DEF RefInv, Held
<1>5. /\ Release(t, p, reading, closures, h) /\ pos' = pos + 1
      /\ UNCHANGED <<lost, connections, list, mutex, dst, casts, due, got>>
  BY <1>3 DEF CastDrop
<1> HIDE DEF h
<1>6. LetGo(t, p, reading, closures, h)
  BY <1>t, <1>2, <1>5, ReleaseEffect
<1>7. th'[t].pc = "visit"
  BY <1>2, <1>6 DEF LetGo
<1>8. TypeOK'
  BY <1>l, <1>5, <1>6 DEF TypeOK, LetGo, ThreadRecord
<1>9. ConnectionsExact'
  BY <1>4, <1>5, <1>6, CountSame DEF LetGo
<1>10. RefInv'
  BY <1>t, <1>2, <1>3, <1>4, <1>6 DEF RefInv, Held, LetGo
<1>11. DtorInv' /\ (\A u \in Thread : Removing(u)' <=> Removing(u))
  <2>1. /\ \A u \in Thread : u # t => th'[u].dtor = th[u].dtor
        /\ th'[t].dtor \in {None, p} /\ (th'[t].dtor = p => phase'[p] = "dying")
        /\ \A q \in Peer : q # p => phase'[q] = phase[q]
    BY <1>2, <1>6 DEF LetGo
  <2>2. \A u \in Thread : th[u].dtor # p /\ th[u].dtor \in Peer \cup {None}
    BY <1>t, <1>4 DEF DtorInv, ThreadRecord
  <2>3. DtorInv'
    BY <1>1, <2>1, <2>2 DEF DtorInv
  <2> QED BY <1>1, <2>1, <2>2, <2>3 DEF Removing
<1>12. MutexInv'
  BY <1>1, <1>2, <1>5, <1>6, <1>11 DEF MutexInv, Visiting, LetGo
<1>13. ThreadInv'
  BY <1>1, <1>2, <1>6 DEF ThreadInv, LetGo
<1>14. ListInv'
  BY <1>l, <1>1, <1>2, <1>4, <1>5, <1>6, SMTT(30)
  DEF ListInv, ListedOnce, Listed, Registered, Starting, LetGo
<1>15. ScanInv'
  BY <1>1, <1>5, <1>11 DEF ScanInv, MutexInv, Visiting
<1>16. CASE t = Io
  <2>1. Held(p, reading, closures, h)
    BY <1>1, <1>2, <1>3, <1>16 DEF IoInv, Held
  <2>2. phase' = phase /\ th'[Io].dtor = None
    BY <2>1, <1>6, <1>16 DEF LetGo
  <2>3. IoInv'
    BY <1>7, <1>16, <2>2 DEF IoInv
  <2>4. RelayInv'
    <3>1. \A i \in 1 .. Len(list) : Passed(i)' <=> Passed(i)
      BY <1>l, <1>1, <1>5, <1>7, <1>16 DEF Passed
    <3> QED BY <1>1, <1>2, <1>5, <1>6, <1>7, <1>16, <2>2, <3>1
        DEF RelayInv, Visiting, Listed, LetGo
  <2> QED
    BY <1>8, <1>9, <1>10, <1>11, <1>12, <1>13, <1>14, <1>15, <2>3, <2>4 DEF Inv
<1>17. CASE t # Io
  <2>1. IoInv' /\ RelayInv'
    BY <1>1, <1>2, <1>6, <1>17 DEF IoInv, RelayInv, Visiting, MutexInv, LetGo
  <2> QED
    BY <1>8, <1>9, <1>10, <1>11, <1>12, <1>13, <1>14, <1>15, <2>1 DEF Inv
<1> QED BY <1>16, <1>17

\* broadcast returns.
LEMMA CastUnlockStep ==
    ASSUME Inv, NEW t \in Thread, CastUnlock(t) PROVE Inv'
<1> USE DEF Inv
<1> USE Names
<1>t. th \in [Thread -> ThreadRecord]
  BY Types
<1>1. PICK x \in PCs : /\ x = (IF t = Io THEN "handler" ELSE "idle")
                       /\ th' = [th EXCEPT ![t].pc = x]
  BY DEF CastUnlock, PCs
<1>2. /\ th' \in [Thread -> ThreadRecord]
      /\ \A u \in Thread : u # t => th'[u] = th[u]
      /\ th'[t].pc = x /\ th'[t].self = th[t].self
      /\ th'[t].spt = th[t].spt /\ th'[t].dtor = th[t].dtor
  <2>1. th' = [th EXCEPT ![t].pc = x]
    BY <1>1
  <2> QED
    BY ONLY t \in Thread, x \in PCs, <1>t, <2>1, PcEffect
<1>3. /\ th[t].pc = "visit" /\ th[t].dtor = None /\ mutex = t /\ mutex' = None
      /\ UNCHANGED <<phase, reading, closures, lost, connections, list, pos, dst,
                     casts, due, got>>
  BY DEF CastUnlock, Running, MutexInv, Visiting
<1>4. TypeOK'
  BY <1>2, <1>3 DEF TypeOK, ThreadRecord
<1>5. ConnectionsExact'
  BY <1>3, CountSame
<1>6. RefInv' /\ DtorInv' /\ (\A u \in Thread : Removing(u)' <=> Removing(u))
  BY <1>2, <1>3 DEF RefInv, Held, DtorInv, Removing
<1>7. MutexInv'
  BY <1>1, <1>2, <1>3, <1>6 DEF MutexInv, Visiting
<1>8. ThreadInv' /\ IoInv'
  BY <1>1, <1>2, <1>3 DEF ThreadInv, IoInv
<1>9. ListInv'
  BY <1>1, <1>2, <1>3 DEF ListInv, ListedOnce, Listed, Registered, Starting
<1>10. ScanInv'
  BY <1>3, <1>6, <1>7 DEF ScanInv, MutexInv
<1>11. RelayInv'
  BY <1>1, <1>2, <1>3 DEF RelayInv, Visiting, MutexInv
<1> QED BY <1>4, <1>5, <1>6, <1>7, <1>8, <1>9, <1>10, <1>11 DEF Inv

----------------------------------------------------------------------------
(* ~peer.                                                                  *)

\* A session that ends is taken from the count once.
LEMMA SessionEndStep ==
    ASSUME Inv, NEW t \in Thread, SessionEnd(t) PROVE Inv'
<1> USE DEF Inv
<1> USE Names
<1>t. /\ th \in [Thread -> ThreadRecord] /\ phase \in [Peer -> Phases]
      /\ connections \in Nat
  BY Types DEF TypeOK
<1>l. /\ Len(list) \in Nat /\ \A i \in 1 .. Len(list) : list[i] \in Peer \cup {None}
  BY ListTypes
<1>1. PICK p \in Peer : p = th[t].dtor
  BY <1>t DEF SessionEnd, ThreadRecord
<1>2. /\ phase[p] = "dying" /\ phase' = [phase EXCEPT ![p] = "ended"]
      /\ connections' = IF p \in Inbound THEN connections - 1 ELSE connections
      /\ UNCHANGED <<reading, closures, lost, list, mutex, pos, dst, th, casts, due,
                     got>>
  BY <1>1 DEF SessionEnd, GivesBack
<1>3. /\ phase' \in [Peer -> Phases] /\ phase'[p] = "ended"
      /\ \A q \in Peer : q # p => phase'[q] = phase[q]
  BY <1>t, <1>2 DEF Phases
<1>4. ConnectionsExact' /\ connections' \in Nat
  <2>1. CASE p \in Inbound
    <3>1. Open' = Open \ {p} /\ p \in Open
      BY <1>2, <1>3, <2>1 DEF Open
    <3>2. Cardinality(Open') = Cardinality(Open) - 1 /\ Cardinality(Open') \in Nat
      BY <3>1, OpenFinite, FS_RemoveElement, FS_CardinalityType
    <3>3. connections = Cardinality(Open) /\ (MaxCon # 0 => connections <= MaxCon)
      BY DEF ConnectionsExact, Open
    <3>4. connections - 1 \in Nat /\ (MaxCon # 0 => connections - 1 <= MaxCon)
      BY <1>t, <3>2, <3>3, LimitAssumption
    <3> QED BY <1>2, <2>1, <3>2, <3>3, <3>4 DEF ConnectionsExact, Open
  <2>2. CASE p \notin Inbound
    <3>1. \A q \in Inbound : phase'[q] = phase[q]
      BY <1>3, <2>2
    <3> QED BY <1>t, <1>2, <2>2, <3>1, CountSame
  <2> QED BY <2>1, <2>2
<1>5. TypeOK'
  BY <1>2, <1>3, <1>4 DEF TypeOK
<1>6. RefInv' /\ DtorInv'
  BY <1>1, <1>2, <1>3 DEF RefInv, Held, DtorInv
<1>7. \A u \in Thread : Removing(u)' <=> Removing(u)
  BY <1>t, <1>1, <1>2, <1>3 DEF Removing, ThreadRecord
<1>8. MutexInv' /\ ThreadInv' /\ IoInv'
  BY <1>2, <1>7 DEF MutexInv, Visiting, ThreadInv, IoInv
<1>9. ListInv' /\ ScanInv'
  <2>1. \A q \in Peer :
           /\ phase'[q] = "live" <=> phase[q] = "live"
           /\ phase'[q] \in {"new", "refused"} <=> phase[q] \in {"new", "refused"}
    BY <1>2, <1>3
  <2>2. ListInv'
    BY <1>l, <1>2, <2>1 DEF ListInv, ListedOnce, Listed, Registered, Starting
  <2>3. ScanInv'
    BY <1>l, <1>2, <1>7, <2>1 DEF ScanInv, Lockable
  <2> QED BY <2>2, <2>3
<1>10. RelayInv'
  BY <1>2, <1>3 DEF RelayInv, Visiting, Listed, Passed
<1> QED BY <1>4, <1>5, <1>6, <1>8, <1>9, <1>10 DEF Inv

\* remove_peer locks the mutex.
LEMMA RemoveLockStep ==
    ASSUME Inv, NEW t \in Thread, RemoveLock(t) PROVE Inv'
<1> USE DEF Inv
<1> USE Names
<1>t. /\ th \in [Thread -> ThreadRecord] /\ phase \in [Peer -> Phases]
  BY Types
<1>l. /\ Len(list) \in Nat /\ \A i \in 1 .. Len(list) : list[i] \in Peer \cup {None}
  BY ListTypes
<1>1. PICK p \in Peer : p = th[t].dtor
  BY <1>t DEF RemoveLock, ThreadRecord
<1>2. /\ phase[p] = "ended" /\ phase' = [phase EXCEPT ![p] = "removing"]
      /\ mutex = None /\ mutex' = t /\ pos' = 1 /\ dst' = 1
      /\ UNCHANGED <<reading, closures, lost, connections, list, th, casts, due, got>>
  BY <1>1 DEF RemoveLock
<1>3. /\ phase' \in [Peer -> Phases] /\ phase'[p] = "removing"
      /\ \A q \in Peer : q # p => phase'[q] = phase[q]
  BY <1>t, <1>2 DEF Phases
<1>4. ~Visiting(t)
  BY <1>2 DEF MutexInv
<1>5. TypeOK'
  BY <1>2, <1>3 DEF TypeOK
<1>6. ConnectionsExact'
  BY <1>2, <1>3, CountSame
<1>7. RefInv' /\ DtorInv'
  BY <1>1, <1>2, <1>3 DEF RefInv, Held, DtorInv
<1>8. \A u \in Thread : Removing(u)' <=> u = t \/ Removing(u)
  BY <1>t, <1>1, <1>2, <1>3 DEF Removing, DtorInv, ThreadRecord
<1>9. MutexInv'
  BY <1>2, <1>4, <1>8 DEF MutexInv, Visiting
<1>10. ThreadInv' /\ IoInv'
  BY <1>2 DEF ThreadInv, IoInv
<1>11. ListInv' /\ ScanInv'
  <2>1. \A q \in Peer :
           /\ phase'[q] = "live" <=> phase[q] = "live"
           /\ phase'[q] \in {"new", "refused"} <=> phase[q] \in {"new", "refused"}
    BY <1>2, <1>3
  <2>2. ListInv'
    BY <1>l, <1>2, <2>1 DEF ListInv, ListedOnce, Listed, Registered, Starting
  <2>3. ScanInv'
    BY <1>l, <1>2 DEF ScanInv
  <2> QED BY <2>2, <2>3
<1>12. RelayInv'
  BY <1>2, <1>3 DEF RelayInv, Visiting, MutexInv
<1> QED BY <1>5, <1>6, <1>7, <1>9, <1>10, <1>11, <1>12 DEF Inv

\* One entry of remove_if: a survivor moves over an expired entry or onto itself.
LEMMA RemoveVisitStep ==
    ASSUME Inv, NEW t \in Thread, RemoveVisit(t) PROVE Inv'
<1> USE DEF Inv
<1> USE Names
<1>t. /\ th \in [Thread -> ThreadRecord] /\ phase \in [Peer -> Phases]
  BY Types
<1>l. /\ Len(list) \in Nat /\ \A i \in 1 .. Len(list) : list[i] \in Peer \cup {None}
      /\ pos \in Nat \ {0} /\ dst \in Nat \ {0}
  BY ListTypes, Types
<1>1. /\ Removing(t) /\ pos \in 1 .. Len(list) /\ pos' = pos + 1
      /\ UNCHANGED <<phase, reading, closures, lost, connections, mutex, th, casts,
                     due, got>>
  BY <1>l DEF RemoveVisit
<1>2. mutex = t /\ dst \in 1 .. pos
      /\ \A i \in 1 .. Len(list) : dst <= i /\ i < pos => ~Lockable(list[i])
  BY <1>1, <1>l DEF MutexInv, ScanInv
<1>3. /\ ConnectionsExact' /\ RefInv' /\ DtorInv' /\ MutexInv' /\ ThreadInv' /\ IoInv'
  BY <1>1, CountSame
  DEF RefInv, Held, DtorInv, MutexInv, Visiting, Removing, ThreadInv, IoInv
<1>4. RelayInv'
  BY <1>1, <1>2 DEF RelayInv, Visiting, MutexInv
<1>5. CASE Lockable(list[pos]) /\ list' = Moved(pos, dst) /\ dst' = dst + 1
  <2>1. /\ Len(list') = Len(list) /\ list' \in Seq(Peer \cup {None})
        /\ list'[dst] = list[pos]
        /\ pos # dst => list'[pos] = None
        /\ \A i \in 1 .. Len(list) : i \notin {dst, pos} => list'[i] = list[i]
    <3>1. list \in Seq(Peer \cup {None}) /\ list[pos] \in Peer \cup {None}
      BY <1>1, <1>l DEF TypeOK
    <3>2. list' = [list EXCEPT ![pos] = None, ![dst] = list[pos]]
      BY <1>5 DEF Moved
    <3>3. dst \in 1 .. Len(list)
      BY <1>1, <1>2, <1>l
    <3> QED BY <3>1, <3>2, <3>3, <1>1
  <2>2. TypeOK'
    BY <1>1, <1>5, <1>l, <2>1 DEF TypeOK
  <2>3. \A i, j \in 1 .. Len(list) :
           list'[i] # None /\ phase[list'[i]] = "live" /\ list'[i] = list'[j] => i = j
    <3> SUFFICES ASSUME NEW i \in 1 .. Len(list), NEW j \in 1 .. Len(list), i # j,
                        list'[i] # None, phase[list'[i]] = "live", list'[i] = list'[j]
                 PROVE  FALSE
      OBVIOUS
    <3> DEFINE From(k) == IF k = dst THEN pos ELSE k
    <3>1. \A k \in {i, j} : From(k) \in 1 .. Len(list) /\ list'[k] = list[From(k)]
      BY <1>1, <1>2, <1>l, <2>1
    <3>2. From(i) = From(j)
      BY <1>l, <3>1 DEF ListInv, ListedOnce, Registered, Starting
    <3> QED BY <1>1, <1>2, <1>l, <2>1, <3>2
  <2>4. \A p \in Peer : phase[p] = "live" /\ Listed(p) => Listed(p)'
    BY <1>1, <1>2, <1>5, <1>l, <2>1 DEF Lockable, Listed
  <2>5. \A i \in 1 .. Len(list) :
           list'[i] # None => \E j \in 1 .. Len(list) : list'[i] = list[j]
    BY <1>1, <1>2, <1>l, <2>1
  <2>6. ListInv'
    BY <1>1, <1>l, <2>1, <2>3, <2>4, <2>5 DEF ListInv, ListedOnce, Registered, Starting
  <2>7. ScanInv'
    <3>1. ASSUME NEW i \in 1 .. Len(list), dst + 1 <= i, i < pos + 1
          PROVE  ~(list'[i] # None /\ phase[list'[i]] = "live")
      <4>1. CASE i = pos
        BY <1>1, <1>l, <2>1, <3>1, <4>1
      <4>2. CASE i # pos
        <5>1. i \notin {dst, pos} /\ dst <= i /\ i < pos
          BY <1>l, <3>1, <4>2
        <5> QED BY <1>2, <2>1, <5>1 DEF Lockable
      <4> QED BY <4>1, <4>2
    <3>2. dst' <= pos'
      BY <1>1, <1>2, <1>5, <1>l
    <3> QED BY <1>1, <1>5, <2>1, <3>1, <3>2 DEF ScanInv, Lockable
  <2> QED BY <1>3, <1>4, <2>2, <2>6, <2>7 DEF Inv
<1>6. CASE ~Lockable(list[pos]) /\ UNCHANGED <<list, dst>>
  <2>1. TypeOK'
    BY <1>1, <1>6, <1>l DEF TypeOK
  <2>2. ListInv'
    BY <1>1, <1>6 DEF ListInv, ListedOnce, Listed, Registered, Starting
  <2>3. ScanInv'
    BY <1>1, <1>2, <1>6, <1>l DEF ScanInv, Lockable
  <2> QED BY <1>3, <1>4, <2>1, <2>2, <2>3 DEF Inv
<1> QED BY <1>5, <1>6 DEF RemoveVisit

\* remove_peer returns.
LEMMA RemoveUnlockStep ==
    ASSUME Inv, NEW t \in Thread, RemoveUnlock(t) PROVE Inv'
<1> USE DEF Inv
<1> USE Names
<1>t. /\ th \in [Thread -> ThreadRecord] /\ phase \in [Peer -> Phases]
  BY Types
<1>l. /\ Len(list) \in Nat /\ \A i \in 1 .. Len(list) : list[i] \in Peer \cup {None}
  BY ListTypes
<1>1. PICK p \in Peer : p = th[t].dtor
  BY <1>t DEF RemoveUnlock, Removing, ThreadRecord
<1>2. /\ phase[p] = "removing" /\ phase' = [phase EXCEPT ![p] = "gone"]
      /\ Removing(t) /\ mutex = t /\ mutex' = None
      /\ th' = [th EXCEPT ![t].dtor = None]
      /\ UNCHANGED <<reading, closures, lost, connections, list, pos, dst, casts,
                     due, got>>
  BY <1>1 DEF RemoveUnlock, Removing, MutexInv
<1>3. /\ phase' \in [Peer -> Phases] /\ phase'[p] = "gone"
      /\ \A q \in Peer : q # p => phase'[q] = phase[q]
  BY <1>t, <1>2 DEF Phases
<1>4. /\ th' \in [Thread -> ThreadRecord]
      /\ \A u \in Thread : u # t => th'[u] = th[u]
      /\ th'[t].pc = th[t].pc /\ th'[t].self = th[t].self
      /\ th'[t].spt = th[t].spt /\ th'[t].dtor = None
  BY <1>t, <1>2 DEF ThreadRecord
<1>5. TypeOK'
  BY <1>2, <1>3, <1>4 DEF TypeOK, ThreadRecord
<1>6. ConnectionsExact'
  BY <1>2, <1>3, CountSame
<1>7. RefInv' /\ DtorInv'
  BY <1>1, <1>2, <1>3, <1>4 DEF RefInv, Held, DtorInv
<1>8. \A u \in Thread : ~Removing(u)'
  BY <1>t, <1>1, <1>2, <1>3, <1>4 DEF Removing, DtorInv, MutexInv, ThreadRecord
<1>9. MutexInv' /\ ScanInv'
  BY <1>2, <1>4, <1>8 DEF MutexInv, Visiting, ScanInv
<1>10. ThreadInv' /\ IoInv'
  BY <1>2, <1>4 DEF ThreadInv, IoInv
<1>11. ListInv'
  <2>1. \A q \in Peer :
           /\ phase'[q] = "live" <=> phase[q] = "live"
           /\ phase'[q] \in {"new", "refused"} <=> phase[q] \in {"new", "refused"}
    BY <1>2, <1>3
  <2>2. th'[Io].pc = th[Io].pc /\ th'[Io].self = th[Io].self
    BY <1>4
  <2> QED
    BY <1>l, <1>2, <2>1, <2>2 DEF ListInv, ListedOnce, Listed, Registered, Starting
<1>12. RelayInv'
  BY <1>2, <1>3, <1>4 DEF RelayInv, Visiting, MutexInv
<1> QED BY <1>5, <1>6, <1>7, <1>9, <1>10, <1>11, <1>12 DEF Inv

----------------------------------------------------------------------------
(* Theorems.                                                               *)

\* Nothing changes.
LEMMA StutterStep ==
    ASSUME Inv, UNCHANGED vars PROVE Inv'
<1> USE DEF Inv, vars
<1>1. TypeOK' /\ ConnectionsExact'
  BY CountSame DEF TypeOK
<1>2. RefInv' /\ DtorInv' /\ MutexInv' /\ ThreadInv' /\ IoInv'
  BY DEF RefInv, Held, DtorInv, MutexInv, Visiting, Removing, ThreadInv, IoInv
<1>3. ListInv' /\ ScanInv'
  BY DEF ListInv, ListedOnce, Listed, Registered, Starting, ScanInv, Removing, Lockable
<1>4. RelayInv'
  BY DEF RelayInv, Visiting, Listed, Passed
<1> QED BY <1>1, <1>2, <1>3, <1>4

\* Every step keeps the invariant.
LEMMA InvStep == Inv /\ [Next]_vars => Inv'
<1> SUFFICES ASSUME Inv, [Next]_vars PROVE Inv'
  OBVIOUS
<1>1. ASSUME NEW p \in Inbound, Accept(p) PROVE Inv'
  BY <1>1, AcceptStep
<1>2. ASSUME NEW p \in Outbound, Connect(p) PROVE Inv'
  BY <1>2, ConnectStep
<1>3. ASSUME NEW p \in Peer, PeerStep(p) PROVE Inv'
  BY <1>3, StartStep, LoseStep, ReadStep, RelayStep, AnswerStep, RearmStep, StopStep,
     ReadErrorStep, WrittenStep DEF PeerStep, Handler
<1>4. ASSUME NEW t \in Thread, CallerCast(t) \/ Cast(t) PROVE Inv'
  BY <1>4, CallerCastStep, CastLockStep, CastVisitStep, CastDropStep, CastUnlockStep
  DEF Cast
<1>5. ASSUME NEW t \in Thread, Destructor(t) PROVE Inv'
  BY <1>5, SessionEndStep, RemoveLockStep, RemoveVisitStep, RemoveUnlockStep
  DEF Destructor
<1>6. CASE Wait \/ UNCHANGED vars
  BY <1>6, StutterStep DEF Wait
<1> QED BY <1>1, <1>2, <1>3, <1>4, <1>5, <1>6 DEF Next

\* The invariant holds in every reachable state.
LEMMA Invariance == Spec => []Inv
BY InvInit, InvStep, PTL DEF Spec

\* For every set of connections and of threads, limit and number of broadcasts,
\* the registry stays well typed; the count never goes below zero.
THEOREM TypeCorrect == Spec => []TypeOK
BY Invariance, PTL DEF Inv

\* connections_ counts the open sessions exactly and stays within the limit,
\* in whatever thread a peer ends.
THEOREM CountExact == Spec => []ConnectionsExact
BY Invariance, PTL DEF Inv

\* A started peer that lives has one entry in the list and only one, through
\* every interleaving of broadcast, remove_if, accept and connect.
THEOREM OneEntry == Spec => []ListedOnce
<1>1. Inv => ListedOnce
  BY DEF Inv, ListInv
<1> QED BY <1>1, Invariance, PTL

\* A message that a read handler relays goes to every other live peer exactly
\* once, however many threads broadcast and destroy peers meanwhile.
THEOREM RelayComplete == Spec => []RelayReaches
<1>1. Inv => RelayReaches
  <2> SUFFICES ASSUME Inv, NEW t \in Thread, CastComplete(t), th[t].self # None,
                      NEW p \in Peer, phase[p] = "live"
               PROVE  got[p] = IF p \in due THEN 1 ELSE 0
    BY DEF RelayReaches, Reached
  <2> USE DEF Inv
  <2>1. t = Io
    BY Names DEF ThreadInv
  <2>2. Visiting(Io) /\ pos > Len(list)
    BY <2>1 DEF CastComplete, Running, Visiting
  <2>3. \A i \in 1 .. Len(list) : Passed(i)
    BY <2>2, ListTypes, Types DEF Passed
  <2> QED BY <2>2, <2>3 DEF RelayInv, Listed
<1> QED BY <1>1, Invariance, PTL

\* The io thread does not lock the mutex while it owns it, whatever other
\* threads do: what it destroys it destroys outside broadcast.
IoNeverWaitsForItself == th[Io].dtor # None /\ mutex = Io => Removing(Io)

\* The io thread never waits for itself on the mutex.
THEOREM IoFree == Spec => []IoNeverWaitsForItself
<1>1. Inv => IoNeverWaitsForItself
  BY Names DEF Inv, IoInv, MutexInv, Visiting, IoNeverWaitsForItself
<1> QED BY <1>1, Invariance, PTL

\* A program with only the io thread, as p2p_test.cpp, never locks itself out.
THEOREM OneThreadFree ==
    ASSUME Callers = {} PROVE Spec => []NoSelfLock
<1>1. IoNeverWaitsForItself => NoSelfLock
  BY Names DEF NoSelfLock, IoNeverWaitsForItself
<1> QED BY <1>1, IoFree, PTL

=============================================================================
