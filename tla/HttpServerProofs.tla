--------------------------- MODULE HttpServerProofs ---------------------------
(***************************************************************************)
(* The connection bookkeeping of the socket side, for any number of I/O    *)
(* threads, descriptors, slots and clients: no slot is lost or given back  *)
(* twice, and every open socket has exactly one thread that looks after    *)
(* it, although the kernel hands out a number again while the thread that  *)
(* closed it is still cleaning up.                                         *)
(*                                                                         *)
(* Both rest on one inductive invariant.  Its parts say which thread may   *)
(* be where (Roles), when a thread has a descriptor in hand and what its   *)
(* conns_ says of it then (InHand), that the descriptors a loop has still  *)
(* to visit are the thread's own (VisitsOwn), and OneKeeper itself without *)
(* counting (OneKeeps, OpenIsKept).                                        *)
(***************************************************************************)
EXTENDS HttpServer, FiniteSetTheorems, TLAPS

Accepting == {"accept", "slot", "cas", "hand"}
Carrying == {"slot", "cas", "hand", "handle", "checkIn", "idleClose"}

\* Nothing has started before listen().
NewIsOff == mainPc = "new" => active = 0 /\ \A t \in Io : ioPc[t] = "off"

\* Only the first thread watches the listen socket and accepts; a slot is only
\* tried for below the limit.
Roles(t) ==
    /\ ioPc[t] \in Accepting => t = Acceptor
    /\ ListenFd \in fds[t] => t = Acceptor /\ ioPc[t] = "select"
    /\ ioPc[t] = "cas" => expected[t] < MaxConnections

\* A thread has a descriptor in hand in some phases only; conns_ has a null entry
\* for it exactly between the check-out and the check-in.
InHand(t) ==
    /\ ioPc[t] \in Carrying => fd[t] \in Fd
    /\ ioPc[t] \notin Carrying => fd[t] = NoFd
    /\ \A f \in Fd : conns[t][f] = "null" <=> (ioPc[t] \in {"handle", "checkIn"} /\ fd[t] = f)
    /\ \A f \in Fd : fd[t] = f => conns[t][f] # "entry"

\* The descriptors that a loop has still to visit are the thread's own.
VisitsOwn(t) == \A f \in Fd : f \in fds[t] => conns[t][f] = "entry"

ThreadOK(t) == Roles(t) /\ InHand(t) /\ VisitsOwn(t)

Keeps(t, f) == conns[t][f] = "entry" \/ HasInHand(t, f)
Open(f) == sock[f] # NoClient

OneKeeps == \A f \in Fd : \A t, u \in Io : Keeps(t, f) /\ Keeps(u, f) => t = u
OpenIsKept == \A f \in Fd : Open(f) <=> \E t \in Io : Keeps(t, f)

Bookkeeping == NewIsOff /\ \A t \in Io : ThreadOK(t)
Keeping == OneKeeps /\ OpenIsKept

HttpInv == HttpTypeOK /\ Bookkeeping /\ Keeping /\ SlotAccounting

-----------------------------------------------------------------------------
(* Facts about the constants and about the kernel's choice of a number.    *)

LEMMA FdNumbers == ListenFd \notin Fd /\ NoFd \notin Fd /\ NoClient \notin Client
BY FdAssumption DEF ListenFd, NoFd, NoClient, Client

LEMMA IoThreads == Acceptor \in Io /\ IsFiniteSet(Io) /\ \A t \in Io : (t + 1) % IoCount \in Io
<1>1. Acceptor \in Io /\ \A t \in Io : (t + 1) % IoCount \in Io
  BY IoCountAssumption DEF Io, Acceptor
<1>2. IsFiniteSet(Io)
  BY IoCountAssumption, FS_Interval DEF Io
<1>3. QED BY <1>1, <1>2

\* The lowest free descriptor is a free descriptor.
LEMMA LowestFree == ASSUME NEW S \in SUBSET Nat, S # {} PROVE Min(S) \in S
<1>1. IsWellFoundedOn(OpToRel(<, Nat), Nat)
  BY NatLessThanWellFounded
<1> DEFINE R == {p \in Nat \X Nat : p[1] < p[2]}
<1>2. OpToRel(<, Nat) = R
  BY DEF OpToRel
<1>3. IsWellFoundedOn(R, Nat)
  BY <1>1, <1>2
<1> HIDE DEF R
<1>4. PICK x \in S : \A y \in S : ~(<<y, x>> \in R)
  BY <1>3, WFMin
<1>5. ASSUME NEW y \in S PROVE x =< y
  <2>1. ~(y < x)
    BY <1>4 DEF R
  <2>2. QED BY <2>1
<1>6. QED BY <1>5 DEF Min

-----------------------------------------------------------------------------
(* How a step changes who keeps what.                                      *)

\* A step that moves a descriptor between a thread's conns_ and its hand.
LEMMA KeepersSame ==
    ASSUME Keeping,
           \A t \in Io, f \in Fd : Keeps(t, f)' <=> Keeps(t, f),
           \A f \in Fd : Open(f)' <=> Open(f)
    PROVE  Keeping'
BY DEF Keeping, OneKeeps, OpenIsKept

\* accept(): a socket that nobody kept gets a keeper.
LEMMA KeeperGained ==
    ASSUME Keeping, NEW t \in Io, NEW f \in Fd, ~Open(f),
           \A u \in Io, g \in Fd : Keeps(u, g)' <=> (Keeps(u, g) \/ (u = t /\ g = f)),
           \A g \in Fd : Open(g)' <=> (Open(g) \/ g = f)
    PROVE  Keeping'
BY DEF Keeping, OneKeeps, OpenIsKept

\* close(): its keeper goes with the socket.
LEMMA KeeperLost ==
    ASSUME Keeping, NEW t \in Io, NEW f \in Fd, Keeps(t, f),
           \A u \in Io, g \in Fd : Keeps(u, g)' <=> (Keeps(u, g) /\ ~(u = t /\ g = f)),
           \A g \in Fd : Open(g)' <=> (Open(g) /\ g # f)
    PROVE  Keeping'
BY DEF Keeping, OneKeeps, OpenIsKept

\* adopt(): the socket passes from one keeper to another.
LEMMA KeeperPassed ==
    ASSUME Keeping, NEW t \in Io, NEW v \in Io, NEW f \in Fd, Keeps(t, f),
           \A u \in Io, g \in Fd : Keeps(u, g)' <=> IF g = f THEN u = v ELSE Keeps(u, g),
           \A g \in Fd : Open(g)' <=> Open(g)
    PROVE  Keeping'
BY DEF Keeping, OneKeeps, OpenIsKept

-----------------------------------------------------------------------------
(* Slots.                                                                  *)

LEMMA SlotSetsFinite ==
    /\ IsFiniteSet(Unslotted) /\ IsFiniteSet(Releasing) /\ IsFiniteSet(OpenFds)
    /\ Cardinality(Unslotted) \in Nat /\ Cardinality(Releasing) \in Nat
    /\ Cardinality(OpenFds) \in Nat
<1>1. Unslotted \subseteq Io /\ Releasing \subseteq Io /\ OpenFds \subseteq Fd
  BY DEF Unslotted, Releasing, OpenFds
<1>2. IsFiniteSet(Unslotted) /\ IsFiniteSet(Releasing) /\ IsFiniteSet(OpenFds)
  BY <1>1, IoThreads, FdAssumption, FS_Subset
<1>3. QED BY <1>2, FS_CardinalityType

\* What entering or leaving a set does to its size.
LEMMA SizeAfterMove ==
    ASSUME NEW S, IsFiniteSet(S), NEW x
    PROVE  /\ x \notin S => Cardinality(S \cup {x}) = Cardinality(S) + 1
           /\ x \in S => Cardinality(S \ {x}) = Cardinality(S) - 1
BY FS_AddElement, FS_RemoveElement

\* A slot that is being released is counted: the count cannot fall below zero.
LEMMA ReleaseIsCounted ==
    ASSUME HttpTypeOK, Bookkeeping, Keeping, SlotAccounting, NEW t \in Releasing
    PROVE  active > 0
<1>1. Cardinality(Releasing) > 0
  BY SlotSetsFinite, FS_EmptySet
<1>2. Cardinality(Unslotted) =< Cardinality(OpenFds)
  <2>1. CASE Unslotted = {}
    BY <2>1, SlotSetsFinite, FS_EmptySet
  <2>2. CASE Unslotted # {}
    <3>1. Unslotted = {Acceptor}
      BY <2>2 DEF Unslotted, Bookkeeping, ThreadOK, Roles, Accepting
    <3>2. Acceptor \in Io /\ ioPc[Acceptor] \in {"slot", "cas"}
      BY <3>1 DEF Unslotted
    <3>3. fd[Acceptor] \in Fd /\ Keeps(Acceptor, fd[Acceptor])
      BY <3>2 DEF Bookkeeping, ThreadOK, InHand, Carrying, Keeps, HasInHand, HoldsMutex
    <3>4. fd[Acceptor] \in OpenFds
      BY <3>2, <3>3 DEF Keeping, OpenIsKept, Open, OpenFds
    <3>5. Cardinality(Unslotted) = 1 /\ Cardinality(OpenFds) # 0
      BY <3>1, <3>4, SlotSetsFinite, FS_EmptySet, FS_Singleton
    <3>6. QED BY <3>5, SlotSetsFinite
  <2>3. QED BY <2>1, <2>2
<1>3. QED BY <1>1, <1>2, SlotSetsFinite DEF SlotAccounting, HttpTypeOK

\* A step of one of the paths that changes the count, a socket, or who is between
\* the two, as the numbers see it.
LEMMA SlotsSame ==
    ASSUME SlotAccounting, active' = active,
           Unslotted' = Unslotted, Releasing' = Releasing, OpenFds' = OpenFds
    PROVE  SlotAccounting'
BY DEF SlotAccounting
-----------------------------------------------------------------------------
(* The types, in four parts.                                               *)

FlagTypes ==
    alive \in BOOLEAN /\ listening \in BOOLEAN /\ acceptFd \in BOOLEAN /\ running \in [Io -> BOOLEAN]

KernelTypes ==
    /\ mainPc \in {"new", "wire", "up", "stop", "join", "joined"}
    /\ backlog \in Seq(Client)
    /\ sock \in [Fd -> Client \cup {NoClient}]
    /\ input \in [Client -> Input]
    /\ arrived \in 0 .. MaxClients /\ chunks \in 0 .. MaxChunks

CountTypes ==
    active \in 0 .. MaxConnections /\ nextIo \in Io /\ expected \in [Io -> 0 .. MaxConnections]

PlaceTypes ==
    /\ conns \in [Io -> [Fd -> {"none", "null", "entry"}]]
    /\ ioPc \in [Io -> IoAt]
    /\ fds \in [Io -> SUBSET (Fd \cup {ListenFd})]
    /\ fd \in [Io -> Fd \cup {NoFd}]

LEMMA TypesSplit == HttpTypeOK <=> FlagTypes /\ KernelTypes /\ CountTypes /\ PlaceTypes
BY DEF HttpTypeOK, FlagTypes, KernelTypes, CountTypes, PlaceTypes

LEMMA FlagTypesStep == HttpTypeOK /\ HttpNext => FlagTypes'
<1> SUFFICES ASSUME FlagTypes, HttpNext PROVE FlagTypes'
  BY TypesSplit
<1>1. CASE UNCHANGED <<alive, listening, acceptFd, running>>
  BY <1>1, Zenon DEF FlagTypes
<1>2. CASE listen \/ setListenFd \/ stop
  BY <1>2, Zenon DEF listen, setListenFd, stop, FlagTypes, kernel
<1>3. CASE StopThread
  BY <1>3 DEF StopThread, FlagTypes, kernel
<1>4. ASSUME NEW t \in Io, handleRead(t) PROVE FlagTypes'
  <2>1. UNCHANGED <<listening, acceptFd, running>> /\ (alive' = alive \/ alive' = FALSE)
    BY <1>4 DEF handleRead, onClientRequest
  <2>2. QED BY <2>1, Zenon DEF FlagTypes
<1>5. ASSUME NEW t \in Io, IoStep(t), ~handleRead(t) PROVE UNCHANGED <<alive, listening, acceptFd, running>>
  BY <1>5 DEF IoStep, Watch, select, accept, LoadCount, TakeSlot, adopt, CheckOut, CheckInClosed,
              ScanIdle, EvictIdle, CloseIdle, ReleaseIdle, control, kernel
<1>6. CASE connect \/ join
  BY <1>1, <1>6 DEF connect, join, control, kernel
<1>7. ASSUME NEW f \in Fd, NEW chunk, HangUp(f) \/ SendChunk(f, chunk) PROVE FlagTypes'
  BY <1>1, <1>7 DEF HangUp, SendChunk, control, kernel
<1>8. QED
  BY <1>1, <1>2, <1>3, <1>4, <1>5, <1>6, <1>7 DEF HttpNext, Main

LEMMA KernelTypesStep == HttpTypeOK /\ HttpNext => KernelTypes'
<1> SUFFICES ASSUME KernelTypes, HttpNext PROVE KernelTypes'
  BY TypesSplit
<1> USE DEF KernelTypes
<1>1. CASE Main \/ stop
  <2>1. /\ mainPc' \in {"new", "wire", "up", "stop", "join", "joined"}
        /\ UNCHANGED <<sock, input, arrived, chunks>>
        /\ backlog' = backlog \/ backlog' = <<>>
    BY <1>1 DEF Main, listen, setListenFd, stop, StopThread, join, kernel
  <2>2. CASE backlog' = backlog
    BY <2>1, <2>2
  <2>3. CASE backlog' = <<>>
    BY <2>1, <2>3
  <2>4. QED BY <2>1, <2>2, <2>3
<1>2. ASSUME NEW t \in Io, accept(t) PROVE KernelTypes'
  <2>1. CASE running[t] /\ backlog # <<>> /\ Fd # OpenFds
    <3>1. Head(backlog) \in Client /\ Tail(backlog) \in Seq(Client)
      BY <2>1
    <3>2. QED BY <1>2, <2>1, <3>1 DEF accept, control
  <2>2. CASE ~(running[t] /\ backlog # <<>> /\ Fd # OpenFds)
    BY <1>2, <2>2 DEF accept, control
  <2>3. QED BY <2>1, <2>2
<1>3. ASSUME NEW t \in Io, LoadCount(t) \/ TakeSlot(t) \/ handleRead(t) \/ CloseIdle(t)
      PROVE  KernelTypes'
  <2>1. /\ UNCHANGED <<mainPc, backlog, arrived, chunks>>
        /\ sock' = sock \/ sock' = [sock EXCEPT ![fd[t]] = NoClient]
        /\ input' = input \/ input' = [input EXCEPT ![sock[fd[t]]] = "nothing"]
    BY <1>3 DEF LoadCount, TakeSlot, handleRead, CloseIdle, Refuse, CloseSocket, control
  <2>2. QED BY <2>1 DEF Input
<1>4. ASSUME NEW t \in Io, IoStep(t), ~accept(t),
             ~(LoadCount(t) \/ TakeSlot(t) \/ handleRead(t) \/ CloseIdle(t))
      PROVE  KernelTypes'
  BY <1>4 DEF IoStep, Watch, select, adopt, CheckOut, CheckInClosed,
              ScanIdle, EvictIdle, ReleaseIdle, control, kernel
<1>5. CASE connect
  BY <1>5, BoundAssumption DEF connect, Client, control
<1>6. ASSUME NEW f \in Fd, HangUp(f) PROVE KernelTypes'
  BY <1>6 DEF HangUp, Input, control
<1>7. ASSUME NEW f \in Fd, NEW chunk \in Chunk, SendChunk(f, chunk) PROVE KernelTypes'
  <2>1. UNCHANGED <<mainPc, backlog, sock, arrived>> /\ chunks' = chunks + 1 /\ chunks < MaxChunks
    BY <1>7 DEF SendChunk, control
  <2>2. chunks' \in 0 .. MaxChunks
    BY <2>1, BoundAssumption
  <2>3. input' \in [Client -> Input]
    BY <1>7 DEF SendChunk, Input
  <2>4. QED BY <2>1, <2>2, <2>3
<1>8. QED
  BY <1>1, <1>2, <1>3, <1>4, <1>5, <1>6, <1>7 DEF HttpNext

LEMMA CountTypesStep == HttpInv /\ HttpNext => CountTypes'
<1> SUFFICES ASSUME HttpInv, HttpNext PROVE CountTypes'
  OBVIOUS
<1>0. HttpTypeOK /\ CountTypes /\ Bookkeeping /\ Keeping /\ SlotAccounting
  BY TypesSplit DEF HttpInv
<1> USE <1>0 DEF CountTypes, local, ForgetCount
<1>1. CASE UNCHANGED <<active, nextIo, expected>>
  BY <1>1
<1>2. CASE listen
  BY <1>2, MaxConnectionsAssumption DEF listen
<1>3. ASSUME NEW t \in Io, LoadCount(t) PROVE CountTypes'
  BY <1>3, MaxConnectionsAssumption DEF LoadCount, Refuse
<1>4. ASSUME NEW t \in Io, TakeSlot(t) PROVE CountTypes'
  <2>1. active = expected[t] => active + 1 \in 0 .. MaxConnections
    BY <1>4, MaxConnectionsAssumption DEF TakeSlot, Bookkeeping, ThreadOK, Roles
  <2>2. 0 \in 0 .. MaxConnections /\ UNCHANGED nextIo
    BY <1>4, MaxConnectionsAssumption DEF TakeSlot
  <2>3. active' \in 0 .. MaxConnections
    BY <1>4, <2>1 DEF TakeSlot
  <2>4. expected' \in [Io -> 0 .. MaxConnections]
    BY <1>4, <2>2 DEF TakeSlot, Refuse
  <2>5. QED BY <2>2, <2>3, <2>4
<1>5. ASSUME NEW t \in Io, adopt(t) PROVE CountTypes'
  BY <1>5, IoThreads DEF adopt
<1>6. ASSUME NEW t \in Io, CheckInClosed(t) \/ ReleaseIdle(t) PROVE CountTypes'
  <2>1. t \in Releasing
    BY <1>6 DEF CheckInClosed, ReleaseIdle, Releasing
  <2>2. active - 1 \in 0 .. MaxConnections
    BY <2>1, ReleaseIsCounted, MaxConnectionsAssumption
  <2>3. active' = active - 1 /\ UNCHANGED <<nextIo, expected>>
    BY <1>6 DEF CheckInClosed, ReleaseIdle
  <2>4. QED BY <2>2, <2>3
<1>7. CASE setListenFd \/ stop \/ StopThread \/ join \/ connect
  BY <1>1, <1>7 DEF setListenFd, stop, StopThread, join, connect
<1>8. ASSUME NEW t \in Io, \/ Watch(t) \/ select(t) \/ accept(t) \/ CheckOut(t) \/ handleRead(t)
                           \/ ScanIdle(t) \/ EvictIdle(t) \/ CloseIdle(t)
      PROVE  CountTypes'
  BY <1>1, <1>8 DEF Watch, select, accept, CheckOut, handleRead, ScanIdle, EvictIdle, CloseIdle
<1>9. ASSUME NEW f \in Fd, NEW chunk, HangUp(f) \/ SendChunk(f, chunk) PROVE CountTypes'
  BY <1>1, <1>9 DEF HangUp, SendChunk
<1>10. QED
  BY <1>2, <1>3, <1>4, <1>5, <1>6, <1>7, <1>8, <1>9 DEF HttpNext, Main, IoStep

LEMMA PlaceTypesStep == HttpTypeOK /\ Bookkeeping /\ HttpNext => PlaceTypes'
<1> SUFFICES ASSUME PlaceTypes, CountTypes, Bookkeeping, HttpNext PROVE PlaceTypes'
  BY TypesSplit
<1> USE DEF PlaceTypes, local, Goto, SetConn, ForgetFd
<1>0. /\ "select" \in IoAt /\ "accept" \in IoAt /\ "slot" \in IoAt /\ "cas" \in IoAt
      /\ "hand" \in IoAt /\ "reads" \in IoAt /\ "handle" \in IoAt /\ "checkIn" \in IoAt
      /\ "idle" \in IoAt /\ "idleClose" \in IoAt /\ "idleRelease" \in IoAt /\ "exited" \in IoAt
  BY DEF IoAt
<1>1. CASE Main \/ stop
  <2>1. CASE listen
    BY <1>0, <2>1 DEF listen
  <2>2. CASE setListenFd \/ StopThread \/ join \/ stop
    BY <2>2 DEF setListenFd, stop, StopThread, join
  <2>3. QED BY <1>1, <2>1, <2>2 DEF Main
<1>2. ASSUME NEW t \in Io, Watch(t) PROVE PlaceTypes'
  <2>1. CASE Goto(t, "exited") /\ UNCHANGED fds
    BY <1>0, <1>2, <2>1 DEF Watch
  <2>2. ASSUME NEW own \in SUBSET (Fd \cup {ListenFd}),
               Goto(t, "select"), fds' = [fds EXCEPT ![t] = own]
        PROVE  PlaceTypes'
    BY <1>0, <1>2, <2>2 DEF Watch
  <2>3. Owned(t) \cup (IF t = Acceptor /\ acceptFd THEN {ListenFd} ELSE {})
           \in SUBSET (Fd \cup {ListenFd})
    BY DEF Owned
  <2>4. QED BY <1>2, <2>1, <2>2, <2>3 DEF Watch
<1>3. ASSUME NEW t \in Io, select(t) PROVE PlaceTypes'
  BY <1>0, <1>3 DEF select
<1>4. ASSUME NEW t \in Io, ScanIdle(t) PROVE PlaceTypes'
  BY <1>0, <1>4 DEF ScanIdle, Owned
<1>5. ASSUME NEW t \in Io, accept(t) PROVE PlaceTypes'
  <2>1. CASE running[t] /\ backlog # <<>> /\ Fd # OpenFds
    <3>1. Fd \ OpenFds # {} /\ Fd \ OpenFds \in SUBSET Nat
      BY <2>1, FdAssumption DEF OpenFds
    <3>2. Min(Fd \ OpenFds) \in Fd
      BY <3>1, LowestFree
    <3>3. QED BY <1>0, <1>5, <2>1, <3>2 DEF accept
  <2>2. CASE ~(running[t] /\ backlog # <<>> /\ Fd # OpenFds)
    BY <1>0, <1>5, <2>2 DEF accept
  <2>3. QED BY <2>1, <2>2
<1>6. ASSUME NEW t \in Io, LoadCount(t) \/ TakeSlot(t) PROVE PlaceTypes'
  <2>1. UNCHANGED <<conns, fds>>
    BY <1>6 DEF LoadCount, TakeSlot
  <2>2. CASE Refuse(t)
    BY <1>0, <2>1, <2>2 DEF Refuse
  <2>3. CASE UNCHANGED fd /\ Goto(t, "cas")
    BY <1>0, <2>1, <2>3
  <2>4. CASE UNCHANGED fd /\ Goto(t, "hand")
    BY <1>0, <2>1, <2>4
  <2>5. CASE UNCHANGED <<fd, ioPc>>
    BY <2>1, <2>5
  <2>6. QED BY <1>6, <2>2, <2>3, <2>4, <2>5 DEF LoadCount, TakeSlot
<1>7. ASSUME NEW t \in Io, adopt(t) PROVE PlaceTypes'
  BY <1>0, <1>7 DEF adopt, CountTypes
<1>8. ASSUME NEW t \in Io, CheckOut(t) PROVE PlaceTypes'
  <2>1. PICK f \in fds[t] :
           /\ fds' = [fds EXCEPT ![t] = @ \ {f}]
           /\ IF conns[t][f] = "none" THEN UNCHANGED <<conns, ioPc, fd>>
              ELSE SetConn(t, f, "null") /\ fd' = [fd EXCEPT ![t] = f] /\ Goto(t, "handle")
    BY <1>8 DEF CheckOut
  <2>2. f \in Fd
    BY <1>8 DEF CheckOut, Bookkeeping, ThreadOK, Roles
  <2>3. CASE conns[t][f] = "none"
    BY <2>1, <2>3
  <2>4. CASE conns[t][f] # "none"
    <3>1. /\ fds' = [fds EXCEPT ![t] = @ \ {f}] /\ ioPc' = [ioPc EXCEPT ![t] = "handle"]
          /\ conns' = [conns EXCEPT ![t][f] = "null"] /\ fd' = [fd EXCEPT ![t] = f]
      BY <2>1, <2>4
    <3>2. QED BY <1>0, <2>2, <3>1
  <2>5. QED BY <2>3, <2>4
<1>9. ASSUME NEW t \in Io, EvictIdle(t) PROVE PlaceTypes'
  <2>1. \A f \in fds[t] : f \in Fd
    BY <1>9 DEF EvictIdle, Bookkeeping, ThreadOK, Roles
  <2>2. QED BY <1>0, <1>9, <2>1 DEF EvictIdle
<1>10. ASSUME NEW t \in Io, handleRead(t) PROVE PlaceTypes'
  <2>1. CASE input[sock[fd[t]]] \in {"fin", "huge"}
    BY <1>0, <1>10, <2>1 DEF handleRead
  <2>2. CASE input[sock[fd[t]]] \notin {"fin", "huge"}
    <3>1. /\ conns' = [conns EXCEPT ![t][fd[t]] = "entry"] /\ fd' = [fd EXCEPT ![t] = NoFd]
          /\ ioPc' = [ioPc EXCEPT ![t] = "reads"] /\ fds' = fds
      BY <1>10, <2>2 DEF handleRead
    <3>2. conns' \in [Io -> [Fd -> {"none", "null", "entry"}]]
      BY <3>1
    <3>3. QED BY <1>0, <3>1, <3>2
  <2>3. QED BY <2>1, <2>2
<1>11. ASSUME NEW t \in Io, CheckInClosed(t) PROVE PlaceTypes'
  BY <1>0, <1>11 DEF CheckInClosed
<1>12. ASSUME NEW t \in Io, CloseIdle(t) \/ ReleaseIdle(t) PROVE PlaceTypes'
  BY <1>0, <1>12 DEF CloseIdle, ReleaseIdle
<1>13. ASSUME connect \/ \E f \in Fd : HangUp(f) \/ \E chunk \in Chunk : SendChunk(f, chunk)
       PROVE  PlaceTypes'
  BY <1>13 DEF connect, HangUp, SendChunk
<1>14. QED
  BY <1>1, <1>2, <1>3, <1>4, <1>5, <1>6, <1>7, <1>8, <1>9, <1>10, <1>11, <1>12, <1>13
     DEF HttpNext, IoStep

LEMMA TypesStep == HttpInv /\ HttpNext => HttpTypeOK'
<1>1. HttpInv => HttpTypeOK /\ Bookkeeping
  BY DEF HttpInv
<1>2. (FlagTypes /\ KernelTypes /\ CountTypes /\ PlaceTypes)' => HttpTypeOK'
  BY DEF HttpTypeOK, FlagTypes, KernelTypes, CountTypes, PlaceTypes
<1>3. QED BY <1>1, <1>2, FlagTypesStep, KernelTypesStep, CountTypesStep, PlaceTypesStep
-----------------------------------------------------------------------------
(* Who is where, with which descriptor.                                    *)

\* A step of one thread leaves the others' bookkeeping alone.
LEMMA OtherThreads ==
    ASSUME Bookkeeping, NEW t \in Io, mainPc' # "new", ThreadOK(t)',
           \A u \in Io \ {t} : /\ ioPc'[u] = ioPc[u] /\ fds'[u] = fds[u] /\ fd'[u] = fd[u]
                               /\ conns'[u] = conns[u] /\ expected'[u] = expected[u]
    PROVE  Bookkeeping'
<1>1. ASSUME NEW u \in Io \ {t} PROVE ThreadOK(u)'
  BY DEF Bookkeeping, ThreadOK, Roles, InHand, VisitsOwn
<1>2. QED BY <1>1 DEF Bookkeeping, NewIsOff

LEMMA BookkeepingStep == HttpInv /\ HttpNext => Bookkeeping'
<1> SUFFICES ASSUME HttpInv, HttpNext PROVE Bookkeeping'
  OBVIOUS
<1>0. PlaceTypes /\ CountTypes /\ Bookkeeping /\ Keeping
  BY TypesSplit DEF HttpInv
<1> USE DEF PlaceTypes, local, Goto, SetConn, ForgetFd, ForgetCount
<1> USE DEF Accepting, Carrying
<1>1. CASE listen
  <2>1. \A t \in Io : ioPc[t] = "off" /\ ioPc'[t] = "idle"
    BY <1>0, <1>1 DEF listen, Bookkeeping, NewIsOff
  <2>2. mainPc' # "new" /\ UNCHANGED <<conns, fds, fd, expected>>
    BY <1>1 DEF listen
  <2>3. ASSUME NEW t \in Io PROVE ThreadOK(t)'
    BY <1>0, <2>1, <2>2 DEF Bookkeeping, ThreadOK, Roles, InHand, VisitsOwn
  <2>4. QED BY <2>2, <2>3 DEF Bookkeeping, NewIsOff
<1>2. CASE UNCHANGED <<conns, fds, fd, expected, ioPc, active>> /\ (mainPc' = "new" => mainPc = "new")
  BY <1>0, <1>2 DEF Bookkeeping, NewIsOff, ThreadOK, Roles, InHand, VisitsOwn
<1>3. CASE setListenFd \/ stop \/ StopThread \/ join \/ connect
  BY <1>2, <1>3 DEF setListenFd, stop, StopThread, join, connect, control
<1>4. ASSUME NEW f \in Fd, NEW chunk, HangUp(f) \/ SendChunk(f, chunk) PROVE Bookkeeping'
  BY <1>2, <1>4 DEF HangUp, SendChunk, control
<1>5. ASSUME NEW t \in Io, IoStep(t) PROVE Bookkeeping'
  <2>0. ThreadOK(t) /\ (ioPc[t] # "off" => mainPc # "new")
    BY <1>0 DEF Bookkeeping, NewIsOff
  <2>a. ListenFd \notin Fd /\ NoFd \notin Fd
    BY FdNumbers
  <2> USE DEF ThreadOK, Roles, InHand, VisitsOwn
  <2>1. CASE Watch(t)
    <3>1. /\ mainPc' = mainPc /\ ioPc[t] # "off" /\ fd' = fd /\ conns' = conns /\ expected' = expected
          /\ ioPc'[t] \in {"exited", "select"}
          /\ \A u \in Io \ {t} : ioPc'[u] = ioPc[u] /\ fds'[u] = fds[u]
          /\ ListenFd \in fds'[t] => t = Acceptor /\ ioPc'[t] = "select"
          /\ \A f \in Fd : f \in fds'[t] => conns[t][f] = "entry"
          /\ ioPc[t] = "idle"
      BY <1>0, <2>0, <2>1, <2>a DEF Watch, Owned, control
    <3>2. ThreadOK(t)'
      BY <2>0, <3>1
    <3>3. QED BY <1>0, <2>0, <3>1, <3>2, OtherThreads
  <2>2. CASE select(t)
    <3>1. /\ mainPc' = mainPc /\ ioPc[t] = "select" /\ fd' = fd /\ conns' = conns /\ expected' = expected
          /\ ioPc'[t] \in {"accept", "reads"}
          /\ ioPc'[t] = "accept" => t = Acceptor
          /\ \A u \in Io \ {t} : ioPc'[u] = ioPc[u] /\ fds'[u] = fds[u]
          /\ fds'[t] \subseteq fds[t] \ {ListenFd}
      BY <1>0, <2>0, <2>2 DEF select, control
    <3>2. ThreadOK(t)'
      BY <2>0, <3>1
    <3>3. QED BY <1>0, <2>0, <3>1, <3>2, OtherThreads
  <2>3. CASE accept(t)
    <3>1. CASE Goto(t, "reads") /\ UNCHANGED <<sock, backlog, fd>>
      <4>1. ThreadOK(t)'
        BY <1>0, <2>0, <2>3, <3>1 DEF accept
      <4>2. QED BY <1>0, <2>0, <2>3, <3>1, <4>1, OtherThreads DEF accept, control
    <3>2. CASE ~(Goto(t, "reads") /\ UNCHANGED <<sock, backlog, fd>>)
      <4> DEFINE f == Min(Fd \ OpenFds)
      <4>1. /\ ioPc' = [ioPc EXCEPT ![t] = "slot"] /\ fd' = [fd EXCEPT ![t] = f]
            /\ Fd # OpenFds /\ UNCHANGED <<mainPc, conns, fds, expected>> /\ ioPc[t] = "accept"
        BY <2>3, <3>2 DEF accept, control
      <4>2. f \in Fd \ OpenFds
        <5>1. Fd \ OpenFds # {} /\ Fd \ OpenFds \in SUBSET Nat
          BY <4>1, FdAssumption DEF OpenFds
        <5>2. QED BY <5>1, LowestFree
      <4> HIDE DEF f
      <4>3. conns[t][f] # "entry"
        BY <1>0, <4>2 DEF Keeping, OpenIsKept, Open, OpenFds, Keeps
      <4>4. ThreadOK(t)'
        BY <1>0, <2>0, <4>1, <4>2, <4>3
      <4>5. QED BY <1>0, <2>0, <4>1, <4>4, OtherThreads
    <3>3. QED BY <3>1, <3>2
  <2>4. CASE LoadCount(t) \/ TakeSlot(t)
    <3>1. /\ UNCHANGED <<mainPc, conns, fds>> /\ ioPc[t] \in {"slot", "cas"}
          /\ \A u \in Io \ {t} : ioPc'[u] = ioPc[u] /\ fd'[u] = fd[u] /\ expected'[u] = expected[u]
      BY <1>0, <2>4 DEF LoadCount, TakeSlot, Refuse, CountTypes, control
    <3>2. \/ ioPc'[t] = "cas" /\ fd' = fd /\ expected'[t] < MaxConnections
          \/ ioPc'[t] = "hand" /\ fd' = fd
          \/ ioPc'[t] = "accept" /\ fd'[t] = NoFd
      BY <1>0, <2>4 DEF LoadCount, TakeSlot, Refuse, CountTypes
    <3>3. ThreadOK(t)'
      BY <2>0, <2>a, <3>1, <3>2
    <3>4. QED BY <1>0, <2>0, <3>1, <3>3, OtherThreads
  <2>5. CASE adopt(t)
    <3> DEFINE f == fd[t]
               n == nextIo
    <3>1. /\ t = Acceptor /\ f \in Fd /\ n \in Io /\ ioPc[n] # "checkIn"
          /\ ioPc' = [ioPc EXCEPT ![t] = "accept"] /\ fd' = [fd EXCEPT ![t] = NoFd]
          /\ conns' = [conns EXCEPT ![n][f] = "entry"] /\ UNCHANGED <<mainPc, fds, expected>>
          /\ ioPc[t] = "hand"
      BY <1>0, <2>0, <2>5 DEF adopt, HoldsMutex, CountTypes, control
    <3>2. Keeps(t, f)
      BY <3>1 DEF Keeps, HasInHand, HoldsMutex
    <3>3. ASSUME NEW u \in Io, u # t PROVE fd[u] = f => ioPc[u] = "checkIn"
      BY <1>0, <3>1, <3>2, <3>3 DEF Keeping, OneKeeps, Keeps, HasInHand, HoldsMutex
    <3> HIDE DEF f, n
    <3>4. ASSUME NEW u \in Io, u # t PROVE ThreadOK(u)'
      <4>1. ThreadOK(u)
        BY <1>0 DEF Bookkeeping
      <4>2. ioPc'[u] = ioPc[u] /\ fds'[u] = fds[u] /\ fd'[u] = fd[u] /\ expected'[u] = expected[u]
        BY <1>0, <3>1, <3>4
      <4>3. CASE u # n
        <5>1. conns'[u] = conns[u]
          BY <1>0, <3>1, <4>3
        <5>2. QED BY <4>1, <4>2, <5>1
      <4>4. CASE u = n
        <5>1. /\ \A g \in Fd \ {f} : conns'[u][g] = conns[u][g]
              /\ conns'[u][f] = "entry" /\ fd[u] # f
          BY <1>0, <3>1, <3>3, <3>4, <4>4
        <5>2. QED BY <3>1, <4>1, <4>2, <5>1
      <4>5. QED BY <4>3, <4>4
    <3>5. ThreadOK(t)'
      <4>1. ioPc'[t] = "accept" /\ fds'[t] = fds[t] /\ fd'[t] = NoFd /\ expected'[t] = expected[t]
        BY <1>0, <3>1
      <4>2. \A g \in Fd : conns'[t][g] = conns[t][g] \/ (g = f /\ conns'[t][g] = "entry")
        BY <1>0, <3>1
      <4>3. QED BY <2>0, <2>a, <3>1, <4>1, <4>2
    <3>6. QED BY <2>0, <3>1, <3>4, <3>5 DEF Bookkeeping, NewIsOff
  <2>6. CASE CheckOut(t)
    <3>1. PICK f \in fds[t] :
             /\ fds' = [fds EXCEPT ![t] = @ \ {f}]
             /\ IF conns[t][f] = "none" THEN UNCHANGED <<conns, ioPc, fd>>
                ELSE SetConn(t, f, "null") /\ fd' = [fd EXCEPT ![t] = f] /\ Goto(t, "handle")
      BY <2>6 DEF CheckOut
    <3>2. f \in Fd /\ ioPc[t] = "reads" /\ UNCHANGED <<mainPc, expected>> /\ conns[t][f] = "entry"
      BY <1>0, <2>0, <2>6, <3>1 DEF CheckOut, control
    <3>3. /\ fds' = [fds EXCEPT ![t] = @ \ {f}] /\ ioPc' = [ioPc EXCEPT ![t] = "handle"]
          /\ conns' = [conns EXCEPT ![t][f] = "null"] /\ fd' = [fd EXCEPT ![t] = f]
      BY <3>1, <3>2
    <3>4. /\ ioPc'[t] = "handle" /\ fds'[t] = fds[t] \ {f} /\ fd'[t] = f /\ expected'[t] = expected[t]
          /\ \A g \in Fd : conns'[t][g] = IF g = f THEN "null" ELSE conns[t][g]
      BY <1>0, <3>2, <3>3
    <3>5. ThreadOK(t)'
      BY <2>0, <2>a, <3>2, <3>4
    <3>6. QED BY <1>0, <2>0, <3>2, <3>3, <3>5, OtherThreads
  <2>7. CASE handleRead(t)
    <3> DEFINE f == fd[t]
    <3>1. /\ ioPc[t] = "handle" /\ f \in Fd /\ UNCHANGED <<mainPc, fds, expected>>
      BY <2>0, <2>7 DEF handleRead
    <3>2. CASE Goto(t, "checkIn") /\ UNCHANGED <<conns, fd>>
      <4>1. ThreadOK(t)'
        BY <1>0, <2>0, <3>1, <3>2
      <4>2. QED BY <1>0, <2>0, <3>1, <3>2, <4>1, OtherThreads
    <3>3. CASE SetConn(t, f, "entry") /\ ForgetFd(t) /\ Goto(t, "reads")
      <4>1. /\ ioPc'[t] = "reads" /\ fd'[t] = NoFd
            /\ \A g \in Fd : conns'[t][g] = IF g = f THEN "entry" ELSE conns[t][g]
        BY <1>0, <3>1, <3>3
      <4>2. ThreadOK(t)'
        BY <2>0, <2>a, <3>1, <4>1
      <4>3. QED BY <1>0, <2>0, <3>1, <3>3, <4>2, OtherThreads
    <3>4. QED BY <2>7, <3>2, <3>3 DEF handleRead
  <2>8. CASE CheckInClosed(t)
    <3> DEFINE f == fd[t]
    <3>1. /\ ioPc[t] = "checkIn" /\ f \in Fd /\ UNCHANGED <<mainPc, fds, expected>>
          /\ ioPc' = [ioPc EXCEPT ![t] = "reads"] /\ fd' = [fd EXCEPT ![t] = NoFd]
          /\ conns' = [conns EXCEPT ![t][f] = "none"]
      BY <2>0, <2>8 DEF CheckInClosed, control
    <3>2. /\ ioPc'[t] = "reads" /\ fd'[t] = NoFd
          /\ \A g \in Fd : conns'[t][g] = IF g = f THEN "none" ELSE conns[t][g]
      BY <1>0, <3>1
    <3>3. ThreadOK(t)'
      BY <2>0, <2>a, <3>1, <3>2
    <3>4. QED BY <1>0, <2>0, <3>1, <3>3, OtherThreads
  <2>9. CASE ScanIdle(t)
    <3>1. /\ ioPc[t] = "reads" /\ UNCHANGED <<mainPc, fd, conns, expected>>
          /\ ioPc' = [ioPc EXCEPT ![t] = "idle"]
          /\ \E late \in SUBSET Owned(t) : fds' = [fds EXCEPT ![t] = late]
      BY <2>9 DEF ScanIdle, control
    <3>2. fds'[t] \subseteq Owned(t) /\ ioPc'[t] = "idle" /\ \A u \in Io \ {t} : fds'[u] = fds[u]
      BY <1>0, <3>1
    <3>3. ThreadOK(t)'
      BY <2>0, <2>a, <3>1, <3>2 DEF Owned
    <3>4. QED BY <1>0, <2>0, <3>1, <3>2, <3>3, OtherThreads
  <2>10. CASE EvictIdle(t)
    <3>1. PICK f \in fds[t] :
             /\ fds' = [fds EXCEPT ![t] = @ \ {f}] /\ ioPc' = [ioPc EXCEPT ![t] = "idleClose"]
             /\ conns' = [conns EXCEPT ![t][f] = "none"] /\ fd' = [fd EXCEPT ![t] = f]
      BY <2>10 DEF EvictIdle
    <3>2. f \in Fd /\ ioPc[t] = "idle" /\ UNCHANGED <<mainPc, expected>>
      BY <1>0, <2>0, <2>10, <3>1 DEF EvictIdle, control
    <3>3. /\ ioPc'[t] = "idleClose" /\ fds'[t] = fds[t] \ {f} /\ fd'[t] = f
          /\ \A g \in Fd : conns'[t][g] = IF g = f THEN "none" ELSE conns[t][g]
      BY <1>0, <3>1, <3>2
    <3>4. ThreadOK(t)'
      BY <2>0, <2>a, <3>2, <3>3
    <3>5. QED BY <1>0, <2>0, <3>1, <3>2, <3>4, OtherThreads
  <2>11. CASE CloseIdle(t) \/ ReleaseIdle(t)
    <3>1. /\ UNCHANGED <<mainPc, conns, fds, expected>> /\ ioPc[t] \in {"idleClose", "idleRelease"}
          /\ \A u \in Io \ {t} : ioPc'[u] = ioPc[u] /\ fd'[u] = fd[u]
          /\ ioPc'[t] \in {"idleRelease", "idle"} /\ fd'[t] = NoFd
      BY <1>0, <2>0, <2>11 DEF CloseIdle, ReleaseIdle, control
    <3>2. ThreadOK(t)'
      BY <2>0, <2>a, <3>1
    <3>3. QED BY <1>0, <2>0, <3>1, <3>2, OtherThreads
  <2>12. QED
    BY <1>5, <2>1, <2>2, <2>3, <2>4, <2>5, <2>6, <2>7, <2>8, <2>9, <2>10, <2>11 DEF IoStep
<1>6. QED
  BY <1>1, <1>3, <1>4, <1>5 DEF HttpNext, Main
-----------------------------------------------------------------------------
(* One keeper for each open socket.                                        *)

LEMMA KeepingStep == HttpInv /\ HttpNext => Keeping'
<1> SUFFICES ASSUME HttpInv, HttpNext PROVE Keeping'
  OBVIOUS
<1>0. PlaceTypes /\ CountTypes /\ Bookkeeping /\ Keeping
  BY TypesSplit DEF HttpInv
<1>a. sock \in [Fd -> Client \cup {NoClient}] /\ backlog \in Seq(Client)
  BY DEF HttpInv, HttpTypeOK
<1> USE DEF PlaceTypes, local, Goto, SetConn, ForgetFd, Keeps, Open, HasInHand, HoldsMutex
<1>1. CASE UNCHANGED <<conns, fd, sock, ioPc>>
  BY <1>0, <1>1, KeepersSame
<1>2. CASE listen
  <2>1. \A t \in Io : ioPc[t] = "off" /\ ioPc'[t] = "idle"
    BY <1>0, <1>2 DEF listen, Bookkeeping, NewIsOff
  <2>2. UNCHANGED <<conns, fd, sock>>
    BY <1>2 DEF listen
  <2>3. \A t \in Io, f \in Fd : Keeps(t, f)' <=> Keeps(t, f)
    BY <2>1, <2>2
  <2>4. QED BY <1>0, <2>2, <2>3, KeepersSame
<1>3. CASE setListenFd \/ stop \/ StopThread \/ join \/ connect
  BY <1>1, <1>3 DEF setListenFd, stop, StopThread, join, connect, kernel
<1>4. ASSUME NEW f \in Fd, NEW chunk, HangUp(f) \/ SendChunk(f, chunk) PROVE Keeping'
  BY <1>1, <1>4 DEF HangUp, SendChunk
<1>5. ASSUME NEW t \in Io, IoStep(t) PROVE Keeping'
  <2>0. ThreadOK(t)
    BY <1>0 DEF Bookkeeping
  <2>a. NoFd \notin Fd /\ NoClient \notin Client
    BY FdNumbers
  <2>b. ASSUME ioPc[t] # "checkIn", ioPc'[t] # "checkIn", UNCHANGED <<conns, fd, sock>>,
               \A u \in Io \ {t} : ioPc'[u] = ioPc[u]
        PROVE  Keeping'
    <3>1. \A u \in Io, f \in Fd : Keeps(u, f)' <=> Keeps(u, f)
      BY <2>b
    <3>2. QED BY <1>0, <2>b, <3>1, KeepersSame
  \* Closing the socket that t has in hand.
  <2>c. ASSUME NEW f \in Fd, fd[t] = f, ioPc[t] # "checkIn", conns' = conns,
               fd'[t] = f => ioPc'[t] = "checkIn",
               fd'[t] \in {f, NoFd},
               \A u \in Io \ {t} : ioPc'[u] = ioPc[u] /\ fd'[u] = fd[u],
               sock' = [sock EXCEPT ![f] = NoClient]
        PROVE  Keeping'
    <3>1. Keeps(t, f) /\ conns[t][f] # "entry"
      BY <2>0, <2>c DEF ThreadOK, InHand
    <3>2. \A u \in Io, g \in Fd : Keeps(u, g)' <=> (Keeps(u, g) /\ ~(u = t /\ g = f))
      BY <2>a, <2>c, <3>1
    <3>3. \A g \in Fd : Open(g)' <=> (Open(g) /\ g # f)
      BY <1>a, <2>c
    <3>4. QED BY <1>0, <3>1, <3>2, <3>3, KeeperLost
  <2>1. CASE Watch(t) \/ select(t) \/ ScanIdle(t) \/ ReleaseIdle(t)
    BY <1>0, <2>b, <2>1 DEF Watch, select, ScanIdle, ReleaseIdle, kernel
  <2>2. CASE accept(t)
    <3>1. CASE Goto(t, "reads") /\ UNCHANGED <<sock, backlog, fd>>
      BY <1>0, <2>b, <2>2, <3>1 DEF accept
    <3>2. CASE ~(Goto(t, "reads") /\ UNCHANGED <<sock, backlog, fd>>)
      <4> DEFINE f == Min(Fd \ OpenFds)
      <4>1. /\ ioPc' = [ioPc EXCEPT ![t] = "slot"] /\ fd' = [fd EXCEPT ![t] = f]
            /\ sock' = [sock EXCEPT ![f] = Head(backlog)] /\ backlog # <<>>
            /\ Fd # OpenFds /\ UNCHANGED conns /\ ioPc[t] = "accept"
        BY <2>2, <3>2 DEF accept
      <4>2. f \in Fd \ OpenFds
        <5>1. Fd \ OpenFds # {} /\ Fd \ OpenFds \in SUBSET Nat
          BY <4>1, FdAssumption DEF OpenFds
        <5>2. QED BY <5>1, LowestFree
      <4> HIDE DEF f
      <4>3. f \in Fd /\ ~Open(f) /\ fd[t] = NoFd /\ Head(backlog) # NoClient
        BY <1>a, <2>0, <2>a, <4>1, <4>2 DEF OpenFds, ThreadOK, InHand, Carrying
      <4>4. \A u \in Io, g \in Fd : Keeps(u, g)' <=> (Keeps(u, g) \/ (u = t /\ g = f))
        BY <1>0, <2>a, <4>1, <4>3
      <4>5. \A g \in Fd : Open(g)' <=> (Open(g) \/ g = f)
        BY <1>a, <4>1, <4>3
      <4>6. QED BY <1>0, <4>3, <4>4, <4>5, KeeperGained
    <3>3. QED BY <3>1, <3>2
  <2>3. CASE LoadCount(t) \/ TakeSlot(t)
    <3>1. fd[t] \in Fd /\ ioPc[t] \in {"slot", "cas"} /\ UNCHANGED conns
      BY <2>0, <2>3 DEF LoadCount, TakeSlot, ThreadOK, InHand, Carrying
    <3>2. CASE Refuse(t)
      <4>1. ioPc'[t] = "accept" /\ fd'[t] = NoFd
        BY <1>0, <3>2 DEF Refuse
      <4>2. QED BY <1>0, <2>a, <2>c, <3>1, <3>2, <4>1 DEF Refuse, CloseSocket
    <3>3. CASE ~Refuse(t)
      <4>1. UNCHANGED <<fd, sock>> /\ (UNCHANGED ioPc \/ Goto(t, "cas") \/ Goto(t, "hand"))
        BY <2>3, <3>3 DEF LoadCount, TakeSlot
      <4>2. ioPc'[t] # "checkIn" /\ \A u \in Io \ {t} : ioPc'[u] = ioPc[u]
        BY <1>0, <3>1, <4>1
      <4>3. QED BY <2>b, <3>1, <4>1, <4>2
    <3>4. QED BY <3>2, <3>3
  <2>4. CASE adopt(t)
    <3> DEFINE f == fd[t]
               n == nextIo
    <3>1. /\ f \in Fd /\ n \in Io /\ ioPc[t] = "hand" /\ ioPc[n] # "checkIn"
          /\ ioPc' = [ioPc EXCEPT ![t] = "accept"] /\ fd' = [fd EXCEPT ![t] = NoFd]
          /\ conns' = [conns EXCEPT ![n][f] = "entry"] /\ UNCHANGED sock
      BY <1>0, <2>0, <2>4 DEF adopt, CountTypes, ThreadOK, InHand, Carrying, kernel
    <3>2. Keeps(t, f) /\ conns[t][f] # "entry"
      BY <2>0, <3>1 DEF ThreadOK, InHand
    <3>3. \A u \in Io : Keeps(u, f) => u = t
      BY <1>0, <3>1, <3>2 DEF Keeping, OneKeeps
    <3> HIDE DEF f, n
    <3>4. ASSUME NEW u \in Io, NEW g \in Fd
          PROVE  Keeps(u, g)' <=> IF g = f THEN u = n ELSE Keeps(u, g)
      <4>1. conns'[u][g] = IF u = n /\ g = f THEN "entry" ELSE conns[u][g]
        BY <1>0, <3>1
      <4>2. /\ u # t => ioPc'[u] = ioPc[u] /\ fd'[u] = fd[u]
            /\ u = t => ioPc'[u] = "accept" /\ fd'[u] = NoFd /\ fd[u] = f
        BY <1>0, <3>1 DEF f
      <4>3. CASE g # f
        BY <2>a, <3>1, <4>1, <4>2, <4>3
      <4>4. CASE g = f
        BY <2>a, <3>1, <3>2, <3>3, <4>1, <4>2, <4>4
      <4>5. QED BY <4>3, <4>4
    <3>5. \A g \in Fd : Open(g)' <=> Open(g)
      BY <3>1
    <3>6. Keeping /\ f \in Fd /\ n \in Io /\ Keeps(t, f)
      BY <1>0, <3>1, <3>2
    <3> HIDE DEF Keeps, Open, PlaceTypes
    <3>7. QED BY <3>4, <3>5, <3>6, KeeperPassed
  <2>5. CASE CheckOut(t)
    <3>1. PICK f \in fds[t] :
             IF conns[t][f] = "none" THEN UNCHANGED <<conns, ioPc, fd>>
             ELSE SetConn(t, f, "null") /\ fd' = [fd EXCEPT ![t] = f] /\ Goto(t, "handle")
      BY <2>5 DEF CheckOut
    <3>2. f \in Fd /\ ioPc[t] = "reads" /\ UNCHANGED sock /\ conns[t][f] = "entry" /\ fd[t] = NoFd
      BY <1>0, <2>0, <2>5, <3>1 DEF CheckOut, ThreadOK, Roles, InHand, VisitsOwn, Carrying, kernel
    <3>3. /\ ioPc' = [ioPc EXCEPT ![t] = "handle"]
          /\ conns' = [conns EXCEPT ![t][f] = "null"] /\ fd' = [fd EXCEPT ![t] = f]
      BY <3>1, <3>2
    <3>4. \A u \in Io, g \in Fd : Keeps(u, g)' <=> Keeps(u, g)
      BY <1>0, <2>a, <3>2, <3>3
    <3>5. QED BY <1>0, <3>2, <3>4, KeepersSame
  <2>6. CASE handleRead(t)
    <3> DEFINE f == fd[t]
    <3>1. ioPc[t] = "handle" /\ f \in Fd
      BY <2>0, <2>6 DEF handleRead, ThreadOK, InHand, Carrying
    <3>2. CASE CloseSocket(f) /\ Goto(t, "checkIn") /\ UNCHANGED <<conns, fd>>
      BY <1>0, <2>c, <3>1, <3>2 DEF CloseSocket
    <3>3. CASE SetConn(t, f, "entry") /\ ForgetFd(t) /\ Goto(t, "reads") /\ UNCHANGED sock
      <4>1. \A u \in Io, g \in Fd : Keeps(u, g)' <=> Keeps(u, g)
        BY <1>0, <2>a, <3>1, <3>3
      <4>2. QED BY <1>0, <3>3, <4>1, KeepersSame
    <3>4. QED BY <2>6, <3>2, <3>3 DEF handleRead
  <2>7. CASE CheckInClosed(t)
    <3> DEFINE f == fd[t]
    <3>1. /\ ioPc[t] = "checkIn" /\ f \in Fd /\ UNCHANGED sock /\ conns[t][f] # "entry"
          /\ ioPc' = [ioPc EXCEPT ![t] = "reads"] /\ fd' = [fd EXCEPT ![t] = NoFd]
          /\ conns' = [conns EXCEPT ![t][f] = "none"]
      BY <2>0, <2>7 DEF CheckInClosed, ThreadOK, InHand, Carrying, kernel
    <3>2. \A u \in Io, g \in Fd : Keeps(u, g)' <=> Keeps(u, g)
      BY <1>0, <2>a, <3>1
    <3>3. QED BY <1>0, <3>1, <3>2, KeepersSame
  <2>8. CASE EvictIdle(t)
    <3>1. PICK f \in fds[t] :
             /\ ioPc' = [ioPc EXCEPT ![t] = "idleClose"]
             /\ conns' = [conns EXCEPT ![t][f] = "none"] /\ fd' = [fd EXCEPT ![t] = f]
      BY <2>8 DEF EvictIdle
    <3>2. f \in Fd /\ ioPc[t] = "idle" /\ UNCHANGED sock /\ conns[t][f] = "entry" /\ fd[t] = NoFd
      BY <1>0, <2>0, <2>8, <3>1 DEF EvictIdle, ThreadOK, Roles, InHand, VisitsOwn, Carrying, kernel
    <3>3. \A u \in Io, g \in Fd : Keeps(u, g)' <=> Keeps(u, g)
      BY <1>0, <2>a, <3>1, <3>2
    <3>4. QED BY <1>0, <3>2, <3>3, KeepersSame
  <2>9. CASE CloseIdle(t)
    <3>1. /\ ioPc[t] = "idleClose" /\ fd[t] \in Fd /\ UNCHANGED conns
          /\ ioPc' = [ioPc EXCEPT ![t] = "idleRelease"] /\ fd' = [fd EXCEPT ![t] = NoFd]
          /\ sock' = [sock EXCEPT ![fd[t]] = NoClient]
      BY <2>0, <2>9 DEF CloseIdle, CloseSocket, ThreadOK, InHand, Carrying
    <3>2. QED BY <1>0, <2>a, <2>c, <3>1
  <2>10. QED
    BY <1>5, <2>1, <2>2, <2>3, <2>4, <2>5, <2>6, <2>7, <2>8, <2>9 DEF IoStep
<1>6. QED
  BY <1>2, <1>3, <1>4, <1>5 DEF HttpNext, Main
-----------------------------------------------------------------------------
(* The slots.                                                              *)

\* On every path the count, the open sockets and the threads between the two move
\* together.
LEMMA SlotStep == HttpInv /\ HttpNext => SlotAccounting'
<1> SUFFICES ASSUME HttpInv, HttpNext PROVE SlotAccounting'
  OBVIOUS
<1>0. PlaceTypes /\ CountTypes /\ Bookkeeping /\ Keeping /\ SlotAccounting
  BY TypesSplit DEF HttpInv
<1>a. sock \in [Fd -> Client \cup {NoClient}] /\ backlog \in Seq(Client)
  BY DEF HttpInv, HttpTypeOK
<1>b. active \in Nat
  BY <1>0, MaxConnectionsAssumption DEF CountTypes
<1> USE DEF PlaceTypes, Goto
<1>1. CASE UNCHANGED <<active, sock, ioPc>>
  BY <1>0, <1>1, SlotsSame DEF Unslotted, Releasing, OpenFds
<1>2. CASE listen
  <2>1. \A t \in Io : ioPc[t] = "off" /\ ioPc'[t] = "idle"
    BY <1>0, <1>2 DEF listen, Bookkeeping, NewIsOff
  <2>2. Unslotted' = Unslotted /\ Releasing' = Releasing
    BY <2>1 DEF Unslotted, Releasing
  <2>3. OpenFds' = OpenFds /\ active' = active
    BY <1>0, <1>2 DEF listen, OpenFds, Bookkeeping, NewIsOff
  <2>4. QED BY <1>0, <2>2, <2>3, SlotsSame
<1>3. CASE setListenFd \/ stop \/ StopThread \/ join \/ connect
  BY <1>1, <1>3 DEF setListenFd, stop, StopThread, join, connect, kernel
<1>4. ASSUME NEW f \in Fd, NEW chunk, HangUp(f) \/ SendChunk(f, chunk) PROVE SlotAccounting'
  BY <1>1, <1>4 DEF HangUp, SendChunk
<1>5. ASSUME NEW t \in Io, IoStep(t) PROVE SlotAccounting'
  <2>0. ThreadOK(t)
    BY <1>0 DEF Bookkeeping
  <2>a. NoClient \notin Client
    BY FdNumbers
  \* The three sizes and the sums that each move makes of them.
  <2> DEFINE U == Cardinality(Unslotted)
             R == Cardinality(Releasing)
             O == Cardinality(OpenFds)
  <2>b. U \in Nat /\ R \in Nat /\ O \in Nat /\ active + U = O + R
    BY <1>0, SlotSetsFinite DEF SlotAccounting
  <2>c. ASSUME active' + Cardinality(Unslotted)' = Cardinality(OpenFds)' + Cardinality(Releasing)'
        PROVE  SlotAccounting'
    BY <2>c DEF SlotAccounting
  <2>d. ASSUME NEW l, ioPc' = [ioPc EXCEPT ![t] = l], l \notin {"slot", "cas", "checkIn", "idleRelease"}
        PROVE  Unslotted' = Unslotted \ {t} /\ Releasing' = Releasing \ {t}
    BY <1>0, <2>d DEF Unslotted, Releasing
  <2>e. ASSUME fd[t] \in Fd, ioPc[t] # "checkIn", sock' = [sock EXCEPT ![fd[t]] = NoClient]
        PROVE  fd[t] \in OpenFds /\ OpenFds' = OpenFds \ {fd[t]} /\ Cardinality(OpenFds)' = O - 1
    <3>1. Keeps(t, fd[t])
      BY <2>e DEF Keeps, HasInHand, HoldsMutex
    <3>2. fd[t] \in OpenFds
      BY <1>0, <2>e, <3>1 DEF Keeping, OpenIsKept, Open, OpenFds
    <3>3. OpenFds' = OpenFds \ {fd[t]}
      BY <1>a, <2>e DEF OpenFds
    <3>4. QED BY <3>2, <3>3, SlotSetsFinite, SizeAfterMove
  <2>1. ASSUME UNCHANGED <<active, sock>>,
               ioPc[t] \notin {"slot", "cas", "checkIn", "idleRelease"},
               ioPc'[t] \notin {"slot", "cas", "checkIn", "idleRelease"},
               \A u \in Io \ {t} : ioPc'[u] = ioPc[u]
        PROVE  SlotAccounting'
    <3>1. Unslotted' = Unslotted /\ Releasing' = Releasing /\ OpenFds' = OpenFds
      BY <2>1 DEF Unslotted, Releasing, OpenFds
    <3>2. QED BY <1>0, <2>1, <3>1, SlotsSame
  <2>2. CASE Watch(t) \/ select(t) \/ ScanIdle(t) \/ EvictIdle(t) \/ adopt(t)
    BY <1>0, <2>1, <2>2 DEF Watch, select, ScanIdle, EvictIdle, adopt, kernel
  <2>3. CASE CheckOut(t)
    <3>1. UNCHANGED <<active, sock>> /\ ioPc[t] = "reads" /\ (UNCHANGED ioPc \/ Goto(t, "handle"))
      BY <2>3 DEF CheckOut, kernel
    <3>2. QED BY <1>0, <2>1, <3>1
  <2>4. CASE accept(t)
    <3>1. CASE Goto(t, "reads") /\ UNCHANGED <<sock, backlog, fd>>
      BY <1>0, <2>1, <2>4, <3>1 DEF accept
    <3>2. CASE ~(Goto(t, "reads") /\ UNCHANGED <<sock, backlog, fd>>)
      <4> DEFINE f == Min(Fd \ OpenFds)
      <4>1. /\ ioPc' = [ioPc EXCEPT ![t] = "slot"] /\ active' = active
            /\ sock' = [sock EXCEPT ![f] = Head(backlog)] /\ backlog # <<>>
            /\ Fd # OpenFds /\ ioPc[t] = "accept"
        BY <2>4, <3>2 DEF accept
      <4>2. f \in Fd \ OpenFds
        <5>1. Fd \ OpenFds # {} /\ Fd \ OpenFds \in SUBSET Nat
          BY <4>1, FdAssumption DEF OpenFds
        <5>2. QED BY <5>1, LowestFree
      <4> HIDE DEF f
      <4>3. OpenFds' = OpenFds \cup {f} /\ f \notin OpenFds
        BY <1>a, <2>a, <4>1, <4>2 DEF OpenFds
      <4>4. Unslotted' = Unslotted \cup {t} /\ t \notin Unslotted /\ Releasing' = Releasing
        BY <1>0, <4>1 DEF Unslotted, Releasing
      <4>5. Cardinality(OpenFds)' = O + 1 /\ Cardinality(Unslotted)' = U + 1 /\ Cardinality(Releasing)' = R
        BY <4>3, <4>4, SlotSetsFinite, SizeAfterMove
      <4> HIDE DEF U, R, O
      <4>6. QED BY <1>b, <2>b, <2>c, <4>1, <4>5
    <3>3. QED BY <3>1, <3>2
  <2>5. CASE LoadCount(t) \/ TakeSlot(t)
    <3>1. fd[t] \in Fd /\ ioPc[t] \in {"slot", "cas"} /\ t \in Unslotted /\ t \notin Releasing
      BY <2>0, <2>5 DEF LoadCount, TakeSlot, ThreadOK, InHand, Carrying, Unslotted, Releasing
    <3>2. CASE Refuse(t)
      <4>1. /\ ioPc' = [ioPc EXCEPT ![t] = "accept"] /\ sock' = [sock EXCEPT ![fd[t]] = NoClient]
        BY <3>2 DEF Refuse, CloseSocket
      <4>2. active' = active
        BY <1>0, <2>5, <3>1, <4>1 DEF LoadCount, TakeSlot
      <4>3. Cardinality(OpenFds)' = O - 1
        BY <2>e, <3>1, <4>1
      <4>4. Unslotted' = Unslotted \ {t} /\ Releasing' = Releasing
        BY <2>d, <3>1, <4>1
      <4>5. Cardinality(Unslotted)' = U - 1 /\ Cardinality(Releasing)' = R
        BY <3>1, <4>4, SlotSetsFinite, SizeAfterMove
      <4> HIDE DEF U, R, O
      <4>6. QED BY <1>b, <2>b, <2>c, <4>2, <4>3, <4>5
    <3>3. CASE UNCHANGED <<active, sock>> /\ (UNCHANGED ioPc \/ Goto(t, "cas"))
      <4>1. Unslotted' = Unslotted /\ Releasing' = Releasing /\ OpenFds' = OpenFds
        BY <1>0, <3>1, <3>3 DEF Unslotted, Releasing, OpenFds
      <4>2. QED BY <1>0, <3>3, <4>1, SlotsSame
    <3>4. CASE active' = active + 1 /\ UNCHANGED sock /\ Goto(t, "hand")
      <4>1. Unslotted' = Unslotted \ {t} /\ Releasing' = Releasing
        BY <2>d, <3>1, <3>4
      <4>2. OpenFds' = OpenFds
        BY <3>4 DEF OpenFds
      <4>3. Cardinality(Unslotted)' = U - 1 /\ Cardinality(Releasing)' = R /\ Cardinality(OpenFds)' = O
        BY <3>1, <4>1, <4>2, SlotSetsFinite, SizeAfterMove
      <4> HIDE DEF U, R, O
      <4>4. QED BY <1>b, <2>b, <2>c, <3>4, <4>3
    <3>5. QED BY <2>5, <3>2, <3>3, <3>4 DEF LoadCount, TakeSlot
  <2>6. CASE handleRead(t)
    <3>1. ioPc[t] = "handle" /\ fd[t] \in Fd /\ active' = active
      BY <2>0, <2>6 DEF handleRead, ThreadOK, InHand, Carrying
    <3>2. CASE CloseSocket(fd[t]) /\ Goto(t, "checkIn")
      <4>1. Cardinality(OpenFds)' = O - 1
        BY <2>e, <3>1, <3>2 DEF CloseSocket
      <4>2. Releasing' = Releasing \cup {t} /\ t \notin Releasing /\ Unslotted' = Unslotted
        BY <1>0, <3>1, <3>2 DEF Unslotted, Releasing
      <4>3. Cardinality(Unslotted)' = U /\ Cardinality(Releasing)' = R + 1
        BY <4>2, SlotSetsFinite, SizeAfterMove
      <4> HIDE DEF U, R, O
      <4>4. QED BY <1>b, <2>b, <2>c, <3>1, <4>1, <4>3
    <3>3. CASE UNCHANGED sock /\ Goto(t, "reads")
      BY <1>0, <2>1, <3>1, <3>3
    <3>4. QED BY <2>6, <3>2, <3>3 DEF handleRead
  <2>7. CASE CheckInClosed(t) \/ ReleaseIdle(t)
    <3>1. /\ t \in Releasing /\ t \notin Unslotted /\ active' = active - 1 /\ UNCHANGED sock
          /\ Goto(t, "reads") \/ Goto(t, "idle")
      BY <2>7 DEF CheckInClosed, ReleaseIdle, Releasing, Unslotted, kernel
    <3>2. Releasing' = Releasing \ {t} /\ Unslotted' = Unslotted
      BY <2>d, <3>1
    <3>3. OpenFds' = OpenFds
      BY <3>1 DEF OpenFds
    <3>4. Cardinality(Unslotted)' = U /\ Cardinality(Releasing)' = R - 1 /\ Cardinality(OpenFds)' = O
      BY <3>1, <3>2, <3>3, SlotSetsFinite, SizeAfterMove
    <3> HIDE DEF U, R, O
    <3>5. QED BY <1>b, <2>b, <2>c, <3>1, <3>4
  <2>8. CASE CloseIdle(t)
    <3>1. /\ ioPc[t] = "idleClose" /\ fd[t] \in Fd /\ active' = active
          /\ ioPc' = [ioPc EXCEPT ![t] = "idleRelease"] /\ sock' = [sock EXCEPT ![fd[t]] = NoClient]
      BY <2>0, <2>8 DEF CloseIdle, CloseSocket, ThreadOK, InHand, Carrying
    <3>2. Cardinality(OpenFds)' = O - 1
      BY <2>e, <3>1
    <3>3. Releasing' = Releasing \cup {t} /\ t \notin Releasing /\ Unslotted' = Unslotted
      BY <1>0, <3>1 DEF Unslotted, Releasing
    <3>4. Cardinality(Unslotted)' = U /\ Cardinality(Releasing)' = R + 1
      BY <3>3, SlotSetsFinite, SizeAfterMove
    <3> HIDE DEF U, R, O
    <3>5. QED BY <1>b, <2>b, <2>c, <3>1, <3>2, <3>4
  <2>9. QED
    BY <1>5, <2>2, <2>3, <2>4, <2>5, <2>6, <2>7, <2>8 DEF IoStep
<1>6. QED
  BY <1>2, <1>3, <1>4, <1>5 DEF HttpNext, Main

-----------------------------------------------------------------------------
(* The theorems.                                                           *)

LEMMA HttpInvInit == HttpInit => HttpInv
<1> SUFFICES ASSUME HttpInit PROVE HttpInv
  OBVIOUS
<1>1. FlagTypes
  <2>1. CASE listening = FALSE
    BY <2>1 DEF HttpInit, FlagTypes
  <2>2. CASE listening = TRUE
    BY <2>2 DEF HttpInit, FlagTypes
  <2>3. QED BY <2>1, <2>2 DEF HttpInit
<1>2. KernelTypes
  BY BoundAssumption DEF HttpInit, KernelTypes, Input
<1>3. CountTypes
  BY MaxConnectionsAssumption, IoThreads DEF HttpInit, CountTypes, Acceptor
<1>4. PlaceTypes
  <2>1. "off" \in IoAt /\ "idle" \in IoAt
    BY DEF IoAt
  <2>2. ioPc \in [Io -> IoAt]
    BY <2>1 DEF HttpInit
  <2>3. QED BY <2>2 DEF HttpInit, PlaceTypes
<1>5. \A t \in Io : ioPc[t] \in {"off", "idle"} /\ fds[t] = {} /\ fd[t] = NoFd
  BY DEF HttpInit
<1>6. \A t \in Io, f \in Fd : conns[t][f] = "none"
  BY DEF HttpInit
<1>7. Bookkeeping
  <2>1. NewIsOff
    BY DEF HttpInit, NewIsOff
  <2>2. \A t \in Io : ThreadOK(t)
    BY <1>5, <1>6, FdNumbers DEF ThreadOK, Roles, InHand, VisitsOwn, Accepting, Carrying
  <2>3. QED BY <2>1, <2>2 DEF Bookkeeping
<1>8. Keeping
  BY <1>5, <1>6, FdNumbers DEF HttpInit, Keeping, OneKeeps, OpenIsKept, Keeps, HasInHand, Open
<1>9. SlotAccounting
  <2>1. Unslotted = {} /\ Releasing = {} /\ OpenFds = {} /\ active = 0
    BY <1>5 DEF HttpInit, Unslotted, Releasing, OpenFds
  <2>2. Cardinality({}) = 0
    BY FS_EmptySet
  <2>3. QED BY <2>1, <2>2 DEF SlotAccounting
<1>10. QED BY <1>1, <1>2, <1>3, <1>4, <1>7, <1>8, <1>9, TypesSplit DEF HttpInv

LEMMA HttpInvStep == HttpInv /\ [HttpNext]_httpVars => HttpInv'
<1>1. CASE HttpNext
  BY <1>1, TypesStep, BookkeepingStep, KeepingStep, SlotStep DEF HttpInv
<1>2. ASSUME HttpInv, UNCHANGED httpVars PROVE HttpInv'
  <2>1. HttpTypeOK'
    BY <1>2 DEF httpVars, control, kernel, local, HttpInv, HttpTypeOK
  <2>2. Bookkeeping'
    BY <1>2 DEF httpVars, control, local, HttpInv, Bookkeeping, NewIsOff, ThreadOK, Roles,
                InHand, VisitsOwn
  <2>3. Keeping'
    BY <1>2 DEF httpVars, kernel, local, HttpInv, Keeping, OneKeeps, OpenIsKept, Keeps,
                HasInHand, HoldsMutex, Open
  <2>4. SlotAccounting'
    <3>1. UNCHANGED <<active, ioPc, sock>>
      BY <1>2 DEF httpVars, kernel
    <3>2. QED BY <1>2, <3>1 DEF HttpInv, SlotAccounting, Unslotted, Releasing, OpenFds
  <2>5. QED BY <2>1, <2>2, <2>3, <2>4 DEF HttpInv
<1>3. QED BY <1>1, <1>2

\* The server's variables keep their types; in particular activeConnections_ never
\* exceeds maxConnections and never falls below zero (tryAcquireConnection,
\* releaseConnection).
THEOREM HttpTypeCorrect == HttpSpec => []HttpTypeOK
<1>1. HttpInv => HttpTypeOK
  BY DEF HttpInv
<1>2. QED BY <1>1, HttpInvInit, HttpInvStep, PTL DEF HttpSpec

\* No slot of activeConnections_ is lost or given back twice, on any of the paths
\* that close a socket, for any number of threads (IoThread::run, onClose_).
THEOREM SlotAccountingHolds == HttpSpec => []SlotAccounting
<1>1. HttpInv => SlotAccounting
  BY DEF HttpInv
<1>2. QED BY <1>1, HttpInvInit, HttpInvStep, PTL DEF HttpSpec

\* An open client socket has exactly one thread looking after it and a closed
\* number has none, although numbers come back while their last owner is still
\* cleaning up (IoThread::run's check-out and check-in, adopt, closeConnection).
THEOREM OneKeeperHolds == HttpSpec => []OneKeeper
<1>1. ASSUME HttpInv PROVE OneKeeper
  <2> SUFFICES ASSUME NEW f \in Fd
               PROVE  Cardinality(Keepers(f)) = IF f \in OpenFds THEN 1 ELSE 0
    BY DEF OneKeeper
  <2>1. Keepers(f) = {t \in Io : Keeps(t, f)}
    BY DEF Keepers, Keeps
  <2>2. CASE f \in OpenFds
    <3>1. PICK t \in Io : Keeps(t, f)
      BY <1>1, <2>2 DEF HttpInv, Keeping, OpenIsKept, Open, OpenFds
    <3>2. Keepers(f) = {t}
      BY <1>1, <2>1, <3>1 DEF HttpInv, Keeping, OneKeeps
    <3>3. QED BY <2>2, <3>2, FS_Singleton
  <2>3. CASE f \notin OpenFds
    <3>1. Keepers(f) = {}
      BY <1>1, <2>1, <2>3 DEF HttpInv, Keeping, OpenIsKept, Open, OpenFds
    <3>2. QED BY <2>3, <3>1, FS_EmptySet
  <2>4. QED BY <2>2, <2>3
<1>2. QED BY <1>1, HttpInvInit, HttpInvStep, PTL DEF HttpSpec
=============================================================================
