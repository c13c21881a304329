------------------------------ MODULE HttpServer ------------------------------
(***************************************************************************)
(* The socket side of the server: src/HttpServer.cpp (listen, stop, join,  *)
(* the connection limit, the routing of a request) and                     *)
(* src/HttpServerIoThread.cpp (the select loop of an I/O thread), POSIX    *)
(* build.                                                                  *)
(*                                                                         *)
(* Each I/O thread owns the connections in its conns_, a map guarded by    *)
(* its mu_; thread 0 also accepts, takes a slot of activeConnections_ and  *)
(* hands the socket to a thread, round robin.  The kernel gives the lowest *)
(* free descriptor to a new socket, so a number that one thread has just   *)
(* closed comes back at once, for any thread: a step here ends wherever    *)
(* another thread can see a descriptor, a slot or a map.                   *)
(*                                                                         *)
(* A complete request ends the process: run() has moved the Connection out *)
(* of conns_ and left a null entry, onClientRequest answers through        *)
(* writeTo, and writeTo dereferences that entry.  No Connection therefore  *)
(* ever has bytes to write, and the write half of run() is not reached.    *)
(* select's timeout stands for the wake pipe too: select may return at any *)
(* time.                                                                   *)
(***************************************************************************)
EXTENDS Naturals, Sequences, FiniteSets, FiniteSetsExt

CONSTANTS
    IoCount,         \* cfg_.ioThreadCount
    MaxConnections,  \* cfg_.maxConnections
    Fd,              \* the descriptors left for client sockets
    MaxClients,      \* bound: the clients, each of which connects once
    MaxChunks        \* bound: the chunks the clients send

ASSUME IoCountAssumption == IoCount \in Nat \ {0}
ASSUME MaxConnectionsAssumption == MaxConnections \in Nat
ASSUME FdAssumption == Fd \subseteq Nat \ {0, 1} /\ IsFiniteSet(Fd)
ASSUME BoundAssumption == MaxClients \in Nat /\ MaxChunks \in Nat

Io == 0 .. IoCount - 1
Acceptor == 0            \* isAcceptor_: the first thread
Client == 1 .. MaxClients  \* numbered in the order in which they connect
NoClient == 0            \* a descriptor that is not open

\* What a chunk does to the readBuffer it is appended to: the headers are still
\* incomplete, they are and 64 KiB are exceeded, or the request is complete.
\* (contentLength is always 0: the parse starts on the colon, so the blank line
\* completes a request.)
Chunk == {"part", "huge", "request"}
Input == Chunk \cup {"nothing", "fin"}   \* fin: the peer has closed

VARIABLES
    mainPc,       \* the thread that calls listen(), stop() and join()
    alive,        \* the process has not crashed
    listening,    \* the listen socket is open
    acceptFd,     \* the acceptor's listen_fd_ has been set
    running,      \* IoThread::running_
    active,       \* activeConnections_
    nextIo,       \* next_io_idx_, modulo the number of threads
    backlog,      \* the connections that wait to be accepted
    sock,         \* the open client sockets: descriptor -> client
    input,        \* what a client's socket holds unread
    arrived,      \* how many clients have connected
    chunks,       \* how many chunks they have sent
    conns,        \* conns_: per descriptor none, a null entry or an entry
    ioPc,         \* where each thread is
    fds,          \* the descriptors its current loop has still to visit
    fd,           \* the descriptor it works on
    expected      \* `current` in tryAcquireConnection

kernel == <<listening, backlog, sock, input, arrived, chunks>>
local == <<fds, fd, expected>>
control == <<mainPc, alive, acceptFd, running>>
httpVars == <<control, kernel, active, nextIo, conns, ioPc, local>>

IoAt == {"off", "select", "accept", "slot", "cas", "hand", "reads", "handle",
         "checkIn", "idle", "idleClose", "idleRelease", "exited"}
NoFd == 0
ListenFd == 1

Goto(t, label) == ioPc' = [ioPc EXCEPT ![t] = label]
Owned(t) == {f \in Fd : conns[t][f] = "entry"}
SetConn(t, f, e) == conns' = [conns EXCEPT ![t][f] = e]
\* The end of the scope of clientFd, c or fd, and of tryAcquireConnection's local.
ForgetFd(t) == fd' = [fd EXCEPT ![t] = NoFd]
ForgetCount(t) == expected' = [expected EXCEPT ![t] = 0]
OpenFds == {f \in Fd : sock[f] # NoClient}
Readable(f) == sock[f] # NoClient /\ input[sock[f]] # "nothing"
CloseSocket(f) ==
    /\ sock' = [sock EXCEPT ![f] = NoClient]
    /\ input' = [input EXCEPT ![sock[f]] = "nothing"]

-----------------------------------------------------------------------------
(* The thread that runs the server.                                        *)

\* bindAndListen has succeeded (if it fails nothing is started); activeConnections_
\* is reset and the threads start, the acceptor too, before it has its listen_fd_.
listen ==
    /\ mainPc = "new"
    /\ mainPc' = "wire" /\ listening' = TRUE /\ active' = 0
    /\ running' = [t \in Io |-> TRUE]
    /\ ioPc' = [t \in Io |-> "idle"]
    /\ UNCHANGED <<alive, acceptFd, backlog, sock, input, arrived, chunks, nextIo, conns, local>>

\* Mutant: the descriptor goes to a thread that is not the acceptor.
BugSetListenFd ==
    /\ mainPc = "wire"
    /\ mainPc' = "up"
    /\ UNCHANGED <<alive, acceptFd, running, kernel, active, nextIo, conns, ioPc, local>>

setListenFd ==
    /\ mainPc = "wire"
    /\ acceptFd' = TRUE /\ mainPc' = "up"
    /\ UNCHANGED <<alive, running, kernel, active, nextIo, conns, ioPc, local>>

\* Mutant: stop() closes the listen socket and does not stop the threads.
BugStop ==
    /\ mainPc = "up"
    /\ listening' = FALSE /\ backlog' = <<>> /\ mainPc' = "join"
    /\ UNCHANGED <<alive, acceptFd, running, sock, input, arrived, chunks, active, nextIo, conns, ioPc, local>>

\* stop(): the listen socket is closed (the kernel drops who waits to be accepted) ...
stop ==
    /\ mainPc = "up"
    /\ listening' = FALSE /\ backlog' = <<>> /\ mainPc' = "stop"
    /\ UNCHANGED <<alive, acceptFd, running, sock, input, arrived, chunks, active, nextIo, conns, ioPc, local>>

\* ... and then the threads are told, one after the other, the acceptor first.
StopThread ==
    /\ mainPc = "stop"
    /\ \E t \in Io :
          /\ running[t] /\ \A u \in Io : u < t => ~running[u]
          /\ running' = [running EXCEPT ![t] = FALSE]
          /\ mainPc' = IF t = IoCount - 1 THEN "join" ELSE "stop"
    /\ UNCHANGED <<alive, acceptFd, kernel, active, nextIo, conns, ioPc, local>>

join ==
    /\ mainPc = "join" /\ \A t \in Io : ioPc[t] = "exited"
    /\ mainPc' = "joined"
    /\ UNCHANGED <<alive, acceptFd, running, kernel, active, nextIo, conns, ioPc, local>>

-----------------------------------------------------------------------------
(* run(): the select call.                                                 *)

\* With no idle connection left the loop starts again, as it does at first: the
\* loop test, then FD_SET: the descriptors of conns_ as it is now.  A listen
\* descriptor that is closed already makes select fail, which ends the thread.
Watch(t) ==
    /\ ioPc[t] = "idle" /\ fds[t] = {}
    /\ IF ~running[t] \/ (t = Acceptor /\ acceptFd /\ ~listening)
       THEN Goto(t, "exited") /\ UNCHANGED fds
       ELSE /\ Goto(t, "select")
            /\ fds' = [fds EXCEPT ![t] = Owned(t) \cup
                          (IF t = Acceptor /\ acceptFd THEN {ListenFd} ELSE {})]
    /\ UNCHANGED <<control, kernel, active, nextIo, conns, fd, expected>>

\* select returns, on input or on its timeout: of the watched descriptors the
\* readable ones stay set.  The acceptor drains the listen socket if it is ready.
\* (readyReads is collected after that, but nobody else removes from conns_ or
\* can have been given one of these numbers.)
select(t) ==
    /\ ioPc[t] = "select"
    /\ fds' = [fds EXCEPT ![t] = {f \in @ \ {ListenFd} : Readable(f)}]
    /\ Goto(t, IF ListenFd \in fds[t] /\ backlog # <<>> THEN "accept" ELSE "reads")
    /\ UNCHANGED <<control, kernel, active, nextIo, conns, fd, expected>>

-----------------------------------------------------------------------------
(* run(): the accept loop.                                                 *)

\* accept() until it fails or the thread is stopped.
accept(t) ==
    /\ ioPc[t] = "accept"
    /\ IF running[t] /\ backlog # <<>> /\ Fd # OpenFds
       THEN LET f == Min(Fd \ OpenFds) IN
            /\ sock' = [sock EXCEPT ![f] = Head(backlog)]
            /\ backlog' = Tail(backlog)
            /\ fd' = [fd EXCEPT ![t] = f]
            /\ Goto(t, "slot")
       ELSE Goto(t, "reads") /\ UNCHANGED <<sock, backlog, fd>>
    /\ UNCHANGED <<control, listening, input, arrived, chunks, active, nextIo, conns, fds, expected>>

\* At the limit the socket gets a 503 and is closed.
Refuse(t) == CloseSocket(fd[t]) /\ ForgetFd(t) /\ ForgetCount(t) /\ Goto(t, "accept")

\* tryAcquireConnection reads the count and compares it with the limit.
LoadCount(t) ==
    /\ ioPc[t] = "slot"
    /\ IF active < MaxConnections
       THEN /\ expected' = [expected EXCEPT ![t] = active]
            /\ Goto(t, "cas")
            /\ UNCHANGED <<sock, input, fd>>
       ELSE Refuse(t)
    /\ UNCHANGED <<control, listening, backlog, arrived, chunks, active, nextIo, conns, fds>>

\* Mutant: activeConnections_.store(current + 1).
BugTakeSlot(t) ==
    /\ ioPc[t] = "cas"
    /\ active' = expected[t] + 1
    /\ ForgetCount(t) /\ Goto(t, "hand")
    /\ UNCHANGED <<control, kernel, nextIo, conns, fds, fd>>

\* compare_exchange_weak: it takes the slot if the count is what was read, and
\* otherwise goes round the loop with the count it found.
TakeSlot(t) ==
    /\ ioPc[t] = "cas"
    /\ IF active = expected[t]
       THEN active' = active + 1 /\ ForgetCount(t) /\ Goto(t, "hand") /\ UNCHANGED <<sock, input, fd>>
       ELSE /\ IF active < MaxConnections
               THEN expected' = [expected EXCEPT ![t] = active] /\ UNCHANGED <<ioPc, sock, input, fd>>
               ELSE Refuse(t)
            /\ UNCHANGED active
    /\ UNCHANGED <<control, listening, backlog, arrived, chunks, nextIo, conns, fds>>

\* The threads that hold their mu_ across several steps: those that check a
\* closed connection in.
HoldsMutex(t) == ioPc[t] = "checkIn"

\* Mutant: adopt() does not take mu_ (or the check-in erases after unlocking).
BugAdopt(t) ==
    /\ ioPc[t] = "hand"
    /\ SetConn(nextIo, fd[t], "entry")
    /\ nextIo' = (nextIo + 1) % IoCount
    /\ ForgetFd(t) /\ Goto(t, "accept")
    /\ UNCHANGED <<control, kernel, active, fds, expected>>

\* peerSelector_() and adopt(): the thread whose turn it is gets the connection,
\* under its mutex.
adopt(t) ==
    /\ ioPc[t] = "hand" /\ ~HoldsMutex(nextIo)
    /\ SetConn(nextIo, fd[t], "entry")
    /\ nextIo' = (nextIo + 1) % IoCount
    /\ ForgetFd(t) /\ Goto(t, "accept")
    /\ UNCHANGED <<control, kernel, active, fds, expected>>

-----------------------------------------------------------------------------
(* run(): reads.                                                           *)

\* The next ready descriptor: its Connection is moved out, a null entry stays.
CheckOut(t) ==
    /\ ioPc[t] = "reads" /\ fds[t] # {}
    /\ \E f \in fds[t] :
          /\ fds' = [fds EXCEPT ![t] = @ \ {f}]
          /\ IF conns[t][f] = "none" THEN UNCHANGED <<conns, ioPc, fd>>
             ELSE /\ SetConn(t, f, "null")
                  /\ fd' = [fd EXCEPT ![t] = f]
                  /\ Goto(t, "handle")
    /\ UNCHANGED <<control, kernel, active, nextIo, expected>>

\* onClientRequest: every path of it, a bad request line, an oversized body, an
\* unknown path and each of the endpoints, ends in writeTo(fd) on every thread.
\* The owner's entry for fd is null.
onClientRequest(t) == conns[t][fd[t]] = "null" /\ alive' = FALSE

\* handleRead, and the check-in when the connection lives.  Everything unread is
\* read.
handleRead(t) ==
    /\ ioPc[t] = "handle"
    /\ LET f == fd[t]
           got == input[sock[f]]
       IN IF got \in {"fin", "huge"}
          THEN \* closeConnection, with mu_ held: first the socket.
               CloseSocket(f) /\ Goto(t, "checkIn") /\ UNCHANGED <<alive, conns, fd>>
          ELSE /\ input' = [input EXCEPT ![sock[f]] = "nothing"]
               /\ IF got = "request" THEN onClientRequest(t) ELSE UNCHANGED alive
               /\ SetConn(t, f, "entry")
               /\ ForgetFd(t) /\ Goto(t, "reads")
               /\ UNCHANGED sock
    /\ UNCHANGED <<mainPc, acceptFd, running, listening, backlog, arrived, chunks, active,
                   nextIo, fds, expected>>

\* ... then onClose_ gives the slot back, the entry goes and mu_ is unlocked (only
\* the acceptor's adopt could see the entry, and it waits for mu_).
CheckInClosed(t) ==
    /\ ioPc[t] = "checkIn"
    /\ active' = active - 1
    /\ SetConn(t, fd[t], "none")
    /\ ForgetFd(t) /\ Goto(t, "reads")
    /\ UNCHANGED <<control, kernel, nextIo, fds, expected>>

-----------------------------------------------------------------------------
(* run(): the idle connections.                                            *)

\* After the last read, the connections whose lastActivity is more than
\* readTimeout ago: any of them, as any time may have passed.
ScanIdle(t) ==
    /\ ioPc[t] = "reads" /\ fds[t] = {}
    /\ \E late \in SUBSET Owned(t) : fds' = [fds EXCEPT ![t] = late]
    /\ Goto(t, "idle")
    /\ UNCHANGED <<control, kernel, active, nextIo, conns, fd, expected>>

\* Mutant: an idle connection is skipped, as if its entry had gone.
BugEvictIdle(t) ==
    /\ ioPc[t] = "idle"
    /\ \E f \in fds[t] : fds' = [fds EXCEPT ![t] = @ \ {f}]
    /\ UNCHANGED <<control, kernel, active, nextIo, conns, ioPc, fd, expected>>

\* The entry goes first, then the socket, then the slot.
EvictIdle(t) ==
    /\ ioPc[t] = "idle"
    /\ \E f \in fds[t] :
          /\ fds' = [fds EXCEPT ![t] = @ \ {f}]
          /\ SetConn(t, f, "none")
          /\ fd' = [fd EXCEPT ![t] = f]
          /\ Goto(t, "idleClose")
    /\ UNCHANGED <<control, kernel, active, nextIo, expected>>

CloseIdle(t) ==
    /\ ioPc[t] = "idleClose"
    /\ CloseSocket(fd[t])
    /\ ForgetFd(t) /\ Goto(t, "idleRelease")
    /\ UNCHANGED <<control, listening, backlog, arrived, chunks, active, nextIo, conns,
                   fds, expected>>

ReleaseIdle(t) ==
    /\ ioPc[t] = "idleRelease"
    /\ active' = active - 1
    /\ Goto(t, "idle")
    /\ UNCHANGED <<control, kernel, nextIo, conns, local>>

-----------------------------------------------------------------------------
(* Clients, and time.                                                      *)

connect ==
    /\ listening /\ arrived < MaxClients
    /\ arrived' = arrived + 1
    /\ backlog' = Append(backlog, arrived + 1)
    /\ UNCHANGED <<control, listening, sock, input, chunks, active, nextIo, conns, ioPc, local>>

\* What a client sends before it is accepted lies unread until after: it is sent
\* then.
SendChunk(f, chunk) ==
    /\ f \in OpenFds /\ input[sock[f]] = "nothing" /\ chunks < MaxChunks
    /\ chunks' = chunks + 1
    /\ input' = [input EXCEPT ![sock[f]] = chunk]
    /\ UNCHANGED <<control, listening, backlog, sock, arrived, active, nextIo, conns, ioPc, local>>

\* The peer closes.  The end of the stream hides what is unread: handleRead reads
\* up to it and returns.
HangUp(f) ==
    /\ f \in OpenFds /\ input[sock[f]] # "fin"
    /\ input' = [input EXCEPT ![sock[f]] = "fin"]
    /\ UNCHANGED <<control, listening, backlog, sock, arrived, chunks, active, nextIo, conns,
                   ioPc, local>>

-----------------------------------------------------------------------------
\* A new server; or one that has been up for a while and has no connection left,
\* so that it may be any thread's turn.
HttpInit ==
    /\ \/ /\ mainPc = "new" /\ listening = FALSE /\ acceptFd = FALSE /\ nextIo = 0
          /\ running = [t \in Io |-> FALSE] /\ ioPc = [t \in Io |-> "off"]
       \/ /\ mainPc = "up" /\ listening = TRUE /\ acceptFd = TRUE /\ nextIo \in Io
          /\ running = [t \in Io |-> TRUE] /\ ioPc = [t \in Io |-> "idle"]
    /\ alive = TRUE /\ active = 0 /\ backlog = <<>>
    /\ sock = [f \in Fd |-> NoClient]
    /\ input = [c \in Client |-> "nothing"]
    /\ arrived = 0 /\ chunks = 0
    /\ conns = [t \in Io |-> [f \in Fd |-> "none"]]
    /\ fds = [t \in Io |-> {}]
    /\ fd = [t \in Io |-> NoFd]
    /\ expected = [t \in Io |-> 0]

Main == listen \/ setListenFd \/ StopThread \/ join

IoStep(t) ==
    \/ Watch(t) \/ select(t)
    \/ accept(t) \/ LoadCount(t) \/ TakeSlot(t) \/ adopt(t)
    \/ CheckOut(t) \/ handleRead(t) \/ CheckInClosed(t)
    \/ ScanIdle(t) \/ EvictIdle(t) \/ CloseIdle(t) \/ ReleaseIdle(t)

HttpNext ==
    /\ alive
    /\ \/ Main \/ stop
       \/ \E t \in Io : IoStep(t)
       \/ connect
       \/ \E f \in Fd : HangUp(f)
       \/ \E f \in Fd, chunk \in Chunk : SendChunk(f, chunk)

\* Threads run and mutexes are handed on; and a thread whose loop goes round for
\* ever scans at some time when all its connections are idle, for no
\* more than MaxChunks are sent.  Nobody need connect, send, hang up or call stop.
AllIdle(t) == ScanIdle(t) /\ fds'[t] = Owned(t)

HttpFairness ==
    /\ WF_httpVars(alive /\ Main)
    /\ \A t \in Io : /\ WF_httpVars(alive /\ IoStep(t))
                     /\ SF_httpVars(alive /\ AllIdle(t))

HttpSpec == HttpInit /\ [][HttpNext]_httpVars
FairHttpSpec == HttpSpec /\ HttpFairness
-----------------------------------------------------------------------------
(* Properties.                                                             *)

\* Every variable has its type.
HttpTypeOK ==
    /\ mainPc \in {"new", "wire", "up", "stop", "join", "joined"}
    /\ alive \in BOOLEAN /\ listening \in BOOLEAN /\ acceptFd \in BOOLEAN
    /\ running \in [Io -> BOOLEAN]
    /\ active \in 0 .. MaxConnections /\ nextIo \in Io
    /\ backlog \in Seq(Client)
    /\ sock \in [Fd -> Client \cup {NoClient}]
    /\ input \in [Client -> Input]
    /\ arrived \in 0 .. MaxClients /\ chunks \in 0 .. MaxChunks
    /\ conns \in [Io -> [Fd -> {"none", "null", "entry"}]]
    /\ ioPc \in [Io -> IoAt]
    /\ fds \in [Io -> SUBSET (Fd \cup {ListenFd})]
    /\ fd \in [Io -> Fd \cup {NoFd}]
    /\ expected \in [Io -> 0 .. MaxConnections]

\* The sockets the acceptor has not taken a slot for, and the threads that have
\* closed a socket and not given its slot back.
Unslotted == {t \in Io : ioPc[t] \in {"slot", "cas"}}
Releasing == {t \in Io : ioPc[t] \in {"checkIn", "idleRelease"}}

\* No slot is lost and none is given back twice, on any of the three paths that
\* close a socket: activeConnections_ is the number of open client sockets, but
\* for the one being accepted and those whose release is under way.
SlotAccounting ==
    active + Cardinality(Unslotted) = Cardinality(OpenFds) + Cardinality(Releasing)

\* The threads responsible for a descriptor: it is in their conns_, or they have
\* it in hand between two of its containers.
HasInHand(t, f) == fd[t] = f /\ ~HoldsMutex(t)
Keepers(f) == {t \in Io : conns[t][f] = "entry" \/ HasInHand(t, f)}

\* Although numbers are used again while the thread that closed them is still
\* cleaning up, an open client socket always has exactly one thread looking after
\* it, and a thread looks after no socket that is closed (IoThread::run's check-out
\* and check-in, adopt, closeConnection).
OneKeeper ==
    \A f \in Fd : Cardinality(Keepers(f)) = IF f \in OpenFds THEN 1 ELSE 0

ServerUp == alive /\ mainPc \in {"wire", "up"}

\* Whoever waits to be accepted is accepted or refused, also while every slot is
\* taken: the acceptor is never stuck behind a peer (IoThread::run's accept loop,
\* setListenFd).  The clients are finitely many and connect once, so the queue
\* empties.
PendingIsTaken == []<>(backlog = <<>> \/ ~ServerUp)

\* Every connection ends and its slot comes back: a client that falls silent, as
\* each does after its last chunk, is found by the idle scan of the thread that
\* owns its socket (the end of IoThread::run's loop).
ConnectionsEnd == []<>((OpenFds = {} /\ active = 0) \/ ~ServerUp)

\* stop() followed by join() ends: every thread leaves its loop, in whatever
\* phase of it, and through whichever exit (HttpServer::stop, join, IoThread::run).
StopEnds == (mainPc \in {"stop", "join"}) ~> (mainPc = "joined" \/ ~alive)
=============================================================================
