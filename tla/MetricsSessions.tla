-------------------------- MODULE MetricsSessions --------------------------
(***************************************************************************)
(* Metrics of a worker process (src/metrics.cpp): a thread that waits in    *)
(* epoll_wait for connections to a unix socket and writes each of them one  *)
(* scrape; and the destructor, which takes the descriptors away from that   *)
(* thread and then waits for it.  The two threads share the map of sessions *)
(* and the process's table of descriptors without a mutex.                  *)
(*                                                                          *)
(* A session's id is not reused and stands for its client here; descriptors *)
(* are reused, the lowest that is free first.  The client connects, reads   *)
(* to the end of file, and may leave at any moment.                         *)
(***************************************************************************)
EXTENDS Integers, Sequences, FiniteSets

CONSTANTS Clients,   \* connections, in the order nobody knows
          MaxFds,    \* descriptors the process may have, the first two included
          Answer,    \* length of a scrape
          Room       \* what a socket takes in before its client reads

ASSUME SessionsOK ==
  /\ MaxFds \in Nat /\ MaxFds >= 2 /\ Answer \in Nat \ {0} /\ Room \in Nat \ {0}
  /\ {"free", "epoll", "listen"} \cap Clients = {}

VARIABLES metrics,    \* the object: none, serving, closing, joining, gone
          limit, fd,  \* the descriptors: what each stands for
          interest,   \* client sockets in the epoll set
          sessions,   \* _sessions: client -> [fd, left]
          visited,    \* sessions that the destructor has come past
          lpc, batch, cur,    \* the thread, its events, the session it writes
          backlog, conn,      \* connections not yet accepted; the clients
          unread, sent,       \* what each client has not read; what it was sent, while it stays
          over        \* how the process ended, "no" as long as it has not

serverVars  == <<limit, fd, interest, sessions>>
threadVars  == <<lpc, batch, cur>>
clientVars  == <<backlog, conn, unread, sent>>
metricsVars == <<metrics, serverVars, visited, threadVars, clientVars, over>>

EpollFd  == 1
ListenFd == 2

MetricsInit ==
  /\ metrics = "none" /\ limit \in 3..MaxFds /\ fd = [f \in 1..limit |-> "free"]
  /\ interest = {} /\ sessions = [c \in {} |-> 0] /\ visited = {}
  /\ lpc = "none" /\ batch = {} /\ cur = "none"
  /\ backlog = <<>> /\ conn = [c \in Clients |-> "idle"]
  /\ unread = [c \in Clients |-> 0] /\ sent = [c \in Clients |-> 0]
  /\ over = "no"

Free      == {f \in 1..limit : fd[f] = "free"}
Lowest(f) == \A g \in Free : f <= g

Connected(c) == \E f \in 1..limit : fd[f] = c

\* close(f), of a descriptor that may have been closed before.
CloseFd(f) ==
  /\ fd' = [fd EXCEPT ![f] = "free"]
  /\ interest' = interest \ {fd[f]}

\* The constructor: both descriptors, the path, the thread.
Construct ==
  /\ metrics = "none" /\ metrics' = "serving"
  /\ fd' = [fd EXCEPT ![EpollFd] = "epoll", ![ListenFd] = "listen"]
  /\ lpc' = "top"
  /\ UNCHANGED <<limit, interest, sessions, visited, batch, cur, clientVars, over>>

-----------------------------------------------------------------------------
(* The clients: scrapes of the proxy.                                       *)

\* The listening descriptor is never closed: until the path is removed a client
\* gets through even while the destructor runs.
Connect(c) ==
  /\ over = "no" /\ metrics \in {"serving", "closing", "joining"} /\ conn[c] = "idle"
  /\ conn' = [conn EXCEPT ![c] = "queued"]
  /\ backlog' = Append(backlog, c)
  /\ UNCHANGED <<metrics, serverVars, visited, threadVars, unread, sent, over>>

Read(c) ==
  /\ over = "no" /\ conn[c] = "open" /\ unread[c] > 0
  /\ unread' = [unread EXCEPT ![c] = @ - 1]
  /\ UNCHANGED <<metrics, serverVars, visited, threadVars, backlog, conn, sent, over>>

\* The client closes its end: at the end of the file, or when its time is over.
Leave(c) ==
  /\ over = "no" /\ conn[c] \in {"queued", "open"}
  /\ conn' = [conn EXCEPT ![c] = "left"]
  /\ sent' = [sent EXCEPT ![c] = 0]
  /\ UNCHANGED <<metrics, serverVars, visited, threadVars, backlog, unread, over>>

Client == \E c \in Clients : Connect(c) \/ Read(c) \/ Leave(c)

\* A socket whose client has left with unread data reports an error.
Broken(c) == conn[c] = "left" /\ unread[c] > 0

-----------------------------------------------------------------------------
(* The listening thread.                                                    *)

Event(c) == IF Broken(c) THEN "error" ELSE "out"

\* Mutant: the socket is waited for to be readable, which it is when the client
\* has left.
WritableLeft(c) == conn[c] = "left"

\* EPOLLRDHUP is tested but not asked for: a client that has left is writable.
Writable(c) == conn[c] = "left" \/ unread[c] < Room

Ready ==
  {[who |-> c, what |-> Event(c)] : c \in {d \in interest : Writable(d)}}
    \cup (IF backlog = <<>> THEN {} ELSE {[who |-> "listen", what |-> "in"]})

\* Changing the map while the destructor iterates over it is a data race: it may
\* pass, or hit memory that is no longer a session.
Races == IF metrics = "closing" THEN over' \in {"no", "crash"} ELSE UNCHANGED over

\* epoll_wait(): EBADF, or EINVAL when the descriptor is by now another's.
EnterWait ==
  /\ lpc = "top"
  /\ lpc' = IF fd[EpollFd] = "epoll" THEN "wait" ELSE "over"
  /\ UNCHANGED <<metrics, serverVars, visited, batch, cur, clientVars, over>>

\* Mutant: the wait has no limit.
WaitForEvents ==
  /\ lpc = "wait" /\ Ready # {}
  /\ batch' = Ready /\ lpc' = "next"
  /\ UNCHANGED <<metrics, serverVars, visited, cur, clientVars, over>>

\* It returns what is ready, or nothing after a second.  Closing the descriptor
\* does not wake a thread that is inside.
Wait ==
  /\ lpc = "wait"
  /\ batch' = Ready
  /\ lpc' = IF Ready = {} THEN "top" ELSE "next"
  /\ UNCHANGED <<metrics, serverVars, visited, cur, clientVars, over>>

\* EINTR is an error like any other.
Interrupted ==
  /\ lpc = "wait" /\ lpc' = "over"
  /\ UNCHANGED <<metrics, serverVars, visited, batch, cur, clientVars, over>>

\* Mutant: the descriptor stays open.
RemoveSessionForgets(c) ==
  /\ sessions' = [d \in DOMAIN sessions \ {c} |-> sessions[d]]
  /\ UNCHANGED <<fd, interest>>
  /\ Races

RemoveSession(c) ==
  /\ CloseFd(sessions[c].fd)
  /\ sessions' = [d \in DOMAIN sessions \ {c} |-> sessions[d]]
  /\ Races

\* The next event, in whatever order the kernel lists them.
Handle(e) ==
  /\ batch' = batch \ {e}
  /\ \/ /\ e.what = "in" /\ lpc' = "accept"
        /\ UNCHANGED <<fd, interest, sessions, cur, over>>
     \/ /\ e.what = "out" /\ lpc' = "write" /\ cur' = e.who
        /\ UNCHANGED <<fd, interest, sessions, over>>
     \/ /\ e.what = "error" /\ RemoveSession(e.who)
        /\ UNCHANGED <<lpc, cur>>
  /\ UNCHANGED <<metrics, limit, visited, clientVars>>

NextEvent ==
  /\ lpc = "next"
  /\ \/ \E e \in batch : Handle(e)
     \/ /\ batch = {} /\ lpc' = "top"
        /\ UNCHANGED <<metrics, serverVars, visited, batch, cur, clientVars, over>>

\* accept() of the first in the queue, and createSession().  Out of descriptors,
\* or when the epoll descriptor has gone, an exception leaves the thread.
AcceptSession ==
  /\ lpc = "accept" /\ backlog # <<>>
  /\ \E f \in Free :
       /\ Lowest(f)
       /\ LET c == Head(backlog)
          IN /\ backlog' = Tail(backlog)
             /\ conn' = [conn EXCEPT ![c] = IF @ = "queued" THEN "open" ELSE @]
             /\ IF fd[EpollFd] = "epoll"
                  THEN /\ fd' = [fd EXCEPT ![f] = c]
                       /\ interest' = interest \cup {c}
                       /\ sessions' = [d \in DOMAIN sessions \cup {c} |->
                                         IF d = c THEN [fd |-> f, left |-> Answer] ELSE sessions[d]]
                       /\ Races
                  ELSE over' = "abort" /\ UNCHANGED <<fd, interest, sessions>>
  /\ UNCHANGED <<metrics, limit, visited, threadVars, unread, sent>>

AcceptFails ==
  /\ lpc = "accept" /\ backlog # <<>> /\ Free = {}
  /\ over' = "abort"
  /\ UNCHANGED <<metrics, serverVars, visited, threadVars, clientVars>>

\* EAGAIN: the queue is empty.
AcceptDone ==
  /\ lpc = "accept" /\ backlog = <<>>
  /\ lpc' = "next"
  /\ UNCHANGED <<metrics, serverVars, visited, batch, cur, clientVars, over>>

\* One write() of the session cur: some of what is left to the socket that its
\* descriptor stands for, no more than there is room for.
WriteSome ==
  /\ lpc = "write" /\ sessions[cur].left > 0
  /\ \E d \in Clients, n \in 1..sessions[cur].left :
       /\ fd[sessions[cur].fd] = d /\ conn[d] # "left"
       /\ unread[d] + n <= Room
       /\ unread' = [unread EXCEPT ![d] = @ + n]
       /\ sent' = [sent EXCEPT ![d] = @ + n]
       /\ sessions' = [sessions EXCEPT ![cur].left = @ - n]
  /\ UNCHANGED <<metrics, limit, fd, interest, visited, threadVars, backlog, conn, over>>

\* Mutant: a full socket is taken for the end of the answer.
WriteBlocksRemoves ==
  /\ lpc = "write" /\ sessions[cur].left > 0
  /\ \E d \in Clients : fd[sessions[cur].fd] = d /\ conn[d] # "left" /\ unread[d] >= Room
  /\ lpc' = "next" /\ RemoveSession(cur)
  /\ UNCHANGED <<metrics, limit, visited, batch, cur, clientVars>>

\* EAGAIN: the session waits for the next event.
WriteBlocks ==
  /\ lpc = "write" /\ sessions[cur].left > 0
  /\ \E d \in Clients : fd[sessions[cur].fd] = d /\ conn[d] # "left" /\ unread[d] >= Room
  /\ lpc' = "next"
  /\ UNCHANGED <<metrics, serverVars, visited, batch, cur, clientVars, over>>

\* The client has left: nobody ignores SIGPIPE, which ends the process.
WriteToNobody ==
  /\ lpc = "write" /\ sessions[cur].left > 0
  /\ \E d \in Clients : fd[sessions[cur].fd] = d /\ conn[d] = "left"
  /\ over' = "pipe"
  /\ UNCHANGED <<metrics, serverVars, visited, threadVars, clientVars>>

\* Everything is written, or write() fails: with EBADF for a descriptor that the
\* destructor has closed, or with ECONNRESET, if the kernel reports that first.
WriteEnds ==
  /\ lpc = "write"
  /\ \/ sessions[cur].left = 0
     \/ fd[sessions[cur].fd] = "free"
     \/ \E d \in Clients : fd[sessions[cur].fd] = d /\ Broken(d)
  /\ lpc' = "next" /\ RemoveSession(cur)
  /\ UNCHANGED <<metrics, limit, visited, batch, cur, clientVars>>

Listener ==
  /\ over = "no"
  /\ \/ EnterWait \/ Wait \/ NextEvent
     \/ AcceptSession \/ AcceptFails \/ AcceptDone
     \/ WriteSome \/ WriteBlocks \/ WriteToNobody \/ WriteEnds

-----------------------------------------------------------------------------
(* The destructor, on the main thread.                                      *)

BeginClose ==
  /\ metrics = "serving" /\ metrics' = "closing"
  /\ UNCHANGED <<serverVars, visited, threadVars, clientVars, over>>

CloseNext ==
  /\ metrics = "closing"
  /\ \E c \in DOMAIN sessions \ visited :
       CloseFd(sessions[c].fd) /\ visited' = visited \cup {c}
  /\ UNCHANGED <<metrics, limit, sessions, threadVars, clientVars, over>>

CloseEpoll ==
  /\ metrics = "closing" /\ DOMAIN sessions \subseteq visited
  /\ fd' = [fd EXCEPT ![EpollFd] = "free"]
  /\ metrics' = "joining"
  /\ UNCHANGED <<limit, interest, sessions, visited, threadVars, clientVars, over>>

\* The thread has ended; the path is removed.
Joined ==
  /\ metrics = "joining" /\ lpc = "over"
  /\ metrics' = "gone"
  /\ UNCHANGED <<serverVars, visited, threadVars, clientVars, over>>

Destruct == CloseNext \/ CloseEpoll \/ Joined

-----------------------------------------------------------------------------
(* Properties.                                                              *)

\* A client that reads to the end of the file has the whole scrape, however
\* slowly it reads and whatever the others do, until the destructor runs.
AnswerWhole ==
  metrics = "serving" =>
    \A c \in Clients : conn[c] = "open" /\ ~Connected(c) => sent[c] = Answer

\* Every open client socket belongs to exactly one session, which writes to it:
\* no descriptor is lost however a connection ends.  Only the destructor breaks
\* the tie.
FdsOwned ==
  metrics = "serving" =>
    /\ \A c \in DOMAIN sessions : fd[sessions[c].fd] = c
    /\ \A f \in 1..limit : fd[f] \in Clients => fd[f] \in DOMAIN sessions

\* A client that connects and stays gets the end of the file, unless the worker
\* itself is about to end.
ScrapesAnswered ==
  \A c \in Clients :
    conn[c] = "queued" ~> \/ conn[c] = "left" \/ over # "no" \/ metrics # "serving"
                          \/ conn[c] = "open" /\ ~Connected(c)

\* The types of the clients' state, and of the descriptors.
ClientsTypeOK ==
  /\ conn \in [Clients -> {"idle", "queued", "open", "left"}]
  /\ sent \in [Clients -> Nat] /\ unread \in [Clients -> Nat]
  /\ backlog \in Seq(Clients)

FdsTypeOK ==
  /\ limit \in Nat /\ limit >= 3
  /\ fd \in [1..limit -> Clients \cup {"free", "epoll", "listen"}]
  /\ sessions \in [DOMAIN sessions -> [fd : 1..limit, left : 0..Answer]]
=============================================================================
