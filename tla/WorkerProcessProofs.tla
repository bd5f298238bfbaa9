------------------------ MODULE WorkerProcessProofs ------------------------
(***************************************************************************)
(* Proofs about a worker process: its metrics, for any number of clients    *)
(* and descriptors, a scrape and a socket of any size, and whatever the     *)
(* main thread does meanwhile; and the native handles of its main thread.   *)
(***************************************************************************)
EXTENDS WorkerProcess, FiniteSetTheorems, TLAPS

-----------------------------------------------------------------------------
(* The inductive invariant of the thread and its clients, until the         *)
(* destructor runs.                                                         *)

\* Before the constructor.
Fresh ==
  /\ ClientsTypeOK /\ FdsTypeOK
  /\ \A f \in 1..limit : fd[f] = "free"
  /\ DOMAIN sessions = {} /\ interest = {} /\ batch = {} /\ backlog = <<>> /\ lpc = "none"
  /\ \A c \in Clients : conn[c] = "idle" /\ sent[c] = 0

\* Sessions and client sockets are one to one.
SessionsMatch ==
  /\ fd[EpollFd] = "epoll" /\ DOMAIN sessions \subseteq Clients
  /\ \A c \in DOMAIN sessions : fd[sessions[c].fd] = c
  /\ \A f \in 1..limit : fd[f] \in Clients =>
        fd[f] \in DOMAIN sessions /\ sessions[fd[f]].fd = f
  /\ interest \subseteq DOMAIN sessions

\* An event that the thread still has to handle is that of a session, and the
\* only one; errors are those of clients that have left.
EventsMatch ==
  /\ \A e \in batch : e.what # "in" =>
        /\ e.who \in DOMAIN sessions
        /\ e.what = "error" => conn[e.who] = "left"
        /\ \A d \in batch : d.what # "in" /\ d.who = e.who => d = e
  /\ lpc = "write" => /\ cur \in DOMAIN sessions
                      /\ \A e \in batch : e.what # "in" => e.who # cur

\* Who waits to be accepted does so once, and is nobody's session yet.
BacklogNew ==
  /\ \A i \in 1..Len(backlog) :
        conn[backlog[i]] \in {"queued", "left"} /\ backlog[i] \notin DOMAIN sessions
  /\ \A i, j \in 1..Len(backlog) : backlog[i] = backlog[j] => i = j
  /\ \A c \in Clients : conn[c] \in {"idle", "queued"} => c \notin DOMAIN sessions /\ sent[c] = 0

\* What was sent and what is left make up the answer.
AnswersAdd ==
  /\ \A c \in DOMAIN sessions : conn[c] = "open" => sent[c] + sessions[c].left = Answer
  /\ \A c \in Clients \ DOMAIN sessions : conn[c] = "open" => sent[c] = Answer

ServingInv ==
  ClientsTypeOK /\ FdsTypeOK /\ SessionsMatch /\ EventsMatch /\ BacklogNew /\ AnswersAdd

SessionsInv == (metrics = "none" => Fresh) /\ (metrics = "serving" => ServingInv)

-----------------------------------------------------------------------------
(* That of the native handles.                                              *)

RunSteps ==
  {"config", "mxl", "fabrics", "metrics", "reader", "writer", "initiator", "target", "info",
   "addTarget", "writeInfo", "connect", "rt", "move", "transfer"}

\* The handles that a step opens for an object.
Opens(step) ==
  IF step \in {"mxl", "fabrics", "metrics", "reader", "writer", "info", "rt"} THEN {step}
  ELSE IF step = "initiator" THEN {"endpoint"}
  ELSE IF step = "target" THEN {"endpoint", "info"} ELSE {}

\* What is left of the run opens nothing that an object has or that it opens
\* twice, and each handle after what it is made from.
PlanOrdered(plan, has) ==
  \A i \in DOMAIN plan :
    /\ Opens(plan[i]) \cap has = {}
    /\ \A j \in DOMAIN plan : j # i => Opens(plan[i]) \cap Opens(plan[j]) = {}
    /\ \A h \in Opens(plan[i]) :
         Uses(h) \in has \cup {"nothing"} \/ \E j \in DOMAIN plan : j < i /\ Uses(h) \in Opens(plan[j])

\* Each object has a handle of its own, and is younger than what it refers to.
StackOrdered ==
  /\ stack \in Seq(Objects)
  /\ \A i, j \in DOMAIN stack : stack[i] = stack[j] /\ stack[i] # "empty" => i = j
  /\ \A i \in DOMAIN stack :
       Uses(stack[i]) = "nothing" \/ \E j \in DOMAIN stack : j < i /\ stack[j] = Uses(stack[i])

HandlesInv ==
  /\ todo \in Seq(RunSteps) /\ PlanOrdered(todo, ToSet(stack))
  /\ \A i \in DOMAIN todo : todo[i] = "config" => i = 1 /\ stack = <<>>
  /\ StackOrdered
  /\ ToSet(stack) \cap Native \subseteq native /\ native \subseteq ToSet(stack) \cup {"lost"}

-----------------------------------------------------------------------------
(* The thread of the metrics.                                               *)

\* What the invariant says stays as it is when none of its variables changes.
LEMMA SessionsStutter ==
  ASSUME SessionsInv, UNCHANGED <<metrics, serverVars, threadVars, clientVars>>
  PROVE  SessionsInv'
<1>1. Fresh => Fresh'
  BY DEF Fresh, ClientsTypeOK, FdsTypeOK, serverVars, threadVars, clientVars
<1>2. ServingInv => ServingInv'
  BY DEF ServingInv, ClientsTypeOK, FdsTypeOK, SessionsMatch, EventsMatch, BacklogNew,
     AnswersAdd, serverVars, threadVars, clientVars
<1> QED
  BY <1>1, <1>2 DEF SessionsInv

LEMMA SessionsInit == Init => SessionsInv
BY SessionsOK DEF Init, MetricsInit, SessionsInv, Fresh, ClientsTypeOK, FdsTypeOK

LEMMA ConstructServes ==
  ASSUME Fresh, Construct PROVE ServingInv'
<1>1. ClientsTypeOK' /\ FdsTypeOK'
  BY DEF Fresh, Construct, ClientsTypeOK, FdsTypeOK, clientVars, EpollFd, ListenFd
<1>2. SessionsMatch'
  BY SessionsOK DEF Fresh, Construct, FdsTypeOK, SessionsMatch, EpollFd, ListenFd
<1>3. EventsMatch' /\ BacklogNew' /\ AnswersAdd'
  BY DEF Fresh, Construct, EventsMatch, BacklogNew, AnswersAdd, clientVars
<1> QED
  BY <1>1, <1>2, <1>3 DEF ServingInv

-----------------------------------------------------------------------------
(* The clients.                                                             *)

LEMMA ConnectKeeps ==
  ASSUME ServingInv, NEW c \in Clients, Connect(c) PROVE ServingInv'
<1> USE DEF ServingInv
<1>1. /\ backlog' = Append(backlog, c) /\ conn[c] = "idle"
      /\ conn' = [conn EXCEPT ![c] = "queued"] /\ conn \in [Clients -> {"idle", "queued", "open", "left"}]
      /\ UNCHANGED <<limit, fd, interest, sessions, lpc, batch, cur, unread, sent>>
  BY DEF Connect, ClientsTypeOK, serverVars, threadVars
<1>2. ClientsTypeOK' /\ FdsTypeOK'
  BY <1>1 DEF ClientsTypeOK, FdsTypeOK
<1>3. SessionsMatch'
  BY <1>1 DEF SessionsMatch
<1>4. EventsMatch'
  BY <1>1 DEF EventsMatch, SessionsMatch
<1>5. BacklogNew'
  <2>1. /\ Len(backlog') = Len(backlog) + 1 /\ backlog'[Len(backlog) + 1] = c
        /\ \A i \in 1..Len(backlog) : backlog'[i] = backlog[i] /\ backlog[i] \in Clients /\ backlog[i] # c
        /\ Len(backlog) \in Nat
    <3>1. backlog \in Seq(Clients) /\ backlog' = Append(backlog, c)
      BY <1>1 DEF ClientsTypeOK
    <3>2. \A i \in 1..Len(backlog) : backlog[i] \in Clients /\ backlog[i] # c
      BY <1>1, <3>1 DEF BacklogNew
    <3> QED
      BY <3>1, <3>2
  <2>2. \A i \in 1..Len(backlog') :
          conn'[backlog'[i]] \in {"queued", "left"} /\ backlog'[i] \notin DOMAIN sessions'
    BY <1>1, <2>1 DEF BacklogNew
  <2>3. \A i, j \in 1..Len(backlog') : backlog'[i] = backlog'[j] => i = j
    BY <2>1 DEF BacklogNew
  <2>4. \A d \in Clients : conn'[d] \in {"idle", "queued"} => d \notin DOMAIN sessions' /\ sent'[d] = 0
    BY <1>1 DEF BacklogNew
  <2> QED
    BY <2>2, <2>3, <2>4 DEF BacklogNew
<1>6. AnswersAdd'
  BY <1>1 DEF AnswersAdd, SessionsMatch
<1> QED
  BY <1>2, <1>3, <1>4, <1>5, <1>6

LEMMA ReadKeeps ==
  ASSUME ServingInv, NEW c \in Clients, Read(c) PROVE ServingInv'
<1> USE DEF ServingInv, Read, serverVars, threadVars
<1>1. ClientsTypeOK' /\ FdsTypeOK'
  BY DEF ClientsTypeOK, FdsTypeOK
<1>2. SessionsMatch' /\ BacklogNew' /\ AnswersAdd'
  BY DEF SessionsMatch, BacklogNew, AnswersAdd
<1>3. EventsMatch'
  BY DEF EventsMatch
<1> QED
  BY <1>1, <1>2, <1>3

LEMMA LeaveKeeps ==
  ASSUME ServingInv, NEW c \in Clients, Leave(c) PROVE ServingInv'
<1> USE DEF ServingInv
<1>1. /\ conn' = [conn EXCEPT ![c] = "left"] /\ sent' = [sent EXCEPT ![c] = 0]
      /\ conn \in [Clients -> {"idle", "queued", "open", "left"}] /\ sent \in [Clients -> Nat]
      /\ UNCHANGED <<limit, fd, interest, sessions, lpc, batch, cur, unread, backlog>>
  BY DEF Leave, ClientsTypeOK, serverVars, threadVars
<1>2. ClientsTypeOK' /\ FdsTypeOK'
  BY <1>1 DEF ClientsTypeOK, FdsTypeOK
<1>3. SessionsMatch'
  BY <1>1 DEF SessionsMatch
<1>4. EventsMatch'
  BY <1>1 DEF EventsMatch, SessionsMatch
<1>5. BacklogNew'
  <2>1. \A i \in 1..Len(backlog) : backlog[i] \in Clients
    BY DEF ClientsTypeOK
  <2> QED
    BY <1>1, <2>1 DEF BacklogNew
<1>6. AnswersAdd'
  BY <1>1 DEF AnswersAdd, SessionsMatch
<1> QED
  BY <1>2, <1>3, <1>4, <1>5, <1>6

-----------------------------------------------------------------------------
(* The listening thread.                                                    *)

\* Steps that only move the thread.
LEMMA MoveKeeps ==
  ASSUME ServingInv, lpc' # "write" \/ (lpc' = lpc /\ UNCHANGED cur), UNCHANGED <<serverVars, batch, clientVars>>
  PROVE  ServingInv'
<1> USE DEF ServingInv, serverVars, clientVars
<1>1. ClientsTypeOK' /\ FdsTypeOK'
  BY DEF ClientsTypeOK, FdsTypeOK
<1>2. SessionsMatch' /\ BacklogNew' /\ AnswersAdd'
  BY DEF SessionsMatch, BacklogNew, AnswersAdd
<1>3. EventsMatch'
  BY DEF EventsMatch
<1> QED
  BY <1>1, <1>2, <1>3

LEMMA WaitKeeps ==
  ASSUME ServingInv, Wait PROVE ServingInv'
<1> USE DEF ServingInv, Wait, serverVars, clientVars
<1>1. ClientsTypeOK' /\ FdsTypeOK'
  BY DEF ClientsTypeOK, FdsTypeOK
<1>2. SessionsMatch' /\ BacklogNew' /\ AnswersAdd'
  BY DEF SessionsMatch, BacklogNew, AnswersAdd
<1>3. EventsMatch'
  <2>1. \A e \in Ready : e.what # "in" => e.who \in interest /\ e.what = Event(e.who)
    BY DEF Ready
  <2>2. \A d, e \in Ready : e.what # "in" /\ d.what # "in" /\ d.who = e.who => d = e
    BY DEF Ready
  <2>3. \A e \in Ready : e.what = "error" => conn[e.who] = "left"
    BY <2>1 DEF Event, Broken
  <2> QED
    BY <2>1, <2>2, <2>3 DEF EventsMatch, SessionsMatch
<1> QED
  BY <1>1, <1>2, <1>3

\* removeSession(): the session, its descriptor and its place in the epoll set go
\* together, and the client has what it was to get, or has left.
LEMMA RemoveKeeps ==
  ASSUME ServingInv, NEW c \in DOMAIN sessions, RemoveSession(c),
         UNCHANGED <<limit, clientVars>>
  PROVE  ClientsTypeOK' /\ FdsTypeOK' /\ SessionsMatch' /\ BacklogNew'
         /\ DOMAIN sessions' = DOMAIN sessions \ {c}
         /\ \A d \in DOMAIN sessions' : sessions'[d] = sessions[d]
<1> USE DEF ServingInv
<1> DEFINE f == sessions[c].fd
<1>1. f \in 1..limit /\ fd[f] = c /\ c \in Clients
  BY DEF FdsTypeOK, SessionsMatch
<1>2. fd' = [fd EXCEPT ![f] = "free"] /\ interest' = interest \ {c}
  BY <1>1 DEF RemoveSession, CloseFd
<1>3. DOMAIN sessions' = DOMAIN sessions \ {c} /\ \A d \in DOMAIN sessions' : sessions'[d] = sessions[d]
  BY DEF RemoveSession
<1>4. ClientsTypeOK'
  BY DEF ClientsTypeOK, clientVars
<1>5. FdsTypeOK'
  <2>1. sessions' = [d \in DOMAIN sessions \ {c} |-> sessions[d]]
    BY DEF RemoveSession
  <2>2. sessions' \in [DOMAIN sessions' -> [fd : 1..limit', left : 0..Answer]]
    BY <2>1 DEF FdsTypeOK
  <2>3. fd' \in [1..limit' -> Clients \cup {"free", "epoll", "listen"}]
    BY <1>2 DEF FdsTypeOK
  <2> QED
    BY <2>2, <2>3 DEF FdsTypeOK
<1>6. SessionsMatch'
  <2> HIDE DEF f
  <2>0. fd \in [1..limit -> Clients \cup {"free", "epoll", "listen"}] /\ limit' = limit /\ EpollFd \in 1..limit
        /\ \A d \in DOMAIN sessions : sessions[d].fd \in 1..limit
    BY DEF FdsTypeOK, EpollFd
  <2>1. f # EpollFd
    BY <1>1, SessionsOK DEF SessionsMatch
  <2>2. fd'[EpollFd] = "epoll" /\ DOMAIN sessions' \subseteq Clients
    BY <1>2, <1>3, <2>0, <2>1 DEF SessionsMatch
  <2>3. \A d \in DOMAIN sessions' : fd'[sessions'[d].fd] = d
    BY <1>1, <1>2, <1>3, <2>0 DEF SessionsMatch
  <2>4. \A g \in 1..limit' : fd'[g] \in Clients => fd'[g] \in DOMAIN sessions' /\ sessions'[fd'[g]].fd = g
    <3> SUFFICES ASSUME NEW g \in 1..limit, fd'[g] \in Clients
                 PROVE  fd'[g] \in DOMAIN sessions' /\ sessions'[fd'[g]].fd = g
      BY <2>0
    <3>1. g # f /\ fd'[g] = fd[g]
      BY <1>1, <1>2, <2>0, SessionsOK
    <3>2. fd[g] # c
      BY <3>1 DEF SessionsMatch, f
    <3> QED
      BY <1>3, <3>1, <3>2 DEF SessionsMatch
  <2>5. interest' \subseteq DOMAIN sessions'
    BY <1>2, <1>3 DEF SessionsMatch
  <2> QED
    BY <2>2, <2>3, <2>4, <2>5 DEF SessionsMatch
<1>7. BacklogNew'
  BY <1>3 DEF BacklogNew, clientVars
<1> QED
  BY <1>3, <1>4, <1>5, <1>6, <1>7

\* Whose session ends has the whole answer, or has left.
LEMMA RemoveAnswers ==
  ASSUME ServingInv, NEW c \in DOMAIN sessions, RemoveSession(c), UNCHANGED <<limit, clientVars>>,
         conn[c] = "open" => sessions[c].left = 0
  PROVE  AnswersAdd'
<1>1. conn[c] = "open" => sent[c] = Answer
  BY SessionsOK DEF ServingInv, ClientsTypeOK, SessionsMatch, AnswersAdd
<1>2. DOMAIN sessions' = DOMAIN sessions \ {c} /\ \A d \in DOMAIN sessions' : sessions'[d] = sessions[d]
  BY RemoveKeeps
<1> QED
  BY <1>1, <1>2 DEF ServingInv, AnswersAdd, clientVars

LEMMA HandleKeeps ==
  ASSUME ServingInv, lpc = "next", NEW e \in batch, Handle(e) PROVE ServingInv'
<1>1. CASE e.what \in {"in", "out"} /\ UNCHANGED <<fd, interest, sessions>>
  <2> USE DEF ServingInv
  <2>1. /\ batch' = batch \ {e} /\ UNCHANGED <<limit, fd, interest, sessions, clientVars>>
        /\ \/ lpc' = "accept"
           \/ e.what = "out" /\ lpc' = "write" /\ cur' = e.who
    BY <1>1 DEF Handle
  <2>2. ClientsTypeOK' /\ FdsTypeOK'
    BY <2>1 DEF ClientsTypeOK, FdsTypeOK, clientVars
  <2>3. SessionsMatch' /\ BacklogNew' /\ AnswersAdd'
    BY <2>1 DEF SessionsMatch, BacklogNew, AnswersAdd, clientVars
  <2>4. EventsMatch'
    BY <2>1 DEF EventsMatch, clientVars
  <2> QED
    BY <2>2, <2>3, <2>4
<1>2. CASE e.what = "error" /\ RemoveSession(e.who) /\ UNCHANGED <<lpc, cur>>
  <2>1. e.who \in DOMAIN sessions /\ conn[e.who] = "left"
    BY <1>2 DEF ServingInv, EventsMatch
  <2>2. UNCHANGED <<limit, clientVars>> /\ batch' = batch \ {e}
    BY DEF Handle
  <2>3. /\ ClientsTypeOK' /\ FdsTypeOK' /\ SessionsMatch' /\ BacklogNew'
        /\ DOMAIN sessions' = DOMAIN sessions \ {e.who}
    BY <1>2, <2>1, <2>2, RemoveKeeps
  <2>4. AnswersAdd'
    BY <1>2, <2>1, <2>2, RemoveAnswers
  <2>5. EventsMatch'
    <3>1. \A d \in batch' : d.what # "in" => d.who # e.who
      BY <1>2, <2>2 DEF ServingInv, EventsMatch
    <3> QED
      BY <1>2, <2>2, <2>3, <3>1 DEF ServingInv, EventsMatch, clientVars
  <2> QED
    BY <2>3, <2>4, <2>5 DEF ServingInv
<1> QED
  BY <1>1, <1>2 DEF Handle

LEMMA WriteEndsKeeps ==
  ASSUME ServingInv, WriteEnds PROVE ServingInv'
<1>1. /\ cur \in DOMAIN sessions /\ RemoveSession(cur)
      /\ UNCHANGED <<limit, batch, cur, clientVars>> /\ lpc' = "next"
      /\ \A e \in batch : e.what # "in" => e.who # cur
  BY DEF WriteEnds, ServingInv, EventsMatch
<1>2. /\ ClientsTypeOK' /\ FdsTypeOK' /\ SessionsMatch' /\ BacklogNew'
      /\ DOMAIN sessions' = DOMAIN sessions \ {cur}
  BY <1>1, RemoveKeeps
<1>3. conn[cur] = "open" => sessions[cur].left = 0
  BY <1>1, SessionsOK DEF WriteEnds, ServingInv, SessionsMatch, Broken
<1>4. AnswersAdd'
  BY <1>1, <1>3, RemoveAnswers
<1>5. EventsMatch'
  BY <1>1, <1>2 DEF ServingInv, EventsMatch, clientVars
<1> QED
  BY <1>2, <1>4, <1>5 DEF ServingInv

\* The descriptor is still that of the session's own client.
LEMMA WriteSomeKeeps ==
  ASSUME ServingInv, WriteSome PROVE ServingInv'
<1>1. cur \in DOMAIN sessions /\ cur \in Clients /\ fd[sessions[cur].fd] = cur
  BY DEF WriteSome, ServingInv, EventsMatch, SessionsMatch
<1>2. sessions \in [DOMAIN sessions -> [fd : 1..limit, left : 0..Answer]]
  BY DEF ServingInv, FdsTypeOK
<1>3. PICK n \in 1..sessions[cur].left :
        /\ conn[cur] # "left"
        /\ unread' = [unread EXCEPT ![cur] = @ + n]
        /\ sent' = [sent EXCEPT ![cur] = @ + n]
        /\ sessions' = [sessions EXCEPT ![cur].left = @ - n]
  BY <1>1 DEF WriteSome
<1>4. UNCHANGED <<limit, fd, interest, lpc, batch, cur, backlog, conn>>
  BY DEF WriteSome, threadVars
<1>5. sessions[cur].left \in 0..Answer /\ sessions[cur].fd \in 1..limit
      /\ n \in Nat /\ sessions[cur].left - n \in 0..Answer
  BY <1>1, <1>2, SessionsOK
<1>6. /\ DOMAIN sessions' = DOMAIN sessions
      /\ \A d \in DOMAIN sessions : sessions'[d].fd = sessions[d].fd
      /\ \A d \in DOMAIN sessions \ {cur} : sessions'[d] = sessions[d]
      /\ sessions'[cur] = [fd |-> sessions[cur].fd, left |-> sessions[cur].left - n]
      /\ sessions' \in [DOMAIN sessions -> [fd : 1..limit, left : 0..Answer]]
  BY <1>1, <1>2, <1>3, <1>5
<1>7. ClientsTypeOK'
  BY <1>1, <1>3, <1>4, <1>5 DEF ServingInv, ClientsTypeOK
<1>8. FdsTypeOK'
  BY <1>4, <1>6 DEF ServingInv, FdsTypeOK
<1>9. SessionsMatch'
  BY <1>4, <1>6 DEF ServingInv, SessionsMatch
<1>10. EventsMatch'
  BY <1>4, <1>6 DEF ServingInv, EventsMatch
<1>11. BacklogNew'
  <2>1. conn[cur] \notin {"idle", "queued"}
    BY <1>1 DEF ServingInv, BacklogNew
  <2> QED
    BY <1>1, <1>3, <1>4, <1>6, <2>1 DEF ServingInv, ClientsTypeOK, BacklogNew
<1>12. AnswersAdd'
  <2>1. sent[cur] \in Nat /\ sent'[cur] = sent[cur] + n /\ \A d \in Clients \ {cur} : sent'[d] = sent[d]
    BY <1>1, <1>3 DEF ServingInv, ClientsTypeOK
  <2>2. conn[cur] = "open" => sent'[cur] + sessions'[cur].left = Answer
    BY <1>1, <1>5, <1>6, <2>1, SessionsOK DEF ServingInv, AnswersAdd
  <2>3. \A d \in DOMAIN sessions' : conn'[d] = "open" => sent'[d] + sessions'[d].left = Answer
    BY <1>4, <1>6, <2>1, <2>2 DEF ServingInv, AnswersAdd, SessionsMatch
  <2>4. \A d \in Clients \ DOMAIN sessions' : conn'[d] = "open" => sent'[d] = Answer
    BY <1>1, <1>4, <1>6, <2>1 DEF ServingInv, AnswersAdd
  <2> QED
    BY <2>3, <2>4 DEF AnswersAdd
<1> QED
  BY <1>7, <1>8, <1>9, <1>10, <1>11, <1>12 DEF ServingInv

\* A descriptor that was free becomes the new session's.
LEMMA AcceptKeeps ==
  ASSUME ServingInv, AcceptSession PROVE ServingInv'
<1> DEFINE c == Head(backlog)
<1>1. fd[EpollFd] = "epoll" /\ lpc = "accept"
  BY DEF AcceptSession, ServingInv, SessionsMatch
<1>2. PICK f \in Free :
        /\ backlog # <<>> /\ backlog' = Tail(backlog)
        /\ conn' = [conn EXCEPT ![c] = IF @ = "queued" THEN "open" ELSE @]
        /\ fd' = [fd EXCEPT ![f] = c]
        /\ interest' = interest \cup {c}
        /\ sessions' = [d \in DOMAIN sessions \cup {c} |->
                          IF d = c THEN [fd |-> f, left |-> Answer] ELSE sessions[d]]
  BY <1>1 DEF AcceptSession
<1>3. UNCHANGED <<limit, lpc, batch, cur, unread, sent>>
  BY DEF AcceptSession, threadVars
<1>4. /\ backlog \in Seq(Clients) /\ backlog' \in Seq(Clients) /\ c \in Clients /\ c = backlog[1]
      /\ Len(backlog) \in Nat \ {0} /\ Len(backlog') = Len(backlog) - 1
      /\ \A i \in 1..Len(backlog') : backlog'[i] = backlog[i + 1]
  BY <1>2 DEF ServingInv, ClientsTypeOK
<1>5. conn[c] \in {"queued", "left"} /\ c \notin DOMAIN sessions
  BY <1>4 DEF ServingInv, BacklogNew
<1> HIDE DEF c
<1>6. /\ conn'[c] \in {"open", "left"} /\ (conn'[c] = "open" => conn[c] = "queued")
      /\ \A d \in Clients \ {c} : conn'[d] = conn[d]
      /\ conn' \in [Clients -> {"idle", "queued", "open", "left"}]
  BY <1>2, <1>4, <1>5 DEF ServingInv, ClientsTypeOK
<1>7. /\ DOMAIN sessions' = DOMAIN sessions \cup {c}
      /\ sessions'[c] = [fd |-> f, left |-> Answer]
      /\ \A d \in DOMAIN sessions : sessions'[d] = sessions[d]
  BY <1>2, <1>5
<1>8. /\ f \in 1..limit /\ fd[f] = "free" /\ fd'[f] = c
      /\ \A g \in 1..limit : g # f => fd'[g] = fd[g]
  BY <1>2 DEF Free, ServingInv, FdsTypeOK
<1>9. ClientsTypeOK'
  BY <1>3, <1>4, <1>6 DEF ServingInv, ClientsTypeOK
<1>10. FdsTypeOK'
  <2>1. fd' \in [1..limit' -> Clients \cup {"free", "epoll", "listen"}]
    BY <1>2, <1>3, <1>4 DEF ServingInv, FdsTypeOK
  <2>2. sessions' \in [DOMAIN sessions' -> [fd : 1..limit', left : 0..Answer]]
    BY <1>2, <1>3, <1>8, SessionsOK DEF ServingInv, FdsTypeOK
  <2> QED
    BY <1>3, <2>1, <2>2 DEF ServingInv, FdsTypeOK
<1>11. SessionsMatch'
  <2>1. \A d \in DOMAIN sessions : sessions[d].fd \in 1..limit /\ sessions[d].fd # f
    BY <1>8, SessionsOK DEF ServingInv, FdsTypeOK, SessionsMatch
  <2>2. fd'[EpollFd] = "epoll" /\ DOMAIN sessions' \subseteq Clients /\ interest' \subseteq DOMAIN sessions'
    BY <1>1, <1>2, <1>4, <1>7, <1>8 DEF ServingInv, FdsTypeOK, SessionsMatch, EpollFd
  <2>3. \A d \in DOMAIN sessions' : fd'[sessions'[d].fd] = d
    BY <1>7, <1>8, <2>1 DEF ServingInv, SessionsMatch
  <2>4. \A g \in 1..limit' : fd'[g] \in Clients => fd'[g] \in DOMAIN sessions' /\ sessions'[fd'[g]].fd = g
    BY <1>3, <1>5, <1>7, <1>8 DEF ServingInv, SessionsMatch
  <2> QED
    BY <2>2, <2>3, <2>4 DEF SessionsMatch
<1>12. EventsMatch'
  <2>1. \A d \in DOMAIN sessions : conn'[d] = conn[d]
    BY <1>5, <1>6 DEF ServingInv, SessionsMatch
  <2> QED
    BY <1>1, <1>3, <1>7, <2>1 DEF ServingInv, EventsMatch
<1>13. BacklogNew'
  <2>1. \A i \in 1..Len(backlog') : backlog'[i] \in Clients \ {c} /\ i + 1 \in 1..Len(backlog)
                                     /\ backlog'[i] = backlog[i + 1]
    BY <1>4 DEF ServingInv, BacklogNew
  <2>2. \A i \in 1..Len(backlog') :
          conn'[backlog'[i]] \in {"queued", "left"} /\ backlog'[i] \notin DOMAIN sessions'
    BY <1>6, <1>7, <2>1 DEF ServingInv, BacklogNew
  <2>3. \A i, j \in 1..Len(backlog') : backlog'[i] = backlog'[j] => i = j
    BY <1>4, <2>1 DEF ServingInv, BacklogNew
  <2>4. \A d \in Clients : conn'[d] \in {"idle", "queued"} => d \notin DOMAIN sessions' /\ sent'[d] = 0
    BY <1>3, <1>6, <1>7 DEF ServingInv, BacklogNew
  <2> QED
    BY <2>2, <2>3, <2>4 DEF BacklogNew
<1>14. AnswersAdd'
  <2>1. conn'[c] = "open" => sent'[c] + sessions'[c].left = Answer
    BY <1>3, <1>4, <1>6, <1>7, SessionsOK DEF ServingInv, BacklogNew
  <2>2. \A d \in DOMAIN sessions : conn'[d] = "open" => sent'[d] + sessions'[d].left = Answer
    BY <1>3, <1>5, <1>6, <1>7 DEF ServingInv, SessionsMatch, AnswersAdd
  <2>3. \A d \in Clients \ DOMAIN sessions' : conn'[d] = "open" => sent'[d] = Answer
    BY <1>3, <1>6, <1>7 DEF ServingInv, AnswersAdd
  <2> QED
    BY <1>7, <2>1, <2>2, <2>3 DEF AnswersAdd
<1> QED
  BY <1>9, <1>10, <1>11, <1>12, <1>13, <1>14 DEF ServingInv

-----------------------------------------------------------------------------
(* The process.                                                             *)

LEMMA ServingListener ==
  ASSUME ServingInv, Listener PROVE ServingInv'
<1>1. CASE EnterWait
  BY <1>1, MoveKeeps DEF EnterWait
<1>2. CASE Wait
  BY <1>2, WaitKeeps
<1>3. CASE NextEvent
  <2>1. CASE \E e \in batch : Handle(e)
    BY <1>3, <2>1, HandleKeeps DEF NextEvent
  <2>2. CASE lpc' = "top" /\ UNCHANGED <<serverVars, batch, clientVars>>
    BY <2>2, MoveKeeps
  <2> QED
    BY <1>3, <2>1, <2>2 DEF NextEvent
<1>4. CASE AcceptSession
  BY <1>4, AcceptKeeps
<1>5. CASE AcceptFails \/ AcceptDone
  BY <1>5, MoveKeeps DEF AcceptFails, AcceptDone, threadVars
<1>6. CASE WriteSome
  BY <1>6, WriteSomeKeeps
<1>7. CASE WriteBlocks \/ WriteToNobody
  BY <1>7, MoveKeeps DEF WriteBlocks, WriteToNobody, threadVars
<1>8. CASE WriteEnds
  BY <1>8, WriteEndsKeeps
<1> QED
  BY <1>1, <1>2, <1>3, <1>4, <1>5, <1>6, <1>7, <1>8 DEF Listener

\* What the main thread's steps do to the metrics and their clients.
LEMMA MainSteps ==
  ASSUME [Next]_processVars
  PROVE  \/ UNCHANGED <<metrics, serverVars, threadVars, clientVars>>
         \/ Construct \/ BeginClose \/ Destruct \/ Interrupted \/ Listener \/ Client
<1>1. CASE UNCHANGED processVars
  BY <1>1 DEF processVars, metricsVars
<1>2. CASE Step
  BY <1>2 DEF Step, ReadConfig, OpenInstance, OpenFabrics, StartMetrics, OpenReader, OpenWriter,
     OpenEndpoint, OpenInitiator, OpenTarget, ParseInfo, AddTarget, WriteInfo,
     ConnectInterrupted, SetRealTime, MoveIntoTransfer, Transferred, Unwind, ReleaseThrows,
     UnwindMetrics, Return, metricsVars
<1>3. CASE Await \/ Signal
  BY <1>3 DEF Await, Connects, TransferFails, Signal, metricsVars
<1> QED
  BY <1>1, <1>2, <1>3 DEF Next

LEMMA SessionsNext == SessionsInv /\ [Next]_processVars => SessionsInv'
<1> SUFFICES ASSUME SessionsInv, [Next]_processVars PROVE SessionsInv'
  OBVIOUS
<1>1. CASE UNCHANGED <<metrics, serverVars, threadVars, clientVars>>
  BY <1>1, SessionsStutter
<1>2. CASE Construct
  BY <1>2, ConstructServes DEF SessionsInv, Construct
<1>3. CASE BeginClose \/ Destruct
  BY <1>3 DEF BeginClose, Destruct, CloseNext, CloseEpoll, Joined, SessionsInv
<1>4. CASE (Listener \/ Interrupted \/ Client) /\ metrics' = metrics /\ metrics # "none"
  <2>1. ASSUME ServingInv PROVE ServingInv'
    <3>1. CASE Listener
      BY <2>1, <3>1, ServingListener
    <3>2. CASE Interrupted
      BY <2>1, <3>2, MoveKeeps DEF Interrupted
    <3>3. CASE Client
      BY <2>1, <3>3, ConnectKeeps, ReadKeeps, LeaveKeeps DEF Client
    <3> QED
      BY <1>4, <3>1, <3>2, <3>3
  <2> QED
    BY <1>4, <2>1 DEF SessionsInv
<1>5. ASSUME Listener \/ Interrupted \/ Client PROVE metrics' = metrics /\ metrics # "none"
  <2>1. metrics' = metrics
    BY <1>5 DEF Listener, Client, Connect, Read, Leave, EnterWait, Wait, Interrupted, NextEvent,
       Handle, AcceptSession, AcceptFails, AcceptDone, WriteSome, WriteBlocks, WriteToNobody,
       WriteEnds
  <2>2. CASE Listener \/ Interrupted
    <3>1. ~Fresh
      BY <2>2 DEF Fresh, Listener, EnterWait, Wait, Interrupted, NextEvent, AcceptSession,
         AcceptFails, AcceptDone, WriteSome, WriteBlocks, WriteToNobody, WriteEnds
    <3> QED
      BY <2>1, <3>1 DEF SessionsInv
  <2>3. CASE \E c \in Clients : Read(c) \/ Leave(c)
    <3>1. ~Fresh
      BY <2>3 DEF Fresh, Read, Leave
    <3> QED
      BY <2>1, <3>1 DEF SessionsInv
  <2>4. CASE \E c \in Clients : Connect(c)
    BY <2>1, <2>4 DEF Connect
  <2> QED
    BY <1>5, <2>2, <2>3, <2>4 DEF Client
<1> QED
  BY <1>1, <1>2, <1>3, <1>4, <1>5, MainSteps

THEOREM SessionsInvariant == Spec => []SessionsInv
<1>1. Init => SessionsInv
  BY SessionsInit
<1>2. SessionsInv /\ [Next]_processVars => SessionsInv'
  BY SessionsNext
<1> QED
  BY <1>1, <1>2, PTL DEF Spec

\* No descriptor of a client is lost, and none stands for two sessions, however
\* connections end (removeSession and createSession), until ~Metrics runs.
THEOREM DescriptorsOwned == Spec => []FdsOwned
<1>1. SessionsInv => FdsOwned
  BY DEF SessionsInv, ServingInv, SessionsMatch, FdsOwned
<1> QED
  BY <1>1, SessionsInvariant, PTL

\* Who reads to the end of the file has the whole scrape (writeable), with any
\* number of other clients that read slowly or leave.
THEOREM ScrapesWhole == Spec => []AnswerWhole
<1>1. SessionsInv => AnswerWhole
  <2> SUFFICES ASSUME ServingInv, NEW c \in Clients, conn[c] = "open", ~Connected(c)
               PROVE  sent[c] = Answer
    BY DEF SessionsInv, AnswerWhole
  <2>1. c \notin DOMAIN sessions
    BY DEF ServingInv, FdsTypeOK, SessionsMatch, Connected
  <2> QED
    BY <2>1 DEF ServingInv, AnswersAdd
<1> QED
  BY <1>1, SessionsInvariant, PTL

-----------------------------------------------------------------------------
(* The handles: what a run opens.                                           *)

\* A run whose steps open their handles at places of their own, the instances
\* first, is in order.
LEMMA PlanByPlace ==
  ASSUME NEW plan, NEW n \in Nat, plan \in [1..n -> RunSteps \ {"config"}], NEW place,
         1 \in DOMAIN plan, 2 \in DOMAIN plan,
         plan[1] = "mxl", plan[2] = "fabrics",
         \A i \in DOMAIN plan : \A h \in Opens(plan[i]) : place[h] = i
  PROVE  plan \in Seq(RunSteps \ {"config"}) /\ PlanOrdered(plan, {})
<1>1. \A i, j \in DOMAIN plan : j # i => Opens(plan[i]) \cap Opens(plan[j]) = {}
  OBVIOUS
<1>2. \A i \in DOMAIN plan : \A h \in Opens(plan[i]) :
         Uses(h) = "nothing" \/ \E j \in DOMAIN plan : j < i /\ Uses(h) \in Opens(plan[j])
  <2> SUFFICES ASSUME NEW i \in DOMAIN plan, NEW h \in Opens(plan[i]), Uses(h) # "nothing"
               PROVE  \E j \in DOMAIN plan : j < i /\ Uses(h) \in Opens(plan[j])
    OBVIOUS
  <2>1. Opens(plan[1]) = {"mxl"} /\ Opens(plan[2]) = {"fabrics"}
    BY DEF Opens
  <2>2. Uses(h) \in Instances /\ h # "mxl" /\ (Uses(h) = "fabrics" => h # "fabrics")
    BY DEF Uses, Instances, Flows
  <2>3. i # 1 /\ (i = 2 => Uses(h) = "mxl")
    BY <2>1, <2>2 DEF Instances
  <2> QED
    BY <2>1, <2>2, <2>3 DEF Instances
<1>3. plan \in Seq(RunSteps \ {"config"})
  OBVIOUS
<1> QED
  BY <1>1, <1>2, <1>3 DEF PlanOrdered

LEMMA TargetPlan ==
  TargetRun \in Seq(RunSteps \ {"config"}) /\ PlanOrdered(TargetRun, {})
<1> DEFINE plan == TargetRun
           place == [h \in Objects |->
             IF h = "mxl" THEN 1 ELSE IF h = "fabrics" THEN 2 ELSE IF h = "metrics" THEN 3
             ELSE IF h = "writer" THEN 4 ELSE IF h \in {"endpoint", "info"} THEN 5 ELSE 7]
<1>1. \A i \in 1..9 : i = 1 \/ i = 2 \/ i = 3 \/ i = 4 \/ i = 5 \/ i = 6 \/ i = 7 \/ i = 8 \/ i = 9
  OBVIOUS
<1>2. /\ plan \in [1..9 -> RunSteps \ {"config"}] /\ 1 \in DOMAIN plan /\ 2 \in DOMAIN plan
      /\ plan[1] = "mxl" /\ plan[2] = "fabrics"
  BY DEF TargetRun, RunSteps
<1>3. \A i \in 1..9 : \A h \in Opens(plan[i]) : place[h] = i
  BY <1>1 DEF Opens, TargetRun, Objects, Native, Instances, Flows
<1> HIDE DEF plan, place
<1>4. plan \in Seq(RunSteps \ {"config"}) /\ PlanOrdered(plan, {})
  BY <1>2, <1>3, PlanByPlace
<1> QED
  BY <1>4 DEF plan

LEMMA InitiatorPlan ==
  ASSUME NEW precise \in BOOLEAN
  PROVE  InitiatorRun(precise) \in Seq(RunSteps \ {"config"}) /\ PlanOrdered(InitiatorRun(precise), {})
<1>1. \A i \in 1..12 : \/ i = 1 \/ i = 2 \/ i = 3 \/ i = 4 \/ i = 5 \/ i = 6
                       \/ i = 7 \/ i = 8 \/ i = 9 \/ i = 10 \/ i = 11 \/ i = 12
  OBVIOUS
<1>2. CASE precise
  <2> DEFINE plan == InitiatorRun(TRUE)
             place == [h \in Objects |->
               IF h = "mxl" THEN 1 ELSE IF h = "fabrics" THEN 2 ELSE IF h = "metrics" THEN 3
               ELSE IF h = "reader" THEN 4 ELSE IF h = "writer" THEN 5
               ELSE IF h = "endpoint" THEN 6 ELSE IF h = "info" THEN 7 ELSE 10]
  <2>1. /\ plan \in [1..12 -> RunSteps \ {"config"}] /\ 1 \in DOMAIN plan /\ 2 \in DOMAIN plan
        /\ plan[1] = "mxl" /\ plan[2] = "fabrics"
    BY DEF InitiatorRun, RunSteps
  <2>2. \A i \in 1..12 : \A h \in Opens(plan[i]) : place[h] = i
    BY <1>1 DEF Opens, InitiatorRun, Objects, Native, Instances, Flows
  <2> HIDE DEF plan, place
  <2>3. plan \in Seq(RunSteps \ {"config"}) /\ PlanOrdered(plan, {})
    BY <2>1, <2>2, PlanByPlace
  <2> QED
    BY <1>2, <2>3 DEF plan
<1>3. CASE ~precise
  <2> DEFINE plan == InitiatorRun(FALSE)
             place == [h \in Objects |->
               IF h = "mxl" THEN 1 ELSE IF h = "fabrics" THEN 2 ELSE IF h = "metrics" THEN 3
               ELSE IF h = "reader" THEN 4 ELSE IF h = "endpoint" THEN 5
               ELSE IF h = "info" THEN 6 ELSE 9]
  <2>1. /\ plan \in [1..11 -> RunSteps \ {"config"}] /\ 1 \in DOMAIN plan /\ 2 \in DOMAIN plan
        /\ plan[1] = "mxl" /\ plan[2] = "fabrics"
    BY DEF InitiatorRun, RunSteps
  <2>2. \A i \in 1..11 : \A h \in Opens(plan[i]) : place[h] = i
    BY <1>1 DEF Opens, InitiatorRun, Objects, Native, Instances, Flows
  <2> HIDE DEF plan, place
  <2>3. plan \in Seq(RunSteps \ {"config"}) /\ PlanOrdered(plan, {})
    BY <2>1, <2>2, PlanByPlace
  <2> QED
    BY <1>3, <2>3 DEF plan
<1> QED
  BY <1>2, <1>3

\* The next step is done: what it opened is owned, and the rest still fits.
LEMMA PlanTail ==
  ASSUME NEW plan \in Seq(RunSteps), plan # <<>>, NEW has, NEW more, PlanOrdered(plan, has),
         has \cup Opens(plan[1]) \subseteq more,
         more \subseteq has \cup Opens(plan[1]) \cup {"empty"}
  PROVE  PlanOrdered(Tail(plan), more)
<1>1. /\ Tail(plan) \in Seq(RunSteps) /\ Len(Tail(plan)) = Len(plan) - 1 /\ Len(plan) \in Nat
      /\ DOMAIN Tail(plan) = 1..(Len(plan) - 1) /\ DOMAIN plan = 1..Len(plan)
      /\ \A i \in DOMAIN Tail(plan) : i + 1 \in DOMAIN plan /\ Tail(plan)[i] = plan[i + 1]
  OBVIOUS
<1>2. 1 \in DOMAIN plan /\ \A i \in DOMAIN plan : "empty" \notin Opens(plan[i])
  BY DEF Opens
<1>3. ASSUME NEW i \in DOMAIN Tail(plan)
      PROVE  /\ Opens(Tail(plan)[i]) \cap more = {}
             /\ \A j \in DOMAIN Tail(plan) :
                  j # i => Opens(Tail(plan)[i]) \cap Opens(Tail(plan)[j]) = {}
  <2>1. i + 1 \in DOMAIN plan /\ i + 1 # 1 /\ Tail(plan)[i] = plan[i + 1]
    BY <1>1
  <2>2. Opens(plan[i + 1]) \cap has = {} /\ Opens(plan[i + 1]) \cap Opens(plan[1]) = {}
    BY <1>2, <2>1 DEF PlanOrdered
  <2>3. ASSUME NEW j \in DOMAIN Tail(plan), j # i
        PROVE  Opens(Tail(plan)[i]) \cap Opens(Tail(plan)[j]) = {}
    <3>1. j + 1 \in DOMAIN plan /\ j + 1 # i + 1 /\ Tail(plan)[j] = plan[j + 1]
      BY <1>1, <2>3
    <3> QED
      BY <2>1, <3>1 DEF PlanOrdered
  <2> QED
    BY <1>2, <2>1, <2>2, <2>3
<1>4. ASSUME NEW i \in DOMAIN Tail(plan), NEW h \in Opens(Tail(plan)[i])
      PROVE  \/ Uses(h) \in more \cup {"nothing"}
             \/ \E j \in DOMAIN Tail(plan) : j < i /\ Uses(h) \in Opens(Tail(plan)[j])
  <2>1. i + 1 \in DOMAIN plan /\ Tail(plan)[i] = plan[i + 1]
    BY <1>1
  <2>2. CASE Uses(h) \in has \cup {"nothing"}
    BY <2>2
  <2>3. ASSUME NEW j \in DOMAIN plan, j < i + 1, Uses(h) \in Opens(plan[j])
        PROVE  \/ Uses(h) \in more \cup {"nothing"}
               \/ \E k \in DOMAIN Tail(plan) : k < i /\ Uses(h) \in Opens(Tail(plan)[k])
    <3>1. CASE j = 1
      BY <2>3, <3>1
    <3>2. CASE j # 1
      <4>1. j - 1 \in DOMAIN Tail(plan) /\ j - 1 < i /\ Tail(plan)[j - 1] = plan[j]
        BY <1>1, <2>3, <3>2
      <4> QED
        BY <2>3, <4>1
    <3> QED
      BY <3>1, <3>2
  <2> QED
    BY <2>1, <2>2, <2>3 DEF PlanOrdered
<1> QED
  BY <1>3, <1>4 DEF PlanOrdered

\* The steps of a run name handles and nothing else.
LEMMA OpensHandles ==
  ASSUME NEW step PROVE Opens(step) \subseteq Objects \ {"empty"}
BY DEF Opens, Objects, Native, Instances, Flows

\* New objects on a stack, each with a handle that nobody has.
LEMMA Joining ==
  ASSUME NEW st \in Seq(Objects), NEW hs \in Seq(Objects)
  PROVE  /\ st \o hs \in Seq(Objects) /\ ToSet(st \o hs) = ToSet(st) \cup ToSet(hs)
         /\ DOMAIN (st \o hs) = 1..(Len(st) + Len(hs))
         /\ \A i \in DOMAIN st : (st \o hs)[i] = st[i]
         /\ \A i \in DOMAIN hs : (st \o hs)[Len(st) + i] = hs[i]
<1>1. /\ st \o hs \in Seq(Objects) /\ Len(st \o hs) = Len(st) + Len(hs)
      /\ Len(st) \in Nat /\ Len(hs) \in Nat
      /\ DOMAIN st = 1..Len(st) /\ DOMAIN hs = 1..Len(hs)
      /\ DOMAIN (st \o hs) = 1..(Len(st) + Len(hs))
  OBVIOUS
<1>2. \A i \in DOMAIN st : (st \o hs)[i] = st[i] /\ i \in DOMAIN (st \o hs)
  BY <1>1
<1>3. \A i \in DOMAIN hs : (st \o hs)[Len(st) + i] = hs[i] /\ Len(st) + i \in DOMAIN (st \o hs)
  BY <1>1
<1>4. \A i \in DOMAIN (st \o hs) : i \in DOMAIN st \/ \E k \in DOMAIN hs : i = Len(st) + k
  <2> SUFFICES ASSUME NEW i \in DOMAIN (st \o hs), i \notin DOMAIN st
               PROVE  i - Len(st) \in DOMAIN hs /\ i = Len(st) + (i - Len(st))
    OBVIOUS
  <2> QED
    BY <1>1
<1>5. ToSet(st \o hs) = ToSet(st) \cup ToSet(hs)
  <2>1. \A i \in DOMAIN (st \o hs) : (st \o hs)[i] \in ToSet(st) \cup ToSet(hs)
    BY <1>2, <1>3, <1>4 DEF ToSet
  <2>2. \A i \in DOMAIN st : st[i] \in ToSet(st \o hs)
    BY <1>2 DEF ToSet
  <2>3. \A i \in DOMAIN hs : hs[i] \in ToSet(st \o hs)
    BY <1>3 DEF ToSet
  <2> QED
    BY <2>1, <2>2, <2>3 DEF ToSet
<1> QED
  BY <1>1, <1>2, <1>3, <1>5

LEMMA JoiningOrdered ==
  ASSUME StackOrdered, NEW st \in Seq(Objects), NEW hs \in Seq(Objects), stack' = st \o hs,
         Len(st) = Len(stack),
         \A i \in DOMAIN stack : \/ st[i] = stack[i]
                                 \/ st[i] = "empty" /\ stack[i] \in ToSet(hs) /\ stack[i] \notin Instances,
         ToSet(st) \cap ToSet(hs) = {}, "empty" \notin ToSet(hs),
         \A i, j \in DOMAIN hs : hs[i] = hs[j] => i = j,
         \A h \in ToSet(hs) : Uses(h) = "nothing" \/ Uses(h) \in ToSet(stack)
  PROVE  StackOrdered'
<1>1. /\ stack' \in Seq(Objects) /\ DOMAIN stack' = 1..(Len(stack) + Len(hs))
      /\ DOMAIN stack = 1..Len(stack) /\ DOMAIN hs = 1..Len(hs) /\ DOMAIN st = DOMAIN stack
      /\ Len(stack) \in Nat /\ Len(hs) \in Nat
      /\ \A i \in DOMAIN stack : stack'[i] = st[i]
      /\ \A i \in DOMAIN hs : stack'[Len(stack) + i] = hs[i]
  <2>1. stack \in Seq(Objects) /\ Len(stack) \in Nat /\ DOMAIN stack = 1..Len(stack)
    BY DEF StackOrdered
  <2>2. DOMAIN st = 1..Len(st) /\ DOMAIN hs = 1..Len(hs) /\ Len(hs) \in Nat
    OBVIOUS
  <2>3. /\ st \o hs \in Seq(Objects) /\ DOMAIN (st \o hs) = 1..(Len(st) + Len(hs))
        /\ \A i \in DOMAIN st : (st \o hs)[i] = st[i]
        /\ \A i \in DOMAIN hs : (st \o hs)[Len(st) + i] = hs[i]
    BY Joining
  <2>4. /\ stack' \in Seq(Objects) /\ DOMAIN stack' = 1..(Len(st) + Len(hs))
        /\ \A i \in DOMAIN st : stack'[i] = st[i]
        /\ \A i \in DOMAIN hs : stack'[Len(st) + i] = hs[i]
    BY <2>3, Zenon
  <2>5. DOMAIN st = DOMAIN stack
    BY <2>1, <2>2
  <2> QED
    BY <2>1, <2>2, <2>4, <2>5
<1>2. \A i \in DOMAIN stack' : i \in DOMAIN stack \/ \E k \in DOMAIN hs : i = Len(stack) + k
  <2> SUFFICES ASSUME NEW i \in DOMAIN stack', i \notin DOMAIN stack
               PROVE  i - Len(stack) \in DOMAIN hs /\ i = Len(stack) + (i - Len(stack))
    OBVIOUS
  <2> QED
    BY <1>1
<1>3. ASSUME NEW i \in DOMAIN stack', NEW j \in DOMAIN stack', stack'[i] = stack'[j], stack'[i] # "empty"
      PROVE  i = j
  <2>1. CASE i \in DOMAIN stack /\ j \in DOMAIN stack
    BY <1>1, <1>3, <2>1 DEF StackOrdered
  <2>2. CASE i \in DOMAIN stack /\ j \notin DOMAIN stack
    <3>1. stack'[i] \in ToSet(st)
      BY <1>1, <2>2 DEF ToSet
    <3>2. stack'[j] \in ToSet(hs)
      BY <1>1, <1>2, <2>2 DEF ToSet
    <3> QED
      BY <1>3, <3>1, <3>2
  <2>3. CASE i \notin DOMAIN stack /\ j \in DOMAIN stack
    <3>1. stack'[j] \in ToSet(st)
      BY <1>1, <2>3 DEF ToSet
    <3>2. stack'[i] \in ToSet(hs)
      BY <1>1, <1>2, <2>3 DEF ToSet
    <3> QED
      BY <1>3, <3>1, <3>2
  <2>4. CASE i \notin DOMAIN stack /\ j \notin DOMAIN stack
    BY <1>1, <1>2, <1>3, <2>4
  <2> QED
    BY <2>1, <2>2, <2>3, <2>4
\* What is used is an instance, which stays where it is.
<1>4. \A h : Uses(h) = "nothing" \/ Uses(h) \in Instances
  BY DEF Uses, Instances
<1>5. \A i \in DOMAIN stack : stack[i] \in Instances => stack'[i] = stack[i]
  BY <1>1
<1>6. ASSUME NEW i \in DOMAIN stack', Uses(stack'[i]) # "nothing"
      PROVE  \E j \in DOMAIN stack' : j < i /\ stack'[j] = Uses(stack'[i])
  <2>1. CASE i \in DOMAIN stack
    <3>1. stack'[i] = stack[i]
      BY <1>1, <1>6, <2>1 DEF Uses, Flows
    <3>2. PICK j \in DOMAIN stack : j < i /\ stack[j] = Uses(stack[i])
      BY <1>6, <2>1, <3>1 DEF StackOrdered
    <3> QED
      BY <1>1, <1>4, <1>5, <1>6, <3>1, <3>2
  <2>2. CASE i \notin DOMAIN stack
    <3>1. PICK k \in DOMAIN hs : i = Len(stack) + k
      BY <1>2, <2>2
    <3>2. stack'[i] = hs[k] /\ hs[k] \in ToSet(hs)
      BY <1>1, <3>1 DEF ToSet
    <3>3. PICK j \in DOMAIN stack : stack[j] = Uses(stack'[i])
      BY <1>6, <3>2 DEF ToSet
    <3>4. j \in DOMAIN stack' /\ j < i
      BY <1>1, <3>1
    <3>5. stack'[j] = stack[j]
      BY <1>4, <1>5, <1>6, <3>3
    <3> QED
      BY <3>3, <3>4, <3>5
  <2> QED
    BY <2>1, <2>2
<1> QED
  BY <1>1, <1>3, <1>6 DEF StackOrdered

\* The order that the compiler chooses leaves nothing out.
LEMMA Permutation ==
  ASSUME NEW S, IsFiniteSet(S), NEW ps \in SetToSeqs(S)
  PROVE  /\ ps \in Seq(S) /\ ToSet(ps) = S
         /\ \A i, j \in DOMAIN ps : ps[i] = ps[j] => i = j
<1>1. Cardinality(S) \in Nat
  BY FS_CardinalityType
<1>2. ps \in Injection(1..Cardinality(S), S)
  BY DEF SetToSeqs, Injection, IsInjective
<1>3. Cardinality(1..Cardinality(S)) = Cardinality(S)
  BY <1>1, FS_Interval
<1>4. ps \in Surjection(1..Cardinality(S), S)
  BY <1>2, <1>3, FS_Injection
<1>5. ps \in [1..Cardinality(S) -> S] /\ \A y \in S : \E i \in 1..Cardinality(S) : ps[i] = y
  BY <1>4 DEF Surjection
<1> QED
  BY <1>1, <1>2, <1>5 DEF ToSet, Injection, IsInjective

-----------------------------------------------------------------------------
(* HandlesInv is inductive.                                                 *)

LEMMA HandlesInit == Init => HandlesInv
<1> SUFFICES ASSUME Init PROVE HandlesInv
  OBVIOUS
<1>1. todo = <<"config">> /\ stack = <<>> /\ native = {}
  BY DEF Init
<1>2. todo \in Seq(RunSteps) /\ DOMAIN todo = {1} /\ todo[1] = "config"
  BY <1>1 DEF RunSteps
<1>3. PlanOrdered(todo, ToSet(stack))
  BY <1>2 DEF PlanOrdered, Opens
<1>4. StackOrdered /\ ToSet(stack) = {}
  BY <1>1 DEF StackOrdered, ToSet
<1> QED
  BY <1>1, <1>2, <1>3, <1>4 DEF HandlesInv

LEMMA NoPlan == ASSUME NEW has PROVE <<>> \in Seq(RunSteps) /\ PlanOrdered(<<>>, has)
BY DEF PlanOrdered

LEMMA FailureKeeps ==
  ASSUME HandlesInv, todo' = <<>>, UNCHANGED stack, native \subseteq native',
         native' \subseteq native \cup {"lost"}
  PROVE  HandlesInv'
<1>1. StackOrdered' /\ ToSet(stack') = ToSet(stack)
  BY DEF HandlesInv, StackOrdered, ToSet
<1> QED
  BY <1>1, NoPlan DEF HandlesInv

LEMMA OwningKeeps ==
  ASSUME HandlesInv, NEW hs \in Seq(Objects), todo # <<>>, Owning(hs),
         ToSet(hs) = Opens(todo[1]), \A i, j \in DOMAIN hs : hs[i] = hs[j] => i = j
  PROVE  HandlesInv'
<1>1. /\ todo' = Tail(todo) /\ stack' = stack \o hs /\ native' = native \cup (ToSet(hs) \cap Native)
      /\ stack \in Seq(Objects) /\ todo \in Seq(RunSteps) /\ 1 \in DOMAIN todo
  BY DEF Owning, HandlesInv, StackOrdered
<1>2. /\ ToSet(stack) \cap ToSet(hs) = {}
      /\ \A h \in ToSet(hs) : Uses(h) = "nothing" \/ Uses(h) \in ToSet(stack)
  <2>1. /\ Opens(todo[1]) \cap ToSet(stack) = {}
        /\ \A h \in Opens(todo[1]) :
             \/ Uses(h) \in ToSet(stack) \cup {"nothing"}
             \/ \E j \in DOMAIN todo : j < 1 /\ Uses(h) \in Opens(todo[j])
    BY <1>1 DEF HandlesInv, PlanOrdered
  <2>2. \A j \in DOMAIN todo : ~(j < 1)
    BY <1>1
  <2> QED
    BY <2>1, <2>2
<1>3. ToSet(stack') = ToSet(stack) \cup ToSet(hs)
  BY <1>1, Joining
<1>4. "empty" \notin ToSet(hs)
  BY OpensHandles
<1>5. StackOrdered'
  <2>1. StackOrdered
    BY DEF HandlesInv
  <2>2. \A i \in DOMAIN stack :
          \/ stack[i] = stack[i]
          \/ stack[i] = "empty" /\ stack[i] \in ToSet(hs) /\ stack[i] \notin Instances
    OBVIOUS
  <2>3. stack' = stack \o hs /\ stack \in Seq(Objects)
    BY <1>1
  <2> QED
    BY <1>2, <1>4, <2>1, <2>2, <2>3, JoiningOrdered
<1>6. todo' \in Seq(RunSteps) /\ PlanOrdered(todo', ToSet(stack'))
  <2>1. PlanOrdered(todo, ToSet(stack))
    BY DEF HandlesInv
  <2>2. /\ ToSet(stack) \cup Opens(todo[1]) \subseteq ToSet(stack')
        /\ ToSet(stack') \subseteq ToSet(stack) \cup Opens(todo[1]) \cup {"empty"}
    BY <1>3
  <2>3. todo \in Seq(RunSteps) /\ todo # <<>>
    BY <1>1
  <2>4. PlanOrdered(Tail(todo), ToSet(stack'))
    BY <2>1, <2>2, <2>3, PlanTail, Zenon
  <2>5. Tail(todo) \in Seq(RunSteps)
    BY <2>3
  <2> QED
    BY <1>1, <2>4, <2>5
<1>7. \A i \in DOMAIN todo' : todo'[i] # "config"
  BY <1>1 DEF HandlesInv
<1> QED
  BY <1>1, <1>3, <1>5, <1>6, <1>7 DEF HandlesInv

\* The parameters own what the flows and the endpoint did.
LEMMA MoveIntoTransferKeeps ==
  ASSUME HandlesInv, MoveIntoTransfer PROVE HandlesInv'
<1> DEFINE hs == ToSet(stack) \cap (Flows \cup {"endpoint"})
           st == Moved(stack, hs)
<1>1. PICK ps \in SetToSeqs(hs) : stack' = st \o ps
  BY DEF MoveIntoTransfer
<1>2. /\ todo # <<>> /\ todo[1] = "move" /\ todo' = Tail(todo) /\ native' = native
      /\ stack \in Seq(Objects) /\ todo \in Seq(RunSteps)
  BY DEF MoveIntoTransfer, At, HandlesInv, StackOrdered
<1>3. IsFiniteSet(hs)
  <2>1. IsFiniteSet({"reader", "writer", "endpoint"})
    <3>1. IsFiniteSet({"reader"})
      BY FS_Singleton
    <3>2. IsFiniteSet({"reader"} \cup {"writer"})
      BY <3>1, FS_AddElement
    <3>3. IsFiniteSet(({"reader"} \cup {"writer"}) \cup {"endpoint"})
      BY <3>2, FS_AddElement
    <3>4. ({"reader"} \cup {"writer"}) \cup {"endpoint"} = {"reader", "writer", "endpoint"}
      OBVIOUS
    <3> QED
      BY <3>3, <3>4
  <2>2. hs \in SUBSET {"reader", "writer", "endpoint"}
    BY DEF Flows
  <2> QED
    BY <2>1, <2>2, FS_Subset
<1>4. hs \subseteq Objects \ {"empty"} /\ hs \cap Instances = {}
  BY DEF Objects, Native, Flows, Instances
<1>5. ps \in Seq(hs) /\ ToSet(ps) = hs /\ \A i, j \in DOMAIN ps : ps[i] = ps[j] => i = j
  BY <1>3, Permutation
<1>6. ps \in Seq(Objects)
  BY <1>4, <1>5
<1>7. /\ st \in Seq(Objects) /\ Len(st) = Len(stack) /\ DOMAIN st = DOMAIN stack
      /\ \A i \in DOMAIN stack : st[i] = IF stack[i] \in hs THEN "empty" ELSE stack[i]
  <2>1. /\ st = [i \in 1..Len(stack) |-> IF stack[i] \in hs THEN "empty" ELSE stack[i]]
        /\ Len(stack) \in Nat /\ DOMAIN stack = 1..Len(stack)
        /\ \A i \in 1..Len(stack) : stack[i] \in Objects
    BY <1>2 DEF Moved
  <2>2. "empty" \in Objects
    BY DEF Objects
  <2>3. st \in [1..Len(stack) -> Objects]
    BY <2>1, <2>2
  <2>4. \A i \in DOMAIN stack : st[i] = IF stack[i] \in hs THEN "empty" ELSE stack[i]
    BY <2>1
  <2> HIDE DEF st, hs
  <2>5. st \in Seq(Objects) /\ Len(st) = Len(stack) /\ DOMAIN st = DOMAIN stack
    BY <2>1, <2>3
  <2> QED
    BY <2>4, <2>5
<1> HIDE DEF st
<1>8. ToSet(st) \subseteq (ToSet(stack) \ hs) \cup {"empty"} /\ ToSet(stack) \ hs \subseteq ToSet(st)
  BY <1>7 DEF ToSet
<1>9. ToSet(stack') = ToSet(st) \cup hs
  BY <1>1, <1>5, <1>6, <1>7, Joining
<1>10. hs \subseteq ToSet(stack)
  OBVIOUS
<1>11. \A h \in hs : Uses(h) = "nothing" \/ Uses(h) \in ToSet(stack)
  BY <1>10 DEF HandlesInv, StackOrdered, ToSet
<1> HIDE DEF hs
<1>12. StackOrdered'
  <2>1. \A i \in DOMAIN stack : \/ st[i] = stack[i]
                                \/ st[i] = "empty" /\ stack[i] \in ToSet(ps) /\ stack[i] \notin Instances
    BY <1>4, <1>5, <1>7
  <2>2. ToSet(st) \cap ToSet(ps) = {} /\ "empty" \notin ToSet(ps)
    BY <1>4, <1>5, <1>8
  <2>3. StackOrdered
    BY DEF HandlesInv
  <2>4. \A h \in ToSet(ps) : Uses(h) = "nothing" \/ Uses(h) \in ToSet(stack)
    BY <1>5, <1>11
  <2>5. st \in Seq(Objects) /\ Len(st) = Len(stack)
    BY <1>7
  <2> QED
    BY <1>1, <1>5, <1>6, <2>1, <2>2, <2>3, <2>4, <2>5, JoiningOrdered
<1>13. todo' \in Seq(RunSteps) /\ PlanOrdered(todo', ToSet(stack'))
  <2>1. Opens(todo[1]) = {}
    BY <1>2 DEF Opens
  <2>2. ToSet(stack) \subseteq ToSet(stack') /\ ToSet(stack') \subseteq ToSet(stack) \cup {"empty"}
    BY <1>8, <1>9, <1>10
  <2>3. PlanOrdered(Tail(todo), ToSet(stack'))
    BY <1>2, <2>1, <2>2, PlanTail DEF HandlesInv
  <2> QED
    BY <1>2, <2>3
<1>14. \A i \in DOMAIN todo' : todo'[i] # "config"
  BY <1>2 DEF HandlesInv
<1>15. "empty" \notin Native
  BY DEF Native, Instances, Flows
<1> QED
  BY <1>2, <1>8, <1>9, <1>10, <1>12, <1>13, <1>14, <1>15 DEF HandlesInv

\* An instance is released last of all that refer to it.
LEMMA ReleaseKeeps ==
  ASSUME HandlesInv, todo = <<>>, NEW h, Release(h) PROVE HandlesInv'
<1>1. /\ stack \in Seq(Objects) /\ stack # <<>> /\ h = stack[Len(stack)]
      /\ stack' = SubSeq(stack, 1, Len(stack) - 1) /\ todo' = <<>>
      /\ Len(stack) \in Nat \ {0} /\ DOMAIN stack = 1..Len(stack)
  BY DEF HandlesInv, StackOrdered, Release, Last, Front
<1>2. /\ stack' \in Seq(Objects) /\ DOMAIN stack' = 1..(Len(stack) - 1)
      /\ \A i \in DOMAIN stack' : i \in DOMAIN stack /\ stack'[i] = stack[i]
  BY <1>1
<1>3. StackOrdered'
  <2>1. \A i, j \in DOMAIN stack' : stack'[i] = stack'[j] /\ stack'[i] # "empty" => i = j
    BY <1>2 DEF HandlesInv, StackOrdered
  <2>2. \A i \in DOMAIN stack' :
          Uses(stack'[i]) = "nothing" \/ \E j \in DOMAIN stack' : j < i /\ stack'[j] = Uses(stack'[i])
    <3> SUFFICES ASSUME NEW i \in DOMAIN stack', Uses(stack[i]) # "nothing"
                 PROVE  \E j \in DOMAIN stack' : j < i /\ stack'[j] = Uses(stack[i])
      BY <1>2
    <3>1. PICK j \in DOMAIN stack : j < i /\ stack[j] = Uses(stack[i])
      BY <1>2 DEF HandlesInv, StackOrdered
    <3> QED
      BY <1>1, <1>2, <3>1
  <2> QED
    BY <1>2, <2>1, <2>2 DEF StackOrdered
<1>4. /\ \A x : x \in ToSet(stack) <=> x \in ToSet(stack') \/ x = h
      /\ h # "empty" => h \notin ToSet(stack')
  <2>1. ASSUME NEW x PROVE x \in ToSet(stack) <=> x \in ToSet(stack') \/ x = h
    <3>1. \A i \in DOMAIN stack : i = Len(stack) \/ i \in DOMAIN stack'
      BY <1>1, <1>2
    <3>2. Len(stack) \in DOMAIN stack
      BY <1>1
    <3> QED
      BY <1>1, <1>2, <3>1, <3>2 DEF ToSet
  <2>2. ASSUME h # "empty", NEW i \in DOMAIN stack' PROVE stack'[i] # h
    BY <1>1, <1>2, <2>2 DEF HandlesInv, StackOrdered
  <2> QED
    BY <2>1, <2>2 DEF ToSet
<1>5. \A g \in ToSet(stack') : Uses(g) = "nothing" \/ Uses(g) \in ToSet(stack')
  BY <1>3 DEF StackOrdered, ToSet
<1>6. /\ "empty" \notin Native
      /\ native' = native \ (({h} \ Instances)
                      \cup {i \in Instances : \A g \in ToSet(stack') : g # i /\ Uses(g) # i})
  BY DEF Native, Instances, Flows, Release
<1>7. ToSet(stack') \cap Native \subseteq native'
  BY <1>4, <1>6 DEF HandlesInv
<1>8. native' \subseteq ToSet(stack') \cup {"lost"}
  <2> SUFFICES ASSUME NEW x \in native', x # "lost" PROVE x \in ToSet(stack')
    OBVIOUS
  <2>1. x \in ToSet(stack') \/ x = h
    BY <1>4, <1>6 DEF HandlesInv
  <2>2. ASSUME x = h PROVE x \in ToSet(stack')
    <3>1. x \in Instances /\ \E g \in ToSet(stack') : g = x \/ Uses(g) = x
      BY <1>6, <2>2
    <3>2. x # "nothing"
      BY <3>1 DEF Instances
    <3> QED
      BY <1>5, <3>1, <3>2
  <2> QED
    BY <2>1, <2>2
<1> QED
  BY <1>1, <1>3, <1>7, <1>8, NoPlan DEF HandlesInv

LEMMA ReadConfigKeeps ==
  ASSUME HandlesInv, ReadConfig PROVE HandlesInv'
<1>1. CASE Failing
  BY <1>1, FailureKeeps DEF Failing
<1>2. CASE todo' \in {InitiatorRun(TRUE), InitiatorRun(FALSE), TargetRun} /\ UNCHANGED <<stack, native>>
  <2>1. stack = <<>> /\ ToSet(stack) = {}
    <3>1. todo \in Seq(RunSteps) /\ todo # <<>> /\ todo[1] = "config"
      BY DEF ReadConfig, At, HandlesInv
    <3>2. 1 \in DOMAIN todo
      BY <3>1
    <3>3. stack = <<>>
      BY <3>1, <3>2 DEF HandlesInv
    <3> QED
      BY <3>3 DEF ToSet
  <2>2. todo' \in Seq(RunSteps \ {"config"}) /\ PlanOrdered(todo', {})
    BY <1>2, InitiatorPlan, TargetPlan
  <2>4. todo' \in Seq(RunSteps) /\ \A i \in DOMAIN todo' : todo'[i] # "config"
    BY <2>2
  <2>3. StackOrdered'
    BY <1>2 DEF HandlesInv, StackOrdered
  <2> QED
    BY <1>2, <2>1, <2>2, <2>3, <2>4 DEF HandlesInv
<1> QED
  BY <1>1, <1>2 DEF ReadConfig

LEMMA OpeningKeeps ==
  ASSUME HandlesInv,
         \/ OpenInstance \/ OpenFabrics \/ StartMetrics \/ OpenReader \/ OpenWriter \/ OpenEndpoint
         \/ ParseInfo \/ AddTarget \/ WriteInfo \/ Connects \/ ConnectInterrupted \/ SetRealTime
  PROVE  HandlesInv'
<1>1. CASE Failing \/ Losing
  BY <1>1, FailureKeeps DEF Failing, Losing
<1>2. ASSUME NEW h \in Objects, todo # <<>>, Opens(todo[1]) = {h}, Owning(<<h>>) PROVE HandlesInv'
  <2>1. <<h>> \in Seq(Objects) /\ ToSet(<<h>>) = {h} /\ \A i, j \in DOMAIN <<h>> : <<h>>[i] = <<h>>[j] => i = j
    BY DEF ToSet
  <2> QED
    BY <1>2, <2>1, OwningKeeps
<1>3. ASSUME todo # <<>>, Opens(todo[1]) = {}, Owning(<<>>) PROVE HandlesInv'
  <2>1. <<>> \in Seq(Objects) /\ ToSet(<<>>) = {} /\ \A i, j \in DOMAIN <<>> : <<>>[i] = <<>>[j] => i = j
    BY DEF ToSet
  <2> QED
    BY <1>3, <2>1, OwningKeeps
<1>4. ASSUME todo # <<>>, Opens(todo[1]) = {"endpoint", "info"}, Owning(<<"endpoint", "info">>)
      PROVE  HandlesInv'
  <2> DEFINE hs == <<"endpoint", "info">>
  <2>1. hs \in Seq(Objects) /\ ToSet(hs) = {"endpoint", "info"} /\ \A i, j \in DOMAIN hs : hs[i] = hs[j] => i = j
    BY DEF ToSet, Objects, Native
  <2> QED
    BY <1>4, <2>1, OwningKeeps
<1>5. {"mxl", "fabrics", "metrics", "reader", "writer", "endpoint", "info", "rt"} \subseteq Objects
  BY DEF Objects, Native, Instances, Flows
<1> USE DEF At, Opens
<1>6. CASE OpenInstance
  BY <1>1, <1>2, <1>5, <1>6 DEF OpenInstance
<1>7. CASE OpenFabrics
  BY <1>1, <1>2, <1>5, <1>7 DEF OpenFabrics
<1>8. CASE StartMetrics
  BY <1>1, <1>2, <1>5, <1>8 DEF StartMetrics
<1>9. CASE OpenReader
  BY <1>1, <1>2, <1>5, <1>9 DEF OpenReader
<1>10. CASE OpenWriter
  BY <1>1, <1>2, <1>5, <1>10 DEF OpenWriter
<1>11. CASE OpenInitiator
  BY <1>1, <1>2, <1>5, <1>11 DEF OpenInitiator
<1>12. CASE OpenTarget
  BY <1>1, <1>4, <1>12 DEF OpenTarget
<1>13. CASE ParseInfo
  BY <1>1, <1>2, <1>5, <1>13 DEF ParseInfo
<1>14. CASE SetRealTime
  BY <1>1, <1>2, <1>5, <1>14 DEF SetRealTime
<1>15. CASE AddTarget \/ WriteInfo
  BY <1>1, <1>3, <1>15 DEF AddTarget, WriteInfo
<1>16. CASE Connects \/ ConnectInterrupted
  BY <1>1, <1>3, <1>16 DEF Connects, ConnectInterrupted
<1> QED
  BY <1>6, <1>7, <1>8, <1>9, <1>10, <1>11, <1>12, <1>13, <1>14, <1>15, <1>16 DEF OpenEndpoint

LEMMA HandlesStutter == HandlesInv /\ UNCHANGED <<todo, stack, native>> => HandlesInv'
<1> SUFFICES ASSUME HandlesInv, UNCHANGED <<todo, stack, native>> PROVE HandlesInv'
  OBVIOUS
<1>1. StackOrdered'
  BY DEF HandlesInv, StackOrdered
<1> QED
  BY <1>1 DEF HandlesInv

LEMMA HandlesNext == HandlesInv /\ [Next]_processVars => HandlesInv'
<1> SUFFICES ASSUME HandlesInv, [Next]_processVars PROVE HandlesInv'
  OBVIOUS
<1>1. CASE \/ OpenInstance \/ OpenFabrics \/ StartMetrics \/ OpenReader \/ OpenWriter \/ OpenEndpoint
           \/ ParseInfo \/ AddTarget \/ WriteInfo \/ Connects \/ ConnectInterrupted \/ SetRealTime
  BY <1>1, OpeningKeeps
<1>2. CASE ReadConfig
  BY <1>2, ReadConfigKeeps
<1>3. CASE MoveIntoTransfer
  BY <1>3, MoveIntoTransferKeeps
<1>4. CASE Transferred \/ TransferFails
  BY <1>4, FailureKeeps DEF Transferred, TransferFails, Failing
<1>5. CASE Unwind
  BY <1>5, ReleaseKeeps DEF Unwind, Unwinding
<1>6. CASE UnwindMetrics
  BY <1>6, ReleaseKeeps, HandlesStutter DEF UnwindMetrics, Unwinding
<1>7. CASE ReleaseThrows \/ Return \/ Signal
  BY <1>7, HandlesStutter DEF ReleaseThrows, Return, Signal
<1>8. CASE UNCHANGED mainVars
  BY <1>8, HandlesStutter DEF mainVars
<1> QED
  BY <1>1, <1>2, <1>3, <1>4, <1>5, <1>6, <1>7, <1>8 DEF Next, Step, Await, processVars, mainVars

\* Along every way out of a run of any kind, whatever fails and in whatever order
\* the parameters are made, each open handle but a lost one has one owner, and
\* what it refers to is open.
THEOREM HandlesHaveOwners == Spec => []HandlesOwned
<1>1. HandlesInv => HandlesOwned
  <2> SUFFICES ASSUME HandlesInv PROVE HandlesOwned
    OBVIOUS
  <2>1. "empty" \notin Native /\ Instances \subseteq Native /\ Uses("lost") = "nothing"
    BY DEF Native, Instances, Flows, Uses
  <2>2. \A h : Uses(h) \in Instances \cup {"nothing"}
    BY DEF Uses, Instances
  <2>3. \A h \in ToSet(stack) : Uses(h) = "nothing" \/ Uses(h) \in ToSet(stack)
    BY DEF HandlesInv, StackOrdered, ToSet
  <2>4. \A h \in native : Uses(h) \in native \cup {"nothing"}
    BY <2>1, <2>2, <2>3 DEF HandlesInv
  <2>5. \A i, j \in DOMAIN stack : stack[i] \in Native /\ stack[i] = stack[j] => i = j
    BY <2>1 DEF HandlesInv, StackOrdered
  <2> QED
    BY <2>4, <2>5 DEF HandlesInv, HandlesOwned
<1>2. Spec => []HandlesInv
  BY HandlesInit, HandlesNext, PTL DEF Spec
<1> QED
  BY <1>1, <1>2, PTL
=============================================================================
