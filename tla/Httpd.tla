------------------------------- MODULE Httpd -------------------------------
(***************************************************************************)
(* The web server of src/core/net/server.c.  serve_forever accepts a       *)
(* connection into a slot of clients[], forks a child that runs respond,   *)
(* and scans for a free slot.  After the fork parent and child have a copy *)
(* each of clients[] and clientfd, and both hold the connection's file     *)
(* descriptor; a connection stands here for its descriptor as well.        *)
(*                                                                         *)
(* A request is "good", or "bare" when it has no URI and the child dies of *)
(* the NULL strtok returns (l.145).  What route prints is left out.        *)
(***************************************************************************)
EXTENDS Integers, FiniteSets

CONSTANTS
  Conns,   \* the connections clients make
  CONNMAX  \* slots of clients[]

ASSUME HttpdAssumption == CONNMAX \in Nat \ {0} /\ IsFiniteSet(Conns) /\ -1 \notin Conns

VARIABLES
  pc,         \* where the parent is
  slot, clients,
  peer,       \* whether the other end of a connection is there
  request,    \* what it has sent
  child,      \* where the child of a connection is
  open,       \* the child's descriptors of its connection
  clientfd,   \* the child's clientfd: 0, stdin, until it is set
  answered,   \* whether the answer was flushed to the connection
  shut        \* the directions of the connection that were shut down

parent == <<pc, slot, clients>>
client == <<peer, request>>
descriptors == <<open, clientfd, answered, shut>>
vars == <<parent, client, child, descriptors>>

Slots == 0 .. CONNMAX - 1

Init ==
  /\ pc = "start" /\ slot = 0 /\ clients = [s \in Slots |-> -1]
  /\ peer = [c \in Conns |-> "away"]
  /\ request = [c \in Conns |-> "none"]
  /\ child = [c \in Conns |-> "none"]
  /\ open = [c \in Conns |-> {}]
  /\ clientfd = [c \in Conns |-> "stdin"]
  /\ answered = [c \in Conns |-> FALSE]
  /\ shut = [c \in Conns |-> {}]

----------------------------------------------------------------------------
(* The clients: they connect, may send one request, and go away when they  *)
(* please.                                                                 *)

Gone(c) == peer[c] = "gone"

Connect(c) ==
  /\ peer[c] = "away" /\ pc # "start"
  /\ peer' = [peer EXCEPT ![c] = "connected"]
  /\ UNCHANGED <<request, parent, child, descriptors>>

Send(c) ==
  /\ peer[c] = "connected" /\ request[c] = "none"
  /\ \E r \in {"good", "bare"} : request' = [request EXCEPT ![c] = r]
  /\ UNCHANGED <<peer, parent, child, descriptors>>

GoAway(c) ==
  /\ peer[c] = "connected"
  /\ peer' = [peer EXCEPT ![c] = "gone"]
  /\ UNCHANGED <<request, parent, child, descriptors>>

----------------------------------------------------------------------------
(* The parent                                                              *)

\* startServer: getaddrinfo, socket, bind or listen may fail.
startServer ==
  /\ pc = "start" /\ pc' \in {"accept", "exited"}
  /\ UNCHANGED <<slot, clients, client, child, descriptors>>

Waiting(c) == peer[c] # "away" /\ child[c] = "none" /\ \A s \in Slots : clients[s] # c

Accept(c) ==
  /\ pc = "accept" /\ Waiting(c)
  /\ clients' = [clients EXCEPT ![slot] = c]
  /\ pc' = "fork"
  /\ UNCHANGED <<slot, client, child, descriptors>>

AcceptFails ==
  /\ pc = "accept"
  /\ clients' = [clients EXCEPT ![slot] = -1]
  /\ pc' = "scan"
  /\ UNCHANGED <<slot, client, child, descriptors>>

\* A fork that fails is taken for the parent's side of one that did not.
Fork ==
  /\ pc = "fork" /\ pc' = "scan"
  /\ LET c == clients[slot]
     IN  \/ /\ child' = [child EXCEPT ![c] = "recv"]
            /\ open' = [open EXCEPT ![c] = {"fd"}]
         \/ /\ child' = [child EXCEPT ![c] = "not forked"]
            /\ UNCHANGED open
  /\ UNCHANGED <<slot, clients, client, clientfd, answered, shut>>

Scan_NotAtAll ==
  /\ pc = "scan" /\ pc' = "accept"
  /\ UNCHANGED <<slot, clients, client, child, descriptors>>

Scan_LastSkipped ==
  /\ pc = "scan"
  /\ IF clients[slot] = -1
       THEN pc' = "accept" /\ UNCHANGED slot
       ELSE slot' = (slot + 1) % (CONNMAX - 1) /\ UNCHANGED pc
  /\ UNCHANGED <<clients, client, child, descriptors>>

\* while (clients[slot]!=-1) slot = (slot+1)%CONNMAX, one iteration.
Scan ==
  /\ pc = "scan"
  /\ IF clients[slot] = -1
       THEN pc' = "accept" /\ UNCHANGED slot
       ELSE slot' = (slot + 1) % CONNMAX /\ UNCHANGED pc
  /\ UNCHANGED <<clients, client, child, descriptors>>

----------------------------------------------------------------------------
(* The child of connection c: respond, then exit(0)                        *)

\* recv blocks until there is something to say.  What was sent before the peer
\* went away may still be received, or the receive fails.
recv(c) ==
  /\ child[c] = "recv"
  /\ \/ request[c] = "good" /\ child' = [child EXCEPT ![c] = "message"]
     \/ request[c] = "bare" /\ child' = [child EXCEPT ![c] = "killed"]
     \/ Gone(c) /\ child' = [child EXCEPT ![c] = "close"]
  /\ UNCHANGED <<parent, client, descriptors>>

BindStdout_NoDup(c) ==
  /\ child[c] = "message"
  /\ clientfd' = [clientfd EXCEPT ![c] = "fd"]
  /\ child' = [child EXCEPT ![c] = "route"]
  /\ UNCHANGED <<parent, client, open, answered, shut>>

\* dup2 makes the connection stdout, and its first descriptor is closed.
BindStdout(c) ==
  /\ child[c] = "message"
  /\ clientfd' = [clientfd EXCEPT ![c] = "fd"]
  /\ open' = [open EXCEPT ![c] = {"stdout"}]
  /\ child' = [child EXCEPT ![c] = "route"]
  /\ UNCHANGED <<parent, client, answered, shut>>

\* The directions shutdown of descriptor fd adds, if it is the connection's.
Shutdown(c, fd, directions) == IF fd \in open[c] THEN shut[c] \union directions ELSE shut[c]

Flush_ClosedFirst(c) ==
  /\ child[c] = "route"
  /\ answered' = [answered EXCEPT ![c] = "stdout" \in open[c]]
  /\ open' = [open EXCEPT ![c] = @ \ {"stdout"}]
  /\ child' = [child EXCEPT ![c] = "close"]
  /\ UNCHANGED <<parent, client, clientfd, shut>>

\* route prints into stdout's buffer, fflush writes it, and stdout is shut for
\* writing and closed.  When the peer is gone SIGPIPE may end the child.
Flush(c) ==
  /\ child[c] = "route"
  /\ \/ /\ answered' = [answered EXCEPT ![c] = "stdout" \in open[c]]
        /\ shut' = [shut EXCEPT ![c] = Shutdown(c, "stdout", {"WR"})]
        /\ open' = [open EXCEPT ![c] = @ \ {"stdout"}]
        /\ child' = [child EXCEPT ![c] = "close"]
     \/ /\ Gone(c)
        /\ child' = [child EXCEPT ![c] = "killed"]
        /\ UNCHANGED <<answered, shut, open>>
  /\ UNCHANGED <<parent, client, clientfd>>

\* shutdown and close of whatever clientfd names, and exit.  clients[n] = -1 is
\* made in the child's copy, which goes with it.
CloseSocket(c) ==
  /\ child[c] = "close"
  /\ shut' = [shut EXCEPT ![c] = Shutdown(c, clientfd[c], {"WR", "RD"})]
  /\ open' = [open EXCEPT ![c] = @ \ {clientfd[c]}]
  /\ child' = [child EXCEPT ![c] = "exited"]
  /\ UNCHANGED <<parent, client, clientfd, answered>>

----------------------------------------------------------------------------
Stop == pc = "exited" /\ UNCHANGED vars

ParentNext == startServer \/ (\E c \in Conns : Accept(c)) \/ Fork \/ Scan
ChildNext(c) == recv(c) \/ BindStdout(c) \/ Flush(c) \/ CloseSocket(c)

Next ==
  \/ ParentNext \/ AcceptFails
  \/ \E c \in Conns : ChildNext(c) \/ Connect(c) \/ Send(c) \/ GoAway(c)
  \/ Stop

\* Each process is scheduled; the clients may do nothing.
Spec == Init /\ [][Next]_vars /\ WF_vars(ParentNext) /\ \A c \in Conns : WF_vars(ChildNext(c))

----------------------------------------------------------------------------
(* Properties                                                              *)

\* accept never overwrites the descriptor of another connection, and the
\* connection that is forked for is the one that was just accepted: every
\* connection that got a child has a slot of its own.
ChildrenKeepTheirSlot ==
  /\ \A c \in Conns : child[c] # "none" => Cardinality({s \in Slots : clients[s] = c}) = 1
  /\ pc = "fork" => clients[slot] # -1 /\ child[clients[slot]] = "none"

\* A child that received a request and was not killed has answered it and ended
\* the answer for the peer, who waits for that: the parent keeps the connection
\* open, so the child's exit does not end it.
AnswersAreEnded ==
  \A c \in Conns : child[c] = "exited" /\ clientfd[c] = "fd" => answered[c] /\ "WR" \in shut[c]

\* A request that reaches a child is answered unless its sender goes away,
\* whatever the parent and the other connections do.
RequestsAreAnswered ==
  \A c \in Conns : child[c] = "recv" /\ request[c] = "good" ~> answered[c] \/ Gone(c)

\* "ACCEPT connections while (1)" (server.c:49-50): the parent gets back to
\* accept as long as its own table has a slot that was never used.  It has none
\* to reuse: a child's -1 is stored in the child's copy.
KeepsAccepting ==
  pc = "scan" /\ (\E s \in Slots : clients[s] = -1) ~> pc = "accept"
=============================================================================
