-------------------------------- MODULE Tcp --------------------------------
(***************************************************************************)
(* What a TCP server of netipc/tcp sees of the world: its standard input,  *)
(* the queue of its listening socket, the clients behind its connections   *)
(* and the descriptors the kernel gives it.  A client connects, sends,     *)
(* closes its end or resets the connection whenever it likes.              *)
(*                                                                         *)
(* Data is counted in units of one read().  A server's write() is not      *)
(* modelled to block: clients read what they are sent.                     *)
(***************************************************************************)
EXTENDS Integers, Sequences

CONSTANTS
  Clients,
  NoClient,
  FD_LIMIT,     \* descriptors of the server are below this number
  MaxData       \* bound: units of data a client has under way

Stdin    == 0
Listener == 3
ConnFds  == 4 .. (FD_LIMIT - 1)

ASSUME FdAssumption == FD_LIMIT \in Nat /\ FD_LIMIT > 4
ASSUME ClientAssumption == NoClient \notin Clients /\ MaxData \in Nat

VARIABLES
  stdin,      \* "quiet", "ready" (a line was typed) or "eof"
  peer,       \* each client: "none", "open", "fin" (closed), "rst" (reset), or
              \* "broken" (reset, and the server has been told or had read the end)
  inbox,      \* what each has sent and the server has not read
  backlog,    \* the clients waiting to be accepted
  who         \* the client behind each of the server's descriptors

net == <<stdin, peer, inbox, backlog, who>>

NetInit ==
  /\ stdin = "quiet"
  /\ peer = [c \in Clients |-> "none"]
  /\ inbox = [c \in Clients |-> 0]
  /\ backlog = <<>>
  /\ who = [fd \in ConnFds |-> NoClient]

-----------------------------------------------------------------------------
(* The outside.                                                            *)

Connect(c) ==
  /\ peer[c] = "none"
  /\ peer' = [peer EXCEPT ![c] = "open"]
  /\ backlog' = Append(backlog, c)
  /\ UNCHANGED <<stdin, inbox, who>>

Send(c) ==
  /\ peer[c] = "open"
  /\ inbox[c] < MaxData
  /\ inbox' = [inbox EXCEPT ![c] = @ + 1]
  /\ UNCHANGED <<stdin, peer, backlog, who>>

Close(c) ==
  /\ peer[c] = "open"
  /\ peer' = [peer EXCEPT ![c] = "fin"]
  /\ UNCHANGED <<stdin, inbox, backlog, who>>

\* A client that has closed its end resets the connection when the server
\* still writes to it.
Reset(c) ==
  /\ peer[c] \in {"open", "fin"}
  /\ peer' = [peer EXCEPT ![c] = IF @ = "open" THEN "rst" ELSE "broken"]
  /\ UNCHANGED <<stdin, inbox, backlog, who>>

TypeLine ==
  /\ stdin = "quiet"
  /\ stdin' = "ready"
  /\ UNCHANGED <<peer, inbox, backlog, who>>

EndInput ==
  /\ stdin # "eof"
  /\ stdin' = "eof"
  /\ UNCHANGED <<peer, inbox, backlog, who>>

Outside ==
  \/ \E c \in Clients : Connect(c) \/ Send(c) \/ Close(c) \/ Reset(c)
  \/ TypeLine
  \/ EndInput

-----------------------------------------------------------------------------
(* System calls of the server.                                             *)

OpenFds == {fd \in ConnFds : who[fd] # NoClient}

\* read() or accept() on the descriptor would return at once.
Readable(fd) ==
  \/ fd = Stdin /\ stdin # "quiet"
  \/ fd = Listener /\ backlog # <<>>
  \/ fd \in OpenFds /\ (inbox[who[fd]] > 0 \/ peer[who[fd]] # "open")

\* accept() returns the lowest free descriptor, connected to the first in the queue.
Accepts(fd) ==
  /\ backlog # <<>>
  /\ fd \in ConnFds \ OpenFds
  /\ \A f \in ConnFds \ OpenFds : fd <= f
  /\ who' = [who EXCEPT ![fd] = Head(backlog)]
  /\ backlog' = Tail(backlog)
  /\ UNCHANGED <<stdin, peer, inbox>>

\* read() of standard input, which returns 0 for ever at its end.
ReadsStdin ==
  /\ stdin # "quiet"
  /\ stdin' = IF stdin = "eof" THEN "eof" ELSE "quiet"
  /\ UNCHANGED <<peer, inbox, backlog, who>>

\* read() of a connection returns data.
ReadsData(fd) ==
  /\ fd \in OpenFds
  /\ inbox[who[fd]] > 0
  /\ inbox' = [inbox EXCEPT ![who[fd]] = @ - 1]
  /\ UNCHANGED <<stdin, peer, backlog, who>>

\* read() of a connection returns 0: its end, which follows the data.
ReadsEnd(fd) ==
  /\ fd \in OpenFds
  /\ inbox[who[fd]] = 0
  /\ peer[who[fd]] \in {"fin", "broken"}

\* read() of a connection returns -1, once.
ReadsError(fd) ==
  /\ fd \in OpenFds
  /\ inbox[who[fd]] = 0
  /\ peer[who[fd]] = "rst"

\* That read(), by a server that goes on: the next one finds the end.
TakesError(fd) ==
  /\ ReadsError(fd)
  /\ peer' = [peer EXCEPT ![who[fd]] = "broken"]
  /\ UNCHANGED <<stdin, inbox, backlog, who>>

\* write() to a connection that is broken raises SIGPIPE; the first one after
\* a reset returns -1, like a write() to no connection.
RaisesSigpipe(fd) == fd \in OpenFds /\ peer[who[fd]] = "broken"

Writes(fd) ==
  /\ ~RaisesSigpipe(fd)
  /\ peer' = [c \in Clients |->
       IF fd \in OpenFds /\ who[fd] = c /\ peer[c] = "rst" THEN "broken" ELSE peer[c]]
  /\ UNCHANGED <<stdin, inbox, backlog, who>>

\* close() of a connection; the client may come again.
Closes(fd) ==
  /\ who' = [who EXCEPT ![fd] = NoClient]
  /\ peer' = [peer EXCEPT ![who[fd]] = "none"]
  /\ inbox' = [inbox EXCEPT ![who[fd]] = 0]
  /\ UNCHANGED <<stdin, backlog>>

NetTypeOK ==
  /\ stdin \in {"quiet", "ready", "eof"}
  /\ peer \in [Clients -> {"none", "open", "fin", "rst", "broken"}]
  /\ inbox \in [Clients -> 0 .. MaxData]
  /\ backlog \in Seq(Clients)
  /\ who \in [ConnFds -> Clients \cup {NoClient}]
=============================================================================
