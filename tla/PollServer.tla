----------------------------- MODULE PollServer -----------------------------
(***************************************************************************)
(* netipc/tcp/poll/server.c: the server of SelectServer around poll().     *)
(* Again a turn of the loop handles one kind of event, and revents is a    *)
(* snapshot.  Unlike the other one, this server tests accept(), keeps to   *)
(* the size of its array, and ignores what read() returns: it never closes *)
(* a connection, and a client that has left is readable for ever.          *)
(***************************************************************************)
EXTENDS Tcp, SequencesExt

CONSTANTS
  MAX_CONNECT,  \* the size of pfd, two entries of which are not connections
  Talkers       \* bound: the clients that do more than connect

ASSUME ArrayAssumption == MAX_CONNECT \in Nat /\ MAX_CONNECT > 2
ASSUME TalkersAssumption == Talkers \subseteq Clients

VARIABLES
  status,     \* of the process: "up", "exited" or "killed" (SIGPIPE)
  pc,         \* the place in the loop
  conn,       \* the descriptors pfd[2 .. nfds-1]
  revents,    \* the descriptors whose revents has POLLIN
  j           \* the loop index, counted from 1

srv  == <<status, pc, conn, revents, j>>
vars == <<net, srv>>

\* The socket listens, standard input and the listener are in pfd.
Init ==
  /\ NetInit
  /\ status = "up"
  /\ pc = "poll"
  /\ conn = <<>>
  /\ revents = {}
  /\ j = 1

At(label) == status = "up" /\ pc = label

Ends(s) == status' = s /\ UNCHANGED <<pc, conn, revents, j, net>>

\* j is dead until the next loop over the array.
NextTurn == pc' = "poll" /\ revents' = {} /\ j' = 1

Watched == {Stdin, Listener} \cup ToSet(conn)

\* Mutant of Poll: standard input comes first.
MutPoll ==
  /\ At("poll")
  /\ \E fd \in Watched : Readable(fd)
  /\ revents' = {fd \in Watched : Readable(fd)}
  /\ pc' = IF Stdin \in revents' THEN "stdin"
           ELSE IF Listener \in revents' THEN "accept" ELSE "scan"
  /\ UNCHANGED <<status, conn, j, net>>

\* poll(), and the choice of the branch.  EINTR is one more turn.
Poll ==
  /\ At("poll")
  /\ \E fd \in Watched : Readable(fd)
  /\ revents' = {fd \in Watched : Readable(fd)}
  /\ pc' = IF Listener \in revents' THEN "accept"
           ELSE IF Stdin \in revents' THEN "stdin" ELSE "scan"
  /\ UNCHANGED <<status, conn, j, net>>

\* poll() fails for want of memory.
PollFails == At("poll") /\ Ends("exited")

\* Mutant of Accept: the comparison with MAX_CONNECT is one short.
MutAccept ==
  /\ At("accept")
  /\ \E fd \in ConnFds :
       /\ Accepts(fd)
       /\ conn' = IF Len(conn) + 3 < MAX_CONNECT THEN Append(conn, fd) ELSE conn
  /\ NextTurn
  /\ UNCHANGED status

\* Mutant of Accept: the comparison forgets the two other entries.
MutAcceptMore ==
  /\ At("accept")
  /\ \E fd \in ConnFds :
       /\ Accepts(fd)
       /\ conn' = IF Len(conn) < MAX_CONNECT THEN Append(conn, fd) ELSE conn
  /\ NextTurn
  /\ UNCHANGED status

\* The connection enters the array if there is room; otherwise it stays open
\* and nobody knows its descriptor.
Accept ==
  /\ At("accept")
  /\ \E fd \in ConnFds :
       /\ Accepts(fd)
       /\ conn' = IF Len(conn) + 2 < MAX_CONNECT THEN Append(conn, fd) ELSE conn
  /\ NextTurn
  /\ UNCHANGED status

\* No descriptor or memory is left.
AcceptFails == At("accept") /\ Ends("exited")

ReadStdin ==
  /\ At("stdin")
  /\ ReadsStdin
  /\ pc' = "tell"
  /\ UNCHANGED <<status, conn, revents, j>>

\* write() to the next client.
Tell ==
  /\ At("tell")
  /\ j <= Len(conn)
  /\ Writes(conn[j])
  /\ j' = j + 1
  /\ UNCHANGED <<status, pc, conn, revents>>

\* Nobody catches SIGPIPE.
TellKills ==
  /\ At("tell")
  /\ j <= Len(conn)
  /\ RaisesSigpipe(conn[j])
  /\ Ends("killed")

Turn == At("scan") /\ j <= Len(conn)

Skip ==
  /\ Turn
  /\ conn[j] \notin revents
  /\ j' = j + 1
  /\ UNCHANGED <<status, pc, conn, revents, net>>

\* read() gives data, the end or an error; it is all the same to the server.
Hear(fd) ==
  /\ Turn
  /\ conn[j] = fd
  /\ fd \in revents
  /\ \/ ReadsData(fd)
     \/ ReadsEnd(fd) /\ UNCHANGED net
     \/ TakesError(fd)
  /\ j' = j + 1
  /\ UNCHANGED <<status, pc, conn, revents>>

\* The loop over the array ends.
Again ==
  /\ At("tell") \/ At("scan")
  /\ j > Len(conn)
  /\ NextTurn
  /\ UNCHANGED <<status, conn, net>>

ServerStep ==
  \/ Poll
  \/ Accept \/ AcceptFails
  \/ ReadStdin \/ Tell \/ TellKills
  \/ Skip \/ (\E fd \in ConnFds : Hear(fd))
  \/ Again

Next ==
  \/ ServerStep \/ PollFails
  \/ /\ status = "up"
     /\ \/ \E c \in Clients : Connect(c)
        \/ \E c \in Talkers : Send(c) \/ Close(c) \/ Reset(c)
        \/ TypeLine \/ EndInput
     /\ UNCHANGED srv

Spec == Init /\ [][Next]_vars

\* The server runs; the outside need not do anything.
FairSpec == Spec /\ WF_vars(ServerStep)

-----------------------------------------------------------------------------
(* Properties.                                                             *)

\* Every variable has its type.
TypeOK ==
  /\ NetTypeOK
  /\ status \in {"up", "exited", "killed"}
  /\ pc \in {"poll", "accept", "stdin", "tell", "scan"}
  /\ conn \in Seq(ConnFds)
  /\ Len(conn) + 2 <= MAX_CONNECT
  /\ revents \subseteq Watched
  /\ j \in 1 .. (MAX_CONNECT - 1)

\* The array names open connections, each once, and a connection is missing
\* from it only if it is full (lines 108-112).  What poll() has found is still
\* there when the thread comes to it, so that no accept() or read() blocks.
ArrayExact ==
  /\ ToSet(conn) \subseteq OpenFds
  /\ \A k, l \in DOMAIN conn : conn[k] = conn[l] => k = l
  /\ Len(conn) + 2 < MAX_CONNECT => ToSet(conn) = OpenFds
  /\ At("accept") => Readable(Listener)
  /\ At("stdin") => Readable(Stdin)
  /\ At("scan") => \A k \in j .. Len(conn) : conn[k] \in revents => Readable(conn[k])

\* A connection request is answered whatever else happens, be it that standard
\* input or clients that have left are ready at every turn.
RequestAnswered ==
  \A c \in Clients :
    (\E k \in DOMAIN backlog : backlog[k] = c) ~>
      ((\A k \in DOMAIN backlog : backlog[k] # c) \/ status # "up")

\* Of the clients in the array, each is heard again and again until nothing is
\* left of what it sent, however many have left before it, unless connection
\* requests or standard input keep coming or the server ends.
ClientHeard ==
  \A fd \in ConnFds :
    \/ []<>(fd \in ToSet(conn) => inbox[who[fd]] = 0)
    \/ []<><<Hear(fd)>>_vars
    \/ []<><<Accept>>_vars
    \/ []<><<ReadStdin>>_vars
    \/ <>(status # "up")

\* Both promises to clients.
Served == RequestAnswered /\ ClientHeard
=============================================================================
