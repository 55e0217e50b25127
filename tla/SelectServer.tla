---------------------------- MODULE SelectServer ----------------------------
(***************************************************************************)
(* netipc/tcp/select/server.c: one thread serves a listening socket, its   *)
(* standard input (each line goes to all clients) and all connections (what *)
(* a client sends is printed) around select().                             *)
(*                                                                         *)
(* One turn of the loop is several steps, between which the outside moves: *)
(* tmp_rset is a snapshot that is old when it is used.  A turn handles one *)
(* kind of event only: a connection request, else a line of standard       *)
(* input, else the clients.                                                *)
(***************************************************************************)
EXTENDS Tcp, SequencesExt

CONSTANT MAX_CONNECT    \* the size of connected_arr

\* Were all accept() to succeed, connected_arr would be large enough.
ASSUME TableAssumption == MAX_CONNECT \in Nat /\ FD_LIMIT - 4 < MAX_CONNECT

VARIABLES
  status,     \* of the process: "up", "exited", "killed" (SIGPIPE) or
              \* "undefined" (after a store out of bounds)
  pc,         \* the place in the loop
  rset,       \* the set of watched descriptors
  tmp_rset,   \* those of them that select() found readable
  max_fd,
  conn,       \* connected_arr[0 .. i-1]
  j,          \* the loop index, counted from 1
  garbage     \* new_socket, which is never assigned, happens to be -1

srv  == <<status, pc, rset, tmp_rset, max_fd, conn, j, garbage>>
vars == <<net, srv>>

Failed == -1    \* what a failed accept() returns

Init ==
  /\ NetInit
  /\ status = "up"
  /\ pc = "select"
  /\ rset = {Stdin, Listener}
  /\ tmp_rset = {}
  /\ max_fd = Listener
  /\ conn = <<>>
  /\ j = 1
  /\ garbage \in BOOLEAN

At(label) == status = "up" /\ pc = label

\* The process ends with the status.
Ends(s) ==
  /\ status' = s
  /\ UNCHANGED <<pc, rset, tmp_rset, max_fd, conn, j, garbage, net>>

\* The next turn of the loop; j and tmp_rset are dead until select() returns.
NextTurn == pc' = "select" /\ tmp_rset' = {} /\ j' = 1

\* Mutant of Found: select() is given rset itself.
MutFound == rset

\* The readable ones of the watched descriptors, as far as max_fd reaches.
Found == {fd \in rset : fd <= max_fd /\ Readable(fd)}

\* select(), and the choice of the branch.
Select ==
  /\ At("select")
  /\ \E fd \in rset : fd <= max_fd /\ Readable(fd)
  /\ tmp_rset' = Found
  /\ pc' = IF Listener \in Found THEN "accept"
           ELSE IF Stdin \in Found THEN "stdin" ELSE "scan"
  /\ UNCHANGED <<status, rset, max_fd, conn, j, garbage, net>>

\* select() fails for want of memory.  EINTR is one more turn.
SelectFails == At("select") /\ Ends("exited")

-----------------------------------------------------------------------------
(* A connection request.                                                   *)

\* Mutant of Accept: max_fd is not raised.
MutAccept ==
  /\ At("accept")
  /\ ~garbage
  /\ Len(conn) < MAX_CONNECT
  /\ \E fd \in ConnFds :
       /\ Accepts(fd)
       /\ conn' = Append(conn, fd)
       /\ rset' = rset \cup {fd}
  /\ NextTurn
  /\ UNCHANGED <<status, max_fd, garbage>>

\* Mutant of Accept: max_fd is one too many.
MutAcceptCounts ==
  /\ At("accept")
  /\ ~garbage
  /\ Len(conn) < MAX_CONNECT
  /\ \E fd \in ConnFds :
       /\ Accepts(fd)
       /\ conn' = Append(conn, fd)
       /\ rset' = rset \cup {fd}
       /\ max_fd' = IF max_fd > fd THEN max_fd ELSE fd + 1
  /\ NextTurn
  /\ UNCHANGED <<status, garbage>>

\* The new connection enters the table and the watched set.
Accept ==
  /\ At("accept")
  /\ ~garbage
  /\ Len(conn) < MAX_CONNECT
  /\ \E fd \in ConnFds :
       /\ Accepts(fd)
       /\ conn' = Append(conn, fd)
       /\ rset' = rset \cup {fd}
       /\ max_fd' = IF max_fd > fd THEN max_fd ELSE fd
  /\ NextTurn
  /\ UNCHANGED <<status, garbage>>

\* The test looks at the wrong variable, and finds an error.
AcceptMisjudged ==
  /\ At("accept")
  /\ garbage
  /\ Ends("exited")

\* No descriptor or memory is left, and the request stays in the queue.  The
\* test looks at the wrong variable, and -1 enters the table; FD_SET() of it is
\* undefined: the process dies, or a bit is set that stands for no connection.
AcceptFails ==
  /\ At("accept")
  /\ ~garbage
  /\ Len(conn) < MAX_CONNECT
  /\ conn' = Append(conn, Failed)
  /\ status' \in {"up", "undefined"}
  /\ NextTurn
  /\ UNCHANGED <<rset, max_fd, garbage, net>>

\* Nothing compares i with MAX_CONNECT.
TableOverflows ==
  /\ At("accept")
  /\ Len(conn) = MAX_CONNECT
  /\ Ends("undefined")

-----------------------------------------------------------------------------
(* Standard input.                                                         *)

ReadStdin ==
  /\ At("stdin")
  /\ ReadsStdin
  /\ pc' = "tell"
  /\ UNCHANGED <<status, rset, tmp_rset, max_fd, conn, j, garbage>>

\* write() to the next client; errors are ignored.
Tell ==
  /\ At("tell")
  /\ j <= Len(conn)
  /\ Writes(conn[j])
  /\ j' = j + 1
  /\ UNCHANGED <<status, pc, rset, tmp_rset, max_fd, conn, garbage>>

\* Nobody catches SIGPIPE.
TellKills ==
  /\ At("tell")
  /\ j <= Len(conn)
  /\ RaisesSigpipe(conn[j])
  /\ Ends("killed")

-----------------------------------------------------------------------------
(* The clients.                                                            *)

Turn == At("scan") /\ j <= Len(conn)

\* FD_ISSET() says no; of -1 it may say anything.
Skip ==
  /\ Turn
  /\ conn[j] \notin tmp_rset
  /\ j' = j + 1
  /\ UNCHANGED <<status, pc, rset, tmp_rset, max_fd, conn, garbage, net>>

\* Data is printed.
Hear(fd) ==
  /\ Turn
  /\ conn[j] = fd
  /\ fd \in tmp_rset
  /\ ReadsData(fd)
  /\ j' = j + 1
  /\ UNCHANGED <<status, pc, rset, tmp_rset, max_fd, conn, garbage>>

\* Mutant of Drop: the descriptor stays watched.
MutDrop ==
  /\ Turn
  /\ conn[j] \in tmp_rset
  /\ ReadsEnd(conn[j])
  /\ Closes(conn[j])
  /\ conn' = RemoveAt(conn, j)
  /\ UNCHANGED <<status, pc, rset, tmp_rset, max_fd, j, garbage>>

\* Mutant of Drop: the descriptor stays open.
MutDropLeaks ==
  /\ Turn
  /\ conn[j] \in tmp_rset
  /\ ReadsEnd(conn[j])
  /\ rset' = rset \ {conn[j]}
  /\ conn' = RemoveAt(conn, j)
  /\ UNCHANGED <<status, pc, tmp_rset, max_fd, j, garbage, net>>

\* End of file: FD_CLR(), close(), and the rest of the table moves up one.
Drop ==
  /\ Turn
  /\ conn[j] \in tmp_rset
  /\ ReadsEnd(conn[j])
  /\ rset' = rset \ {conn[j]}
  /\ Closes(conn[j])
  /\ conn' = RemoveAt(conn, j)
  /\ UNCHANGED <<status, pc, tmp_rset, max_fd, j, garbage>>

\* read() fails, on a connection that was reset or on -1: the server gives up.
HearFails ==
  /\ Turn
  /\ conn[j] = Failed \/ (conn[j] \in tmp_rset /\ ReadsError(conn[j]))
  /\ Ends("exited")

-----------------------------------------------------------------------------
\* The loop over the table ends.
Again ==
  /\ At("tell") \/ At("scan")
  /\ j > Len(conn)
  /\ NextTurn
  /\ UNCHANGED <<status, rset, max_fd, conn, garbage, net>>

ServerStep ==
  \/ Select
  \/ Accept \/ AcceptMisjudged \/ AcceptFails \/ TableOverflows
  \/ ReadStdin \/ Tell \/ TellKills
  \/ Skip \/ (\E fd \in ConnFds : Hear(fd)) \/ Drop \/ HearFails
  \/ Again

Next ==
  \/ ServerStep \/ SelectFails
  \/ status = "up" /\ Outside /\ UNCHANGED srv

Spec == Init /\ [][Next]_vars

\* The server runs; the outside need not do anything.
FairSpec == Spec /\ WF_vars(ServerStep)

-----------------------------------------------------------------------------
(* Properties.                                                             *)

\* Every variable has its type.
TypeOK ==
  /\ NetTypeOK
  /\ status \in {"up", "exited", "killed", "undefined"}
  /\ pc \in {"select", "accept", "stdin", "tell", "scan"}
  /\ rset \subseteq {Stdin, Listener} \cup ConnFds
  /\ tmp_rset \subseteq rset \cup ConnFds
  /\ max_fd \in {Listener} \cup ConnFds
  /\ conn \in Seq(ConnFds \cup {Failed})
  /\ Len(conn) <= MAX_CONNECT
  /\ j \in 1 .. (MAX_CONNECT + 1)
  /\ garbage \in BOOLEAN

\* Whatever has come and gone in whatever order, with descriptors used again,
\* the server watches exactly what it has open, and max_fd covers it: a closed
\* descriptor in rset would make select() fail, an unwatched one would never
\* be heard (lines 107-109 and 128-132).
Watched ==
  /\ rset = {Stdin, Listener} \cup OpenFds
  /\ \A fd \in rset : fd <= max_fd

\* The table names each open connection once and no other: none leaks, none
\* is told a line twice (lines 102 and 129-132).  Unchecked as it is, the table
\* overflows only after an accept() has failed unnoticed.
TableExact ==
  /\ ToSet(conn) \ {Failed} = OpenFds
  /\ \A k, l \in DOMAIN conn : conn[k] = conn[l] /\ conn[k] # Failed => k = l
  /\ status = "undefined" => Failed \in ToSet(conn)

\* The single thread never blocks in accept() or read(), although what
\* select() has found may have changed when it gets there.
NeverBlocks ==
  /\ At("accept") => Readable(Listener)
  /\ At("stdin") => Readable(Stdin)
  /\ Turn /\ conn[j] \in tmp_rset => Readable(conn[j])

\* A client that has sent something is heard again and again until nothing is
\* left, unless connection requests or standard input keep coming, or the
\* server ends.
ClientHeard ==
  \A c \in Clients :
    \/ []<>(inbox[c] = 0)
    \/ []<><<\E fd \in ConnFds : who[fd] = c /\ Hear(fd)>>_vars
    \/ []<><<Accept \/ AcceptFails>>_vars
    \/ []<><<ReadStdin>>_vars
    \/ <>(status # "up")

\* What the comment on lines 73-77 says: the server waits for connection
\* requests, for standard input and for data of all connected clients.  So what
\* a client sends is read in the end, whatever the state of standard input.
AllWatched ==
  \A fd \in ConnFds :
    (fd \in OpenFds /\ inbox[who[fd]] > 0) ~>
      (fd \notin OpenFds \/ inbox[who[fd]] = 0 \/ status # "up")
=============================================================================
