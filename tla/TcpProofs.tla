----------------------------- MODULE TcpProofs -----------------------------
(***************************************************************************)
(* Lemmas about Tcp: what stays true of the connections whatever the       *)
(* outside and a server do, and what of a descriptor's readiness survives. *)
(***************************************************************************)
EXTENDS Tcp, SequencesExt, TLAPS

\* Who waits to be accepted waits once.
QueueExact ==
  /\ \A k \in DOMAIN backlog : peer[backlog[k]] # "none"
  /\ \A k, l \in DOMAIN backlog : backlog[k] = backlog[l] => k = l

\* A client has one connection at most, and has none while it waits for it.
ConnectionsExact ==
  /\ \A f \in OpenFds : peer[who[f]] # "none"
  /\ \A f, g \in OpenFds : who[f] = who[g] => f = g
  /\ \A f \in OpenFds, k \in DOMAIN backlog : who[f] # backlog[k]

NetInv == NetTypeOK /\ QueueExact /\ ConnectionsExact

\* Everything that can be read now can be read in the next state.
StaysReadable == \A fd \in {Stdin, Listener} \cup OpenFds : Readable(fd) => Readable(fd)'

LEMMA Fds == Stdin \notin ConnFds /\ Listener \notin ConnFds /\ Stdin # Listener
BY FdAssumption DEF Stdin, Listener, ConnFds

LEMMA ClientOf ==
  ASSUME NetTypeOK, NEW fd \in OpenFds
  PROVE  fd \in ConnFds /\ who[fd] \in Clients
BY DEF OpenFds, NetTypeOK

LEMMA NetInvInit == NetInit => NetInv /\ OpenFds = {}
<1> SUFFICES ASSUME NetInit PROVE NetInv /\ OpenFds = {}
  OBVIOUS
<1>1. OpenFds = {}
  BY DEF NetInit, OpenFds
<1>2. NetTypeOK
  BY ClientAssumption DEF NetInit, NetTypeOK
<1>3. QueueExact
  BY DEF NetInit, QueueExact
<1> QED BY <1>1, <1>2, <1>3 DEF NetInv, ConnectionsExact

-----------------------------------------------------------------------------
(* The outside opens and closes no descriptor and takes nothing back.      *)

LEMMA ConnectStep ==
  ASSUME NetInv, NEW c \in Clients, Connect(c)
  PROVE  NetInv' /\ OpenFds' = OpenFds /\ StaysReadable
<1> USE DEF NetInv, Connect
<1>1. OpenFds' = OpenFds
  BY DEF OpenFds
<1>2. /\ backlog' = Append(backlog, c)
      /\ backlog \in Seq(Clients)
      /\ DOMAIN backlog = 1 .. Len(backlog)
      /\ Len(backlog) \in Nat
      /\ backlog' \in Seq(Clients)
      /\ DOMAIN backlog' = 1 .. (Len(backlog) + 1)
      /\ \A k \in DOMAIN backlog : backlog'[k] = backlog[k]
      /\ backlog'[Len(backlog) + 1] = c
      /\ backlog' # <<>>
  BY DEF NetTypeOK
<1>3. \A d \in Clients : peer'[d] = IF d = c THEN "open" ELSE peer[d]
  BY DEF NetTypeOK
<1>4. \A k \in DOMAIN backlog : backlog[k] \in Clients /\ backlog[k] # c
  BY <1>2 DEF QueueExact
<1>5. \A f \in OpenFds : who[f] \in Clients /\ who[f] # c
  BY ClientOf DEF ConnectionsExact
<1>6. NetTypeOK'
  BY <1>2 DEF NetTypeOK
<1>7. QueueExact'
  BY <1>2, <1>3, <1>4 DEF QueueExact
<1>8. ConnectionsExact'
  BY <1>1, <1>2, <1>3, <1>4, <1>5 DEF ConnectionsExact
<1>9. StaysReadable
  BY <1>1, <1>2, <1>3, <1>5, Fds DEF StaysReadable, Readable
<1> QED BY <1>1, <1>6, <1>7, <1>8, <1>9

\* Steps that open and close nothing and neither end nor open a client's side.
LEMMA SameConnections ==
  ASSUME NetInv, NetTypeOK', UNCHANGED <<backlog, who>>,
         \A c \in Clients : peer[c] = "none" <=> peer'[c] = "none"
  PROVE  NetInv' /\ OpenFds' = OpenFds
<1>1. OpenFds' = OpenFds
  BY DEF OpenFds
<1>2. \A f \in OpenFds : who[f] \in Clients
  BY ClientOf DEF NetInv
<1>3. \A k \in DOMAIN backlog : backlog[k] \in Clients
  BY DEF NetInv, NetTypeOK
<1>4. QueueExact'
  BY <1>3 DEF NetInv, QueueExact
<1>5. ConnectionsExact'
  BY <1>1, <1>2 DEF NetInv, ConnectionsExact
<1> QED BY <1>1, <1>4, <1>5 DEF NetInv

LEMMA ClientStep ==
  ASSUME NetInv, NEW c \in Clients, Send(c) \/ Close(c) \/ Reset(c)
  PROVE  NetInv' /\ OpenFds' = OpenFds /\ StaysReadable
<1>1. NetTypeOK' /\ UNCHANGED <<backlog, who, stdin>>
  <2>1. CASE Send(c)
    BY <2>1, ClientAssumption DEF NetInv, NetTypeOK, Send
  <2>2. CASE Close(c)
    BY <2>2 DEF NetInv, NetTypeOK, Close
  <2>3. CASE Reset(c)
    BY <2>3 DEF NetInv, NetTypeOK, Reset
  <2> QED BY <2>1, <2>2, <2>3
<1>2. \A d \in Clients : (peer[d] = "none" <=> peer'[d] = "none") /\ (peer[d] # "open" => peer'[d] # "open")
  BY DEF NetInv, NetTypeOK, Send, Close, Reset
<1>3. \A d \in Clients : inbox[d] > 0 => inbox'[d] > 0
  BY ClientAssumption DEF NetInv, NetTypeOK, Send, Close, Reset
<1>4. OpenFds' = OpenFds
  BY <1>1 DEF OpenFds
<1>5. \A f \in OpenFds : who[f] \in Clients
  BY ClientOf DEF NetInv
<1>6. StaysReadable
  BY <1>1, <1>2, <1>3, <1>4, <1>5, Fds DEF StaysReadable, Readable
<1> QED BY <1>1, <1>2, <1>6, SameConnections

LEMMA TypingStep ==
  ASSUME NetInv, TypeLine \/ EndInput
  PROVE  NetInv' /\ OpenFds' = OpenFds /\ StaysReadable
<1>1. NetTypeOK' /\ UNCHANGED <<backlog, who, peer, inbox>> /\ stdin' # "quiet"
  BY DEF NetInv, NetTypeOK, TypeLine, EndInput
<1>2. StaysReadable
  BY <1>1, Fds DEF StaysReadable, Readable, OpenFds
<1> QED BY <1>1, <1>2, SameConnections

\* Whatever the outside does, the server's descriptors stay open, and readable
\* if they were.
LEMMA OutsideStep ==
  ASSUME NetInv, Outside
  PROVE  NetInv' /\ OpenFds' = OpenFds /\ StaysReadable
BY ConnectStep, ClientStep, TypingStep DEF Outside

-----------------------------------------------------------------------------
(* The server's calls.                                                     *)

\* accept() opens a descriptor that was free.
LEMMA AcceptsStep ==
  ASSUME NetInv, NEW fd \in ConnFds, Accepts(fd)
  PROVE  NetInv' /\ OpenFds' = OpenFds \cup {fd} /\ fd \notin OpenFds
<1> USE DEF NetInv, Accepts
<1>1. /\ Head(backlog) = backlog[1]
      /\ 1 \in DOMAIN backlog
      /\ backlog[1] \in Clients
      /\ backlog' \in Seq(Clients)
      /\ \A k \in DOMAIN backlog' : k + 1 \in DOMAIN backlog /\ backlog'[k] = backlog[k + 1] /\ k + 1 # 1
      /\ \A k \in DOMAIN backlog' : k \in Int
  BY DEF NetTypeOK
<1>2. who' = [who EXCEPT ![fd] = backlog[1]] /\ backlog[1] # NoClient
  BY <1>1, ClientAssumption
<1>3. \A f \in ConnFds : who'[f] = IF f = fd THEN backlog[1] ELSE who[f]
  BY <1>2 DEF NetTypeOK
<1>4. OpenFds' = OpenFds \cup {fd} /\ fd \notin OpenFds
  BY <1>2, <1>3 DEF OpenFds
<1>5. NetTypeOK'
  BY <1>1, <1>2 DEF NetTypeOK
<1>6. QueueExact'
  BY <1>1 DEF QueueExact
<1>7. \A f \in OpenFds : f \in ConnFds /\ f # fd
  BY <1>4 DEF OpenFds
<1>8. ConnectionsExact'
  <2>1. \A f \in OpenFds' : peer'[who'[f]] # "none"
    BY <1>1, <1>3, <1>4, <1>7 DEF ConnectionsExact, QueueExact
  <2>2. \A f, g \in OpenFds' : who'[f] = who'[g] => f = g
    BY <1>1, <1>3, <1>4, <1>7 DEF ConnectionsExact
  <2>3. ASSUME NEW f \in OpenFds', NEW k \in DOMAIN backlog' PROVE who'[f] # backlog'[k]
    <3>1. CASE f = fd
      BY <1>1, <1>3, <3>1 DEF QueueExact
    <3>2. CASE f # fd
      BY <1>1, <1>3, <1>4, <1>7, <3>2 DEF ConnectionsExact
    <3> QED BY <3>1, <3>2
  <2> QED BY <2>1, <2>2, <2>3 DEF ConnectionsExact
<1> QED BY <1>4, <1>5, <1>6, <1>8

LEMMA ReadsStdinStep ==
  ASSUME NetInv, ReadsStdin
  PROVE  NetInv' /\ OpenFds' = OpenFds
<1>1. NetTypeOK' /\ UNCHANGED <<backlog, who, peer>>
  BY DEF NetInv, NetTypeOK, ReadsStdin
<1> QED BY <1>1, SameConnections

\* read() takes nothing from another connection.
LEMMA ReadsDataStep ==
  ASSUME NetInv, NEW fd \in OpenFds, ReadsData(fd)
  PROVE  /\ NetInv' /\ OpenFds' = OpenFds
         /\ \A f \in OpenFds \ {fd} : Readable(f) => Readable(f)'
<1>1. who[fd] \in Clients
  BY ClientOf DEF NetInv
<1>2. NetTypeOK' /\ UNCHANGED <<backlog, who, peer, stdin>>
  BY <1>1, ClientAssumption DEF NetInv, NetTypeOK, ReadsData
<1>3. OpenFds' = OpenFds
  BY <1>2 DEF OpenFds
<1>4. ASSUME NEW f \in OpenFds \ {fd}, Readable(f) PROVE Readable(f)'
  <2>1. who[f] \in Clients /\ who[f] # who[fd] /\ f \in ConnFds
    BY ClientOf DEF NetInv, ConnectionsExact
  <2>2. inbox'[who'[f]] = inbox[who[f]] /\ peer'[who'[f]] = peer[who[f]]
    BY <2>1, <1>2 DEF NetInv, NetTypeOK, ReadsData
  <2> QED BY <1>2, <1>3, <1>4, <2>1, <2>2, Fds DEF Readable
<1> QED BY <1>2, <1>3, <1>4, SameConnections

LEMMA TakesErrorStep ==
  ASSUME NetInv, NEW fd \in OpenFds, TakesError(fd)
  PROVE  NetInv' /\ OpenFds' = OpenFds /\ StaysReadable
<1>1. who[fd] \in Clients
  BY ClientOf DEF NetInv
<1>2. NetTypeOK' /\ UNCHANGED <<backlog, who, inbox, stdin>>
  BY <1>1 DEF NetInv, NetTypeOK, TakesError
<1>3. \A d \in Clients : (peer[d] = "none" <=> peer'[d] = "none") /\ (peer[d] # "open" => peer'[d] # "open")
  BY <1>1 DEF NetInv, NetTypeOK, TakesError, ReadsError
<1>4. OpenFds' = OpenFds /\ \A f \in OpenFds : who[f] \in Clients
  BY <1>2, ClientOf DEF OpenFds, NetInv
<1>5. StaysReadable
  BY <1>2, <1>3, <1>4, Fds DEF StaysReadable, Readable
<1> QED BY <1>2, <1>3, <1>5, SameConnections

LEMMA WritesStep ==
  ASSUME NetInv, NEW fd, Writes(fd)
  PROVE  NetInv' /\ OpenFds' = OpenFds /\ StaysReadable
<1>1. NetTypeOK' /\ UNCHANGED <<backlog, who, inbox, stdin>>
  BY DEF NetInv, NetTypeOK, Writes
<1>2. \A d \in Clients : (peer[d] = "none" <=> peer'[d] = "none") /\ (peer[d] # "open" => peer'[d] # "open")
  BY DEF NetInv, NetTypeOK, Writes
<1>3. OpenFds' = OpenFds /\ \A f \in OpenFds : who[f] \in Clients
  BY <1>1, ClientOf DEF OpenFds, NetInv
<1>4. StaysReadable
  BY <1>1, <1>2, <1>3, Fds DEF StaysReadable, Readable
<1> QED BY <1>1, <1>2, <1>4, SameConnections

\* close() leaves the other connections as they are.
LEMMA ClosesStep ==
  ASSUME NetInv, NEW fd \in OpenFds, Closes(fd)
  PROVE  /\ NetInv' /\ OpenFds' = OpenFds \ {fd}
         /\ \A f \in OpenFds \ {fd} : Readable(f) => Readable(f)'
<1>1. fd \in ConnFds /\ who[fd] \in Clients
  BY ClientOf DEF NetInv
<1>2. NetTypeOK' /\ UNCHANGED <<backlog, stdin>>
  BY <1>1, ClientAssumption DEF NetInv, NetTypeOK, Closes
<1>3. \A f \in ConnFds : who'[f] = IF f = fd THEN NoClient ELSE who[f]
  BY DEF NetInv, NetTypeOK, Closes
<1>4. OpenFds' = OpenFds \ {fd}
  BY <1>1, <1>3 DEF OpenFds
<1>5. \A d \in Clients \ {who[fd]} : peer'[d] = peer[d] /\ inbox'[d] = inbox[d]
  BY DEF NetInv, NetTypeOK, Closes
<1>6. \A f \in OpenFds \ {fd} : f \in ConnFds /\ who'[f] = who[f] /\ who[f] \in Clients \ {who[fd]}
  BY <1>3, ClientOf DEF NetInv, ConnectionsExact
<1>7. \A k \in DOMAIN backlog : backlog[k] \in Clients \ {who[fd]}
  BY DEF NetInv, NetTypeOK, ConnectionsExact
<1>8. QueueExact'
  BY <1>2, <1>5, <1>7 DEF NetInv, QueueExact
<1>9. ConnectionsExact'
  BY <1>2, <1>4, <1>5, <1>6 DEF NetInv, ConnectionsExact
<1>10. ASSUME NEW f \in OpenFds \ {fd}, Readable(f) PROVE Readable(f)'
  BY <1>2, <1>4, <1>5, <1>6, <1>10, Fds DEF Readable
<1> QED BY <1>2, <1>4, <1>8, <1>9, <1>10 DEF NetInv

-----------------------------------------------------------------------------
(* The servers' tables.                                                    *)

LEMMA Appended ==
  ASSUME NEW S, NEW s \in Seq(S), NEW e \in S
  PROVE  /\ Append(s, e) \in Seq(S)
         /\ Len(Append(s, e)) = Len(s) + 1
         /\ DOMAIN Append(s, e) = 1 .. (Len(s) + 1)
         /\ \A k \in 1 .. Len(s) : Append(s, e)[k] = s[k]
         /\ Append(s, e)[Len(s) + 1] = e
         /\ ToSet(Append(s, e)) = ToSet(s) \cup {e}
<1>1. /\ Append(s, e) \in Seq(S)
      /\ Len(Append(s, e)) = Len(s) + 1
      /\ DOMAIN Append(s, e) = 1 .. (Len(s) + 1)
      /\ \A k \in 1 .. Len(s) : Append(s, e)[k] = s[k]
      /\ Append(s, e)[Len(s) + 1] = e
  OBVIOUS
<1>2. DOMAIN s = 1 .. Len(s) /\ Len(s) \in Nat
  OBVIOUS
<1>3. ToSet(Append(s, e)) = ToSet(s) \cup {e}
  BY <1>1, <1>2 DEF ToSet
<1> QED BY <1>1, <1>3
=============================================================================
