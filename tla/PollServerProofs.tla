-------------------------- MODULE PollServerProofs -------------------------
(***************************************************************************)
(* Theorems about the poll server, for any number of clients and           *)
(* descriptors and any size of its array.                                  *)
(***************************************************************************)
EXTENDS PollServer, TcpProofs

\* The inductive invariant.
IInv == TypeOK /\ NetInv /\ ArrayExact

LEMMA InvInit == Init => IInv
<1> SUFFICES ASSUME Init PROVE IInv
  OBVIOUS
<1>1. NetInv /\ OpenFds = {}
  BY NetInvInit DEF Init
<1>2. conn = <<>> /\ conn \in Seq(ConnFds) /\ Len(conn) = 0 /\ DOMAIN conn = {} /\ ToSet(conn) = {}
  BY DEF Init, ToSet
<1>3. TypeOK
  BY <1>1, <1>2, ArrayAssumption DEF Init, TypeOK, NetInv
<1>4. ArrayExact
  BY <1>1, <1>2 DEF Init, ArrayExact, At
<1> QED BY <1>1, <1>3, <1>4 DEF IInv

-----------------------------------------------------------------------------
(* The invariant is kept, one lemma per action.                            *)

\* Steps that leave the array and the open connections as they are.
LEMMA SameArray ==
  ASSUME IInv, NetInv', OpenFds' = OpenFds, UNCHANGED conn,
         status' \in {"up", "exited", "killed"},
         pc' \in {"poll", "accept", "stdin", "tell", "scan"},
         revents' \subseteq Watched, j' \in 1 .. (MAX_CONNECT - 1)
  PROVE  /\ TypeOK'
         /\ ToSet(conn') \subseteq OpenFds'
         /\ \A k, l \in DOMAIN conn' : conn'[k] = conn'[l] => k = l
         /\ Len(conn') + 2 < MAX_CONNECT => ToSet(conn') = OpenFds'
BY DEF IInv, NetInv, TypeOK, ArrayExact, Watched

LEMMA SameNet ==
  ASSUME IInv, UNCHANGED net
  PROVE  NetInv' /\ OpenFds' = OpenFds /\ \A fd : Readable(fd) <=> Readable(fd)'
BY DEF IInv, net, NetInv, NetTypeOK, QueueExact, ConnectionsExact, OpenFds, Readable

\* The loops stay within the array.
LEMMA IndexStep ==
  ASSUME IInv, j <= Len(conn)
  PROVE  j \in DOMAIN conn /\ j + 1 \in 1 .. (MAX_CONNECT - 1)
BY ArrayAssumption DEF IInv, TypeOK

LEMMA InArray ==
  ASSUME IInv, NEW k \in DOMAIN conn
  PROVE  conn[k] \in OpenFds
BY DEF IInv, ArrayExact, ToSet

LEMMA PollStep == IInv /\ Poll => IInv'
<1> SUFFICES ASSUME IInv, Poll PROVE IInv'
  OBVIOUS
<1>1. NetInv' /\ OpenFds' = OpenFds /\ \A fd : Readable(fd) <=> Readable(fd)'
  BY SameNet DEF Poll
<1>2. revents' \subseteq Watched /\ \A fd \in revents' : Readable(fd)
  BY DEF Poll
<1>3. UNCHANGED <<conn, j, status>> /\ pc' \in {"accept", "stdin", "scan"}
  BY DEF Poll
<1>4. /\ pc' = "accept" => Listener \in revents'
      /\ pc' = "stdin" => Stdin \in revents'
  BY DEF Poll
<1>5. status' \in {"up", "exited", "killed"} /\ j' \in 1 .. (MAX_CONNECT - 1)
  BY <1>3 DEF IInv, TypeOK
<1>6. TypeOK'
  BY <1>1, <1>2, <1>3, <1>5, SameArray
<1>7. ArrayExact'
  BY <1>1, <1>2, <1>3, <1>4, <1>5, SameArray DEF ArrayExact, At
<1> QED BY <1>1, <1>6, <1>7 DEF IInv

LEMMA EndStep ==
  ASSUME IInv, NEW s \in {"exited", "killed"}, Ends(s)
  PROVE  IInv'
<1>1. NetInv' /\ OpenFds' = OpenFds
  BY SameNet DEF Ends
<1>2. /\ UNCHANGED <<conn, pc, revents, j>> /\ status' = s
      /\ pc \in {"poll", "accept", "stdin", "tell", "scan"}
      /\ revents \subseteq Watched /\ j \in 1 .. (MAX_CONNECT - 1)
  BY DEF Ends, IInv, TypeOK
<1>3. TypeOK'
  BY <1>1, <1>2, SameArray
<1>4. ArrayExact'
  BY <1>1, <1>2, SameArray DEF ArrayExact, At
<1> QED BY <1>1, <1>3, <1>4 DEF IInv

LEMMA AcceptStep == IInv /\ Accept => IInv'
<1> SUFFICES ASSUME IInv, Accept PROVE IInv'
  OBVIOUS
<1>1. PICK fd \in ConnFds :
        /\ Accepts(fd)
        /\ conn' = IF Len(conn) + 2 < MAX_CONNECT THEN Append(conn, fd) ELSE conn
  BY DEF Accept
<1>2. NetInv' /\ OpenFds' = OpenFds \cup {fd} /\ fd \notin OpenFds
  BY <1>1, AcceptsStep DEF IInv
<1>3. /\ conn \in Seq(ConnFds)
      /\ DOMAIN conn = 1 .. Len(conn)
      /\ Len(conn) \in Nat
      /\ Len(conn) + 2 <= MAX_CONNECT
  BY DEF IInv, TypeOK
<1>4. UNCHANGED status /\ status = "up" /\ pc' = "poll" /\ revents' = {} /\ j' = 1
  BY DEF Accept, At, NextTurn
<1>5. CASE Len(conn) + 2 < MAX_CONNECT
  <2>1. /\ conn' \in Seq(ConnFds)
        /\ Len(conn') = Len(conn) + 1
        /\ DOMAIN conn' = 1 .. (Len(conn) + 1)
        /\ \A k \in 1 .. Len(conn) : conn'[k] = conn[k]
        /\ conn'[Len(conn) + 1] = fd
        /\ ToSet(conn') = ToSet(conn) \cup {fd}
    BY <1>1, <1>3, <1>5, Appended
  <2>2. TypeOK'
    BY <1>2, <1>3, <1>4, <1>5, <2>1, ArrayAssumption DEF NetInv, TypeOK
  <2>3. ToSet(conn') = OpenFds'
    BY <1>2, <1>5, <2>1 DEF IInv, ArrayExact
  <2>4. \A k \in 1 .. Len(conn) : conn[k] # fd
    BY <1>2, <1>3, InArray
  <2>5. \A k, l \in 1 .. Len(conn) : conn[k] = conn[l] => k = l
    BY <1>3 DEF IInv, ArrayExact
  <2>6. \A k, l \in DOMAIN conn' : conn'[k] = conn'[l] => k = l
    BY <1>3, <2>1, <2>4, <2>5
  <2> QED BY <1>2, <1>4, <2>2, <2>3, <2>6 DEF IInv, ArrayExact, At
<1>6. CASE ~(Len(conn) + 2 < MAX_CONNECT)
  <2>1. conn' = conn
    BY <1>1, <1>6
  <2>2. TypeOK'
    BY <1>2, <1>3, <1>4, <2>1, ArrayAssumption DEF NetInv, TypeOK
  <2>3. ToSet(conn') \subseteq OpenFds' /\ \A k, l \in DOMAIN conn' : conn'[k] = conn'[l] => k = l
    BY <1>2, <2>1 DEF IInv, ArrayExact
  <2> QED BY <1>2, <1>4, <1>6, <2>1, <2>2, <2>3 DEF IInv, ArrayExact, At
<1> QED BY <1>5, <1>6

LEMMA StdinStep == IInv /\ ReadStdin => IInv'
<1> SUFFICES ASSUME IInv, ReadStdin PROVE IInv'
  OBVIOUS
<1>1. NetInv' /\ OpenFds' = OpenFds
  BY ReadsStdinStep DEF IInv, ReadStdin
<1>2. /\ UNCHANGED <<conn, revents, j>> /\ status' = "up" /\ pc' = "tell"
      /\ revents \subseteq Watched /\ j \in 1 .. (MAX_CONNECT - 1)
  BY DEF ReadStdin, At, IInv, TypeOK
<1>3. TypeOK'
  BY <1>1, <1>2, SameArray
<1>4. ArrayExact'
  BY <1>1, <1>2, SameArray DEF ArrayExact, At
<1> QED BY <1>1, <1>3, <1>4 DEF IInv

LEMMA TellStep == IInv /\ Tell => IInv'
<1> SUFFICES ASSUME IInv, Tell PROVE IInv'
  OBVIOUS
<1>1. NetInv' /\ OpenFds' = OpenFds
  BY WritesStep DEF IInv, Tell
<1>2. /\ UNCHANGED <<conn, revents>> /\ status' = "up" /\ pc' = "tell"
      /\ revents \subseteq Watched /\ j' \in 1 .. (MAX_CONNECT - 1)
  BY IndexStep DEF Tell, At, IInv, TypeOK
<1>3. TypeOK'
  BY <1>1, <1>2, SameArray
<1>4. ArrayExact'
  BY <1>1, <1>2, SameArray DEF ArrayExact, At
<1> QED BY <1>1, <1>3, <1>4 DEF IInv

\* The loop goes on to the next client, and those that are left are as ready
\* as they were.
LEMMA NextClient ==
  ASSUME IInv, Turn, NetInv', OpenFds' = OpenFds, UNCHANGED <<status, pc, conn, revents>>,
         j' = j + 1,
         \A f \in OpenFds : f # conn[j] /\ Readable(f) => Readable(f)'
  PROVE  IInv'
<1>1. /\ j \in DOMAIN conn /\ j' \in 1 .. (MAX_CONNECT - 1)
      /\ status' = "up" /\ pc' = "scan" /\ revents \subseteq Watched
      /\ DOMAIN conn = 1 .. Len(conn) /\ Len(conn) \in Nat
  BY IndexStep DEF Turn, At, IInv, TypeOK
<1>2. TypeOK'
  BY <1>1, SameArray
<1>3. ASSUME NEW k \in (j + 1) .. Len(conn), NEW f, f = conn[k], f \in revents
      PROVE  Readable(f)'
  <2>1. k \in DOMAIN conn /\ k \in j .. Len(conn) /\ k # j
    BY <1>1
  <2>2. f \in OpenFds /\ f # conn[j]
    BY <1>1, <1>3, <2>1, InArray DEF IInv, ArrayExact
  <2>3. Readable(f)
    BY <1>3, <2>1 DEF IInv, ArrayExact, Turn
  <2> QED BY <2>2, <2>3
<1>4. ArrayExact'
  BY <1>1, <1>3, SameArray DEF ArrayExact, At
<1> QED BY <1>2, <1>4 DEF IInv

LEMMA SkipStep == IInv /\ Skip => IInv'
BY SameNet, NextClient DEF Skip

LEMMA HearStep == \A fd \in ConnFds : IInv /\ Hear(fd) => IInv'
<1> SUFFICES ASSUME NEW fd \in ConnFds, IInv, Hear(fd) PROVE IInv'
  OBVIOUS
<1>1. fd \in OpenFds /\ conn[j] = fd /\ Turn
  BY DEF Hear, ReadsData, ReadsEnd, TakesError, ReadsError
<1>2. NetInv' /\ OpenFds' = OpenFds /\ \A f \in OpenFds : f # fd /\ Readable(f) => Readable(f)'
  <2>1. CASE ReadsData(fd)
    BY <1>1, <2>1, ReadsDataStep DEF IInv
  <2>2. CASE ReadsEnd(fd) /\ UNCHANGED net
    BY <2>2, SameNet
  <2>3. CASE TakesError(fd)
    BY <1>1, <2>3, TakesErrorStep DEF IInv, StaysReadable
  <2> QED BY <2>1, <2>2, <2>3 DEF Hear
<1>3. UNCHANGED <<status, pc, conn, revents>> /\ j' = j + 1
  BY DEF Hear
<1> QED BY <1>1, <1>2, <1>3, NextClient

LEMMA AgainStep == IInv /\ Again => IInv'
<1> SUFFICES ASSUME IInv, Again PROVE IInv'
  OBVIOUS
<1>1. NetInv' /\ OpenFds' = OpenFds
  BY SameNet DEF Again
<1>2. UNCHANGED conn /\ status' = "up" /\ pc' = "poll" /\ revents' = {} /\ j' = 1
  BY DEF Again, At, NextTurn
<1>3. TypeOK'
  BY <1>1, <1>2, SameArray, ArrayAssumption
<1>4. ArrayExact'
  BY <1>1, <1>2, SameArray, ArrayAssumption DEF ArrayExact, At
<1> QED BY <1>1, <1>3, <1>4 DEF IInv

\* The outside, all of which Tcp allows to all clients.
LEMMA OutsideKeeps == IInv /\ Outside /\ UNCHANGED srv => IInv'
<1> SUFFICES ASSUME IInv, Outside, UNCHANGED srv PROVE IInv'
  OBVIOUS
<1>1. NetInv' /\ OpenFds' = OpenFds /\ StaysReadable
  BY OutsideStep DEF IInv
<1>2. /\ UNCHANGED <<status, pc, conn, revents, j>>
      /\ status \in {"up", "exited", "killed"}
      /\ pc \in {"poll", "accept", "stdin", "tell", "scan"}
      /\ revents \subseteq Watched /\ j \in 1 .. (MAX_CONNECT - 1)
      /\ DOMAIN conn = 1 .. Len(conn) /\ Len(conn) \in Nat
  BY DEF srv, IInv, TypeOK
<1>3. TypeOK'
  BY <1>1, <1>2, SameArray
<1>4. \A fd \in {Stdin, Listener} \cup OpenFds : Readable(fd) => Readable(fd)'
  BY <1>1 DEF StaysReadable
<1>5. ASSUME At("scan"), NEW k \in j .. Len(conn), NEW f, f = conn[k], f \in revents
      PROVE  Readable(f)'
  <2>1. k \in DOMAIN conn
    BY <1>2
  <2> QED BY <1>4, <1>5, <2>1, InArray DEF IInv, ArrayExact
<1>6. ArrayExact'
  <2>1. /\ At("accept") => Readable(Listener)'
        /\ At("stdin") => Readable(Stdin)'
    BY <1>4 DEF IInv, ArrayExact
  <2> QED BY <1>1, <1>2, <1>5, <2>1, SameArray DEF ArrayExact, At
<1> QED BY <1>1, <1>3, <1>6 DEF IInv

LEMMA Stutter == IInv /\ UNCHANGED vars => IInv'
<1> SUFFICES ASSUME IInv, UNCHANGED vars PROVE IInv'
  OBVIOUS
<1>1. NetInv' /\ OpenFds' = OpenFds /\ \A fd : Readable(fd) <=> Readable(fd)'
  BY SameNet DEF vars
<1>2. TypeOK'
  BY <1>1 DEF IInv, vars, srv, TypeOK, NetInv, Watched
<1>3. ArrayExact'
  BY <1>1 DEF IInv, vars, srv, ArrayExact, At
<1> QED BY <1>1, <1>2, <1>3 DEF IInv

LEMMA InvStep == IInv /\ [Next]_vars => IInv'
<1> SUFFICES ASSUME IInv, [Next]_vars PROVE IInv'
  OBVIOUS
<1>1. CASE AcceptFails \/ TellKills \/ PollFails
  BY <1>1, EndStep DEF AcceptFails, TellKills, PollFails
<1>2. CASE ServerStep
  BY <1>1, <1>2, PollStep, AcceptStep, StdinStep, TellStep, SkipStep, HearStep, AgainStep
  DEF ServerStep
<1>3. CASE UNCHANGED srv /\ ((\E c \in Clients : Connect(c))
                             \/ (\E c \in Talkers : Send(c) \/ Close(c) \/ Reset(c))
                             \/ TypeLine \/ EndInput)
  BY <1>3, OutsideKeeps, TalkersAssumption DEF Outside
<1> QED BY <1>1, <1>2, <1>3, Stutter DEF Next

LEMMA InvAlways == Spec => []IInv
BY InvInit, InvStep, PTL DEF Spec

-----------------------------------------------------------------------------
\* The variables keep their types; in particular nfds never exceeds the size of
\* pfd (line 108), nor do the loops over it (lines 115 and 120).
THEOREM TypeCorrect == Spec => []TypeOK
<1>1. IInv => TypeOK
  BY DEF IInv
<1> QED BY InvAlways, <1>1, PTL

\* However large the array and however many clients: it names each of its
\* connections once and misses one only when it is full (lines 108-112), and no
\* accept() or read() of the one thread blocks.
THEOREM ArrayIsExact == Spec => []ArrayExact
<1>1. IInv => ArrayExact
  BY DEF IInv
<1> QED BY InvAlways, <1>1, PTL
=============================================================================
