------------------------- MODULE SelectServerProofs ------------------------
(***************************************************************************)
(* Theorems about the select server, for any number of clients and         *)
(* descriptors.                                                            *)
(***************************************************************************)
EXTENDS SelectServer, TcpProofs, FiniteSetTheorems, SequenceTheorems

-----------------------------------------------------------------------------
(* The inductive invariant.                                                *)

\* What select() found and the turn has still to handle is there: the entries
\* of the table before j have been handled.
SnapshotFresh ==
  /\ pc = "accept" => Readable(Listener)
  /\ pc = "stdin" => Readable(Stdin)
  /\ pc = "scan" => \A k \in DOMAIN conn : k >= j /\ conn[k] \in tmp_rset => Readable(conn[k])

IInv == TypeOK /\ NetInv /\ Watched /\ TableExact /\ SnapshotFresh

-----------------------------------------------------------------------------
(* Sequences.                                                              *)

LEMMA Places ==
  ASSUME NEW S, NEW s \in Seq(S)
  PROVE  DOMAIN s = 1 .. Len(s) /\ Len(s) \in Nat
OBVIOUS

LEMMA Removed ==
  ASSUME NEW S, NEW s \in Seq(S), NEW i \in 1 .. Len(s)
  PROVE  /\ RemoveAt(s, i) \in Seq(S)
         /\ Len(RemoveAt(s, i)) = Len(s) - 1
         /\ DOMAIN RemoveAt(s, i) = 1 .. (Len(s) - 1)
         /\ \A k \in 1 .. (Len(s) - 1) : RemoveAt(s, i)[k] = s[IF k < i THEN k ELSE k + 1]
<1> DEFINE a == SubSeq(s, 1, i - 1)
           b == SubSeq(s, i + 1, Len(s))
<1>1. Len(s) \in Nat /\ i \in Int /\ 1 <= i /\ i <= Len(s)
  OBVIOUS
<1>2. a \in Seq(S) /\ Len(a) = i - 1 /\ \A k \in 1 .. (i - 1) : a[k] = s[k]
  BY <1>1
<1>3. b \in Seq(S) /\ Len(b) = Len(s) - i /\ \A k \in 1 .. (Len(s) - i) : b[k] = s[k + i]
  BY <1>1
<1>4. RemoveAt(s, i) = a \o b
  BY DEF RemoveAt
<1> HIDE DEF a, b
<1>5. /\ a \o b \in Seq(S)
      /\ Len(a \o b) = Len(s) - 1
      /\ DOMAIN (a \o b) = 1 .. (Len(s) - 1)
      /\ \A k \in 1 .. (Len(s) - 1) : (a \o b)[k] = IF k < i THEN a[k] ELSE b[k - (i - 1)]
  <2>1. a \o b \in Seq(S) /\ Len(a \o b) = Len(a) + Len(b)
    BY <1>2, <1>3, ConcatProperties
  <2>2. Len(a \o b) = Len(s) - 1
    BY <1>1, <1>2, <1>3, <2>1
  <2>3. DOMAIN (a \o b) = 1 .. (Len(s) - 1)
    BY <2>1, <2>2, Places, Zenon
  <2>4. \A k \in 1 .. (Len(a) + Len(b)) : (a \o b)[k] = IF k <= Len(a) THEN a[k] ELSE b[k - Len(a)]
    BY <1>2, <1>3, ConcatProperties
  <2>5. \A k \in 1 .. (Len(s) - 1) : k <= i - 1 <=> k < i
    BY <1>1
  <2>6. \A k \in 1 .. (Len(s) - 1) : (a \o b)[k] = IF k < i THEN a[k] ELSE b[k - (i - 1)]
    BY <1>1, <1>2, <1>3, <2>4, <2>5
  <2> QED BY <2>1, <2>2, <2>3, <2>6
<1>6. ASSUME NEW k \in 1 .. (Len(s) - 1)
      PROVE  (a \o b)[k] = s[IF k < i THEN k ELSE k + 1]
  <2>1. CASE k < i
    <3>1. k \in 1 .. (i - 1)
      BY <1>1, <2>1
    <3> QED BY <1>2, <1>5, <2>1, <3>1
  <2>2. CASE k >= i
    <3>1. k - (i - 1) \in 1 .. (Len(s) - i) /\ (k - (i - 1)) + i = k + 1 /\ ~(k < i)
      BY <1>1, <2>2
    <3> QED BY <1>3, <1>5, <3>1
  <2>3. k < i \/ k >= i
    BY <1>1
  <2> QED BY <2>1, <2>2, <2>3
<1> QED BY <1>4, <1>5, <1>6

\* There are not more different connections than descriptors.
LEMMA FewConnections ==
  ASSUME NEW s \in Seq(ConnFds), \A k, l \in DOMAIN s : s[k] = s[l] => k = l
  PROVE  Len(s) <= FD_LIMIT - 4
<1>1. Len(s) \in Nat /\ DOMAIN s = 1 .. Len(s) /\ s \in [1 .. Len(s) -> ConnFds]
  OBVIOUS
<1>2. IsFiniteSet(ConnFds) /\ Cardinality(ConnFds) = FD_LIMIT - 4
  BY FS_Interval, FdAssumption DEF ConnFds
<1>3. IsFiniteSet(1 .. Len(s)) /\ Cardinality(1 .. Len(s)) = Len(s)
  BY FS_Interval, <1>1
<1>4. ASSUME FD_LIMIT - 4 < Len(s) PROVE FALSE
  <2>1. \E x, y \in 1 .. Len(s) : x # y /\ s[x] = s[y]
    BY <1>1, <1>2, <1>3, <1>4, FS_PigeonHole
  <2> QED BY <1>1, <2>1
<1> QED BY <1>1, <1>4, FdAssumption
-----------------------------------------------------------------------------
(* The invariant holds and is kept, one lemma per action.                  *)

LEMMA InvInit == Init => IInv
<1> SUFFICES ASSUME Init PROVE IInv
  OBVIOUS
<1>1. NetInv /\ OpenFds = {}
  BY NetInvInit DEF Init
<1>2. conn = <<>> /\ conn \in Seq(ConnFds \cup {Failed}) /\ Len(conn) = 0 /\ DOMAIN conn = {}
  BY DEF Init
<1>3. TypeOK
  BY <1>1, <1>2, TableAssumption DEF Init, TypeOK, NetInv
<1>4. Watched
  BY <1>1 DEF Init, Watched, Stdin, Listener
<1>5. TableExact
  BY <1>1, <1>2 DEF Init, TableExact, ToSet
<1>6. SnapshotFresh
  BY DEF Init, SnapshotFresh
<1> QED BY <1>1, <1>3, <1>4, <1>5, <1>6 DEF IInv

\* A descriptor of the table that is in the snapshot is no failed accept().
LEMMA FoundIsOpen ==
  ASSUME IInv, NEW k \in DOMAIN conn, conn[k] \in tmp_rset
  PROVE  conn[k] \in OpenFds /\ conn[k] \in ConnFds
<1>1. conn[k] \in ConnFds \cup {Failed} /\ conn[k] \in ToSet(conn)
  BY DEF IInv, TypeOK, ToSet
<1>2. Failed \notin tmp_rset
  BY FdAssumption DEF IInv, TypeOK, Failed, Stdin, Listener, ConnFds
<1> QED BY <1>1, <1>2 DEF IInv, TableExact

\* Steps that change neither the table, the sets nor the connections.
LEMMA SameTable ==
  ASSUME IInv, NetInv', OpenFds' = OpenFds,
         UNCHANGED <<rset, max_fd, conn, garbage>>,
         status' \in {"up", "exited", "killed"},
         tmp_rset' \subseteq rset \cup ConnFds, j' \in 1 .. (MAX_CONNECT + 1),
         pc' \in {"select", "accept", "stdin", "tell", "scan"}
  PROVE  TypeOK' /\ Watched' /\ TableExact'
BY DEF IInv, NetInv, TypeOK, Watched, TableExact

LEMMA SelectStep == IInv /\ Select => IInv'
<1> SUFFICES ASSUME IInv, Select PROVE IInv'
  OBVIOUS
<1>1. NetInv' /\ OpenFds' = OpenFds
  BY DEF IInv, Select, net, NetInv, NetTypeOK, QueueExact, ConnectionsExact, OpenFds
<1>2. tmp_rset' = Found /\ Found \subseteq rset /\ \A fd \in Found : Readable(fd)
  BY DEF Select, Found
<1>3. \A fd : Readable(fd) <=> Readable(fd)'
  BY DEF Select, net, Readable, OpenFds
<1>4. UNCHANGED <<rset, max_fd, conn, garbage, status, j>>
  BY DEF Select
<1>5. status' = "up" /\ pc' \in {"accept", "stdin", "scan"}
  BY DEF Select, At
<1>6. j' \in 1 .. (MAX_CONNECT + 1)
  BY <1>4 DEF IInv, TypeOK
<1>7. TypeOK' /\ Watched' /\ TableExact'
  BY <1>1, <1>2, <1>4, <1>5, <1>6, SameTable
<1>8. SnapshotFresh'
  BY <1>2, <1>3 DEF Select, SnapshotFresh
<1> QED BY <1>1, <1>7, <1>8 DEF IInv

\* The process ends; what was there stays there.
LEMMA EndStep ==
  ASSUME IInv, NEW s \in {"exited", "killed"}, Ends(s)
  PROVE  IInv'
<1>1. NetInv' /\ OpenFds' = OpenFds
  BY DEF IInv, Ends, net, NetInv, NetTypeOK, QueueExact, ConnectionsExact, OpenFds
<1>2. TypeOK' /\ Watched' /\ TableExact'
  BY <1>1, SameTable DEF Ends, IInv, TypeOK
<1>3. SnapshotFresh'
  BY <1>1 DEF IInv, Ends, net, SnapshotFresh, Readable
<1> QED BY <1>1, <1>2, <1>3 DEF IInv

LEMMA AcceptStep == IInv /\ Accept => IInv'
<1> SUFFICES ASSUME IInv, Accept PROVE IInv'
  OBVIOUS
<1>1. PICK fd \in ConnFds :
        /\ Accepts(fd)
        /\ conn' = Append(conn, fd)
        /\ rset' = rset \cup {fd}
        /\ max_fd' = IF max_fd > fd THEN max_fd ELSE fd
  BY DEF Accept
<1>2. NetInv' /\ OpenFds' = OpenFds \cup {fd} /\ fd \notin OpenFds
  BY <1>1, AcceptsStep DEF IInv
<1>3. /\ conn \in Seq(ConnFds \cup {Failed})
      /\ DOMAIN conn = 1 .. Len(conn)
      /\ Len(conn) \in Nat
      /\ Len(conn) + 1 <= MAX_CONNECT
  BY TableAssumption DEF IInv, TypeOK, Accept
<1>4. /\ conn' \in Seq(ConnFds \cup {Failed})
      /\ Len(conn') = Len(conn) + 1
      /\ DOMAIN conn' = 1 .. (Len(conn) + 1)
      /\ \A k \in 1 .. Len(conn) : conn'[k] = conn[k]
      /\ conn'[Len(conn) + 1] = fd
      /\ ToSet(conn') = ToSet(conn) \cup {fd}
  BY <1>1, <1>3, Appended
<1>5. fd # Failed /\ fd \notin ToSet(conn) /\ fd \in Int
  BY <1>1, <1>2, FdAssumption DEF IInv, TableExact, Failed, ConnFds
<1>6. UNCHANGED <<status, garbage>> /\ status = "up" /\ pc' = "select" /\ tmp_rset' = {} /\ j' = 1
  BY DEF Accept, At, NextTurn
<1>7. \A f \in {Listener} \cup ConnFds : f \in Int
  BY FdAssumption DEF Listener, ConnFds
<1>8. max_fd' \in {Listener} \cup ConnFds
  BY <1>1 DEF IInv, TypeOK
<1>9. TypeOK'
  BY <1>1, <1>2, <1>3, <1>4, <1>6, <1>8, TableAssumption DEF IInv, NetInv, TypeOK
<1>10. Watched'
  <2>1. rset' = {Stdin, Listener} \cup OpenFds'
    BY <1>1, <1>2 DEF IInv, Watched
  <2>2. max_fd \in Int /\ max_fd' >= max_fd /\ max_fd' >= fd /\ max_fd' \in Int
    BY <1>1, <1>7 DEF IInv, TypeOK
  <2>3. \A f \in rset : f \in Int /\ f <= max_fd
    BY <1>7 DEF IInv, TypeOK, Watched, Stdin
  <2>4. \A f \in rset' : f <= max_fd'
    BY <1>1, <1>5, <2>2, <2>3
  <2> QED BY <2>1, <2>4 DEF Watched
<1>11. TableExact'
  <2>1. ToSet(conn') \ {Failed} = OpenFds'
    BY <1>2, <1>4, <1>5 DEF IInv, TableExact
  <2>2. \A k \in 1 .. Len(conn) : conn[k] # fd
    BY <1>3, <1>5 DEF ToSet
  <2>3. \A k, l \in 1 .. Len(conn) : conn[k] = conn[l] /\ conn[k] # Failed => k = l
    BY <1>3 DEF IInv, TableExact
  <2>4. \A k, l \in DOMAIN conn' : conn'[k] = conn'[l] /\ conn'[k] # Failed => k = l
    BY <1>3, <1>4, <2>2, <2>3
  <2> QED BY <1>6, <2>1, <2>4 DEF TableExact
<1>12. SnapshotFresh'
  BY <1>6 DEF SnapshotFresh
<1> QED BY <1>2, <1>9, <1>10, <1>11, <1>12 DEF IInv

LEMMA AcceptFailsStep == IInv /\ AcceptFails => IInv'
<1> SUFFICES ASSUME IInv, AcceptFails PROVE IInv'
  OBVIOUS
<1>1. NetInv' /\ OpenFds' = OpenFds
  BY DEF IInv, AcceptFails, net, NetInv, NetTypeOK, QueueExact, ConnectionsExact, OpenFds
<1>2. /\ conn \in Seq(ConnFds \cup {Failed})
      /\ DOMAIN conn = 1 .. Len(conn)
      /\ Len(conn) \in Nat
      /\ Len(conn) + 1 <= MAX_CONNECT
  BY TableAssumption DEF IInv, TypeOK, AcceptFails
<1>3. /\ conn' \in Seq(ConnFds \cup {Failed})
      /\ Len(conn') = Len(conn) + 1
      /\ DOMAIN conn' = 1 .. (Len(conn) + 1)
      /\ \A k \in 1 .. Len(conn) : conn'[k] = conn[k]
      /\ conn'[Len(conn) + 1] = Failed
      /\ ToSet(conn') = ToSet(conn) \cup {Failed}
  BY <1>2, Appended DEF AcceptFails
<1>4. /\ UNCHANGED <<rset, max_fd, garbage>> /\ status' \in {"up", "undefined"}
      /\ pc' = "select" /\ tmp_rset' = {} /\ j' = 1
  BY DEF AcceptFails, NextTurn
<1>5. TypeOK'
  BY <1>1, <1>2, <1>3, <1>4, TableAssumption DEF IInv, NetInv, TypeOK
<1>6. Watched'
  BY <1>1, <1>4 DEF IInv, Watched
<1>7. TableExact'
  <2>1. ToSet(conn') \ {Failed} = OpenFds' /\ Failed \in ToSet(conn')
    BY <1>1, <1>3 DEF IInv, TableExact
  <2>2. \A k, l \in 1 .. Len(conn) : conn[k] = conn[l] /\ conn[k] # Failed => k = l
    BY <1>2 DEF IInv, TableExact
  <2>3. \A k, l \in DOMAIN conn' : conn'[k] = conn'[l] /\ conn'[k] # Failed => k = l
    BY <1>2, <1>3, <2>2
  <2> QED BY <2>1, <2>3 DEF TableExact
<1>8. SnapshotFresh'
  BY <1>4 DEF SnapshotFresh
<1> QED BY <1>1, <1>5, <1>6, <1>7, <1>8 DEF IInv

\* A full table of different open connections would need more descriptors than
\* there are.
LEMMA OverflowsStep == IInv /\ TableOverflows => IInv'
<1> SUFFICES ASSUME IInv, TableOverflows PROVE IInv'
  OBVIOUS
<1>1. NetInv' /\ OpenFds' = OpenFds
  BY DEF IInv, TableOverflows, Ends, net, NetInv, NetTypeOK, QueueExact, ConnectionsExact, OpenFds
<1>2. Failed \in ToSet(conn)
  <2>1. SUFFICES ASSUME Failed \notin ToSet(conn) PROVE FALSE
    OBVIOUS
  <2>2. conn \in Seq(ConnFds)
    <3>1. conn \in Seq(ConnFds \cup {Failed}) /\ \A k \in 1 .. Len(conn) : conn[k] # Failed
      BY <2>1 DEF IInv, TypeOK, ToSet
    <3> QED BY <3>1
  <2>3. \A k, l \in DOMAIN conn : conn[k] = conn[l] => k = l
    BY <2>1 DEF IInv, TableExact, ToSet
  <2>4. Len(conn) <= FD_LIMIT - 4
    BY <2>2, <2>3, FewConnections
  <2> QED BY <2>4, TableAssumption, FdAssumption DEF TableOverflows
<1>3. UNCHANGED <<pc, rset, tmp_rset, max_fd, conn, j, garbage>> /\ status' = "undefined"
  BY DEF TableOverflows, Ends
<1>4. TypeOK'
  BY <1>1, <1>3 DEF IInv, NetInv, TypeOK
<1>5. Watched' /\ TableExact'
  BY <1>1, <1>2, <1>3 DEF IInv, Watched, TableExact
<1>6. SnapshotFresh'
  BY <1>1, <1>3 DEF IInv, TableOverflows, Ends, net, SnapshotFresh, Readable
<1> QED BY <1>1, <1>4, <1>5, <1>6 DEF IInv

LEMMA StdinStep == IInv /\ ReadStdin => IInv'
<1> SUFFICES ASSUME IInv, ReadStdin PROVE IInv'
  OBVIOUS
<1>1. NetInv' /\ OpenFds' = OpenFds
  BY ReadsStdinStep DEF IInv, ReadStdin
<1>2. TypeOK' /\ Watched' /\ TableExact'
  BY <1>1, SameTable DEF ReadStdin, At, IInv, TypeOK
<1>3. SnapshotFresh'
  BY DEF ReadStdin, SnapshotFresh
<1> QED BY <1>1, <1>2, <1>3 DEF IInv

\* The loops stay within the table.
LEMMA IndexStep ==
  ASSUME IInv, j <= Len(conn)
  PROVE  j \in DOMAIN conn /\ j + 1 \in 1 .. (MAX_CONNECT + 1)
BY TableAssumption DEF IInv, TypeOK

LEMMA TellStep == IInv /\ Tell => IInv'
<1> SUFFICES ASSUME IInv, Tell PROVE IInv'
  OBVIOUS
<1>1. NetInv' /\ OpenFds' = OpenFds
  BY WritesStep DEF IInv, Tell
<1>2. TypeOK' /\ Watched' /\ TableExact'
  BY <1>1, SameTable, IndexStep DEF Tell, At, IInv, TypeOK
<1>3. SnapshotFresh'
  BY DEF Tell, At, SnapshotFresh
<1> QED BY <1>1, <1>2, <1>3 DEF IInv

LEMMA SkipStep == IInv /\ Skip => IInv'
<1> SUFFICES ASSUME IInv, Skip PROVE IInv'
  OBVIOUS
<1>1. NetInv' /\ OpenFds' = OpenFds
  BY DEF IInv, Skip, net, NetInv, NetTypeOK, QueueExact, ConnectionsExact, OpenFds
<1>2. TypeOK' /\ Watched' /\ TableExact'
  BY <1>1, SameTable, IndexStep DEF Skip, Turn, At, IInv, TypeOK
<1>3. \A fd : Readable(fd) => Readable(fd)'
  BY DEF Skip, net, Readable, OpenFds
<1>4. SnapshotFresh'
  <2>1. pc' = "scan" /\ UNCHANGED <<conn, tmp_rset>> /\ pc = "scan" /\ j' = j + 1
    BY DEF Skip, Turn, At
  <2>2. \A k \in DOMAIN conn : k >= j + 1 => k >= j
    BY DEF IInv, TypeOK
  <2> QED BY <1>3, <2>1, <2>2 DEF IInv, SnapshotFresh
<1> QED BY <1>1, <1>2, <1>4 DEF IInv

LEMMA HearStep == \A fd \in ConnFds : IInv /\ Hear(fd) => IInv'
<1> SUFFICES ASSUME NEW fd \in ConnFds, IInv, Hear(fd) PROVE IInv'
  OBVIOUS
<1>1. fd \in OpenFds
  BY DEF Hear, ReadsData
<1>2. /\ NetInv' /\ OpenFds' = OpenFds
      /\ \A f \in OpenFds \ {fd} : Readable(f) => Readable(f)'
  BY <1>1, ReadsDataStep DEF IInv, Hear
<1>3. TypeOK' /\ Watched' /\ TableExact'
  BY <1>2, SameTable, IndexStep DEF Hear, Turn, At, IInv, TypeOK
<1>4. SnapshotFresh'
  <2>1. pc' = "scan" /\ UNCHANGED <<conn, tmp_rset>> /\ pc = "scan" /\ j' = j + 1 /\ conn[j] = fd
    BY DEF Hear, Turn, At
  <2>2. j \in DOMAIN conn
    BY IndexStep DEF Hear, Turn
  <2>3. ASSUME NEW k \in DOMAIN conn, k >= j + 1, conn[k] \in tmp_rset PROVE Readable(conn[k])'
    <3>1. k >= j /\ k # j
      BY <2>3 DEF IInv, TypeOK
    <3>2. conn[k] \in OpenFds /\ conn[k] \in ConnFds
      BY <2>3, FoundIsOpen
    <3>3. conn[k] # fd
      BY <2>1, <2>2, <3>1, <3>2, FdAssumption DEF IInv, TableExact, Failed, ConnFds
    <3>4. Readable(conn[k])
      BY <2>1, <2>3, <3>1 DEF IInv, SnapshotFresh
    <3>5. \A f \in OpenFds \ {fd} : Readable(f) => Readable(f)'
      BY <1>2
    <3> QED BY <2>1, <3>2, <3>3, <3>4, <3>5
  <2> QED BY <2>1, <2>3 DEF SnapshotFresh
<1> QED BY <1>2, <1>3, <1>4 DEF IInv

LEMMA AgainStep == IInv /\ Again => IInv'
<1> SUFFICES ASSUME IInv, Again PROVE IInv'
  OBVIOUS
<1>1. NetInv' /\ OpenFds' = OpenFds
  BY DEF IInv, Again, net, NetInv, NetTypeOK, QueueExact, ConnectionsExact, OpenFds
<1>2. status' = "up" /\ tmp_rset' = {} /\ j' = 1 /\ pc' = "select"
  BY DEF Again, At, NextTurn
<1>3. TypeOK' /\ Watched' /\ TableExact'
  BY <1>1, <1>2, SameTable, TableAssumption DEF Again
<1>4. SnapshotFresh'
  BY <1>2 DEF SnapshotFresh
<1> QED BY <1>1, <1>3, <1>4 DEF IInv

LEMMA OutsideKeeps == IInv /\ status = "up" /\ Outside /\ UNCHANGED srv => IInv'
<1> SUFFICES ASSUME IInv, status = "up", Outside, UNCHANGED srv PROVE IInv'
  OBVIOUS
<1>1. NetInv' /\ OpenFds' = OpenFds /\ StaysReadable
  BY OutsideStep DEF IInv
<1>2. TypeOK' /\ Watched' /\ TableExact'
  BY <1>1, SameTable DEF srv, IInv, TypeOK
<1>3. SnapshotFresh'
  <2>1. UNCHANGED <<pc, conn, j, tmp_rset>>
    BY DEF srv
  <2>2. \A fd \in {Stdin, Listener} \cup OpenFds : Readable(fd) => Readable(fd)'
    BY <1>1 DEF StaysReadable
  <2>3. \A k \in DOMAIN conn : conn[k] \in tmp_rset => conn[k] \in OpenFds
    BY FoundIsOpen
  <2>4. ASSUME pc = "scan", NEW k \in DOMAIN conn, k >= j, conn[k] \in tmp_rset PROVE Readable(conn[k])'
    BY <2>1, <2>2, <2>3, <2>4 DEF IInv, SnapshotFresh
  <2> QED BY <2>1, <2>2, <2>4 DEF IInv, SnapshotFresh
<1> QED BY <1>1, <1>2, <1>3 DEF IInv

\* The entry of the closed connection goes, and the others that wait for their
\* turn come one place nearer to j.
LEMMA DropStep == IInv /\ Drop => IInv'
<1> SUFFICES ASSUME IInv, Drop PROVE IInv'
  OBVIOUS
<1> DEFINE fd == conn[j]
           Old(k) == IF k < j THEN k ELSE k + 1
<1>1. j \in DOMAIN conn /\ fd \in OpenFds /\ fd \in ConnFds
  BY IndexStep, FoundIsOpen DEF Drop, Turn
<1>2. /\ NetInv' /\ OpenFds' = OpenFds \ {fd}
      /\ \A f \in OpenFds \ {fd} : Readable(f) => Readable(f)'
  BY <1>1, ClosesStep DEF IInv, Drop
<1>3. /\ conn \in Seq(ConnFds \cup {Failed})
      /\ DOMAIN conn = 1 .. Len(conn)
      /\ Len(conn) \in Nat
      /\ Len(conn) <= MAX_CONNECT
      /\ j \in 1 .. Len(conn)
  BY <1>1 DEF IInv, TypeOK
<1>4. /\ conn' \in Seq(ConnFds \cup {Failed})
      /\ Len(conn') = Len(conn) - 1
      /\ DOMAIN conn' = 1 .. (Len(conn) - 1)
      /\ \A k \in 1 .. (Len(conn) - 1) : conn'[k] = conn[Old(k)]
  BY <1>3, Removed DEF Drop
<1>5. fd # Failed
  BY <1>1, FdAssumption DEF Failed, ConnFds
<1>6. \A k \in DOMAIN conn' : Old(k) \in DOMAIN conn /\ Old(k) # j
  BY <1>3, <1>4
<1>7. \A k, l \in DOMAIN conn' : Old(k) = Old(l) => k = l
  BY <1>3, <1>4
<1>8. ASSUME NEW m \in DOMAIN conn, m # j PROVE \E k \in DOMAIN conn' : Old(k) = m
  <2>1. CASE m < j
    <3>1. m \in DOMAIN conn' /\ Old(m) = m
      BY <1>3, <1>4, <2>1
    <3> QED BY <3>1
  <2>2. CASE m > j
    <3>1. m - 1 \in DOMAIN conn' /\ Old(m - 1) = m
      BY <1>3, <1>4, <2>2
    <3> QED BY <3>1
  <2> QED BY <1>3, <1>8, <2>1, <2>2
<1>9. \A k \in DOMAIN conn' : conn'[k] = conn[Old(k)]
  BY <1>4
<1> HIDE DEF Old
<1>10. /\ UNCHANGED <<status, pc, tmp_rset, max_fd, j, garbage>>
       /\ rset' = rset \ {fd} /\ status = "up" /\ pc = "scan"
  BY DEF Drop, Turn, At
<1>11. TypeOK'
  <2>1. tmp_rset' \subseteq rset' \cup ConnFds
    BY <1>1, <1>10 DEF IInv, TypeOK
  <2>2. Len(conn') <= MAX_CONNECT
    BY <1>3, <1>4, TableAssumption
  <2> QED BY <1>2, <1>4, <1>10, <2>1, <2>2 DEF IInv, NetInv, TypeOK
<1>12. Watched'
  BY <1>1, <1>2, <1>10, Fds DEF IInv, Watched
<1>13. \A m \in DOMAIN conn : conn[m] = fd => m = j
  BY <1>1, <1>5 DEF IInv, TableExact
<1>14. TableExact'
  <2>1. ToSet(conn') \subseteq ToSet(conn) \ {fd}
    BY <1>6, <1>9, <1>13 DEF ToSet
  <2>2. ToSet(conn) \ {fd} \subseteq ToSet(conn')
    <3> SUFFICES ASSUME NEW m \in DOMAIN conn, conn[m] # fd PROVE conn[m] \in ToSet(conn')
      BY DEF ToSet
    <3>1. PICK k \in DOMAIN conn' : Old(k) = m
      BY <1>8
    <3>2. conn'[k] = conn[m]
      BY <1>9, <3>1
    <3> QED BY <3>1, <3>2 DEF ToSet
  <2>3. ToSet(conn') \ {Failed} = OpenFds'
    BY <1>2, <2>1, <2>2 DEF IInv, TableExact
  <2>4. \A k, l \in DOMAIN conn' : conn'[k] = conn'[l] /\ conn'[k] # Failed => k = l
    BY <1>6, <1>7, <1>9 DEF IInv, TableExact
  <2> QED BY <1>10, <2>3, <2>4 DEF TableExact
<1>15. SnapshotFresh'
  <2>1. ASSUME NEW k \in DOMAIN conn', k >= j, NEW f, f = conn'[k], f \in tmp_rset
        PROVE  Readable(f)'
    <3>1. Old(k) \in DOMAIN conn /\ Old(k) >= j /\ f = conn[Old(k)]
      BY <1>3, <1>4, <1>6, <1>9, <2>1 DEF Old
    <3>2. f \in OpenFds /\ f # fd
      BY <1>6, <1>13, <2>1, <3>1, FoundIsOpen
    <3>3. Readable(f)
      BY <1>10, <2>1, <3>1 DEF IInv, SnapshotFresh
    <3> QED BY <1>2, <3>2, <3>3
  <2> QED BY <1>10, <2>1 DEF SnapshotFresh
<1> QED BY <1>2, <1>11, <1>12, <1>14, <1>15 DEF IInv

LEMMA Stutter == IInv /\ UNCHANGED vars => IInv'
<1> SUFFICES ASSUME IInv, UNCHANGED vars PROVE IInv'
  OBVIOUS
<1>1. NetInv' /\ OpenFds' = OpenFds
  BY DEF IInv, vars, net, NetInv, NetTypeOK, QueueExact, ConnectionsExact, OpenFds
<1>2. TypeOK'
  BY <1>1 DEF IInv, vars, srv, TypeOK, NetInv
<1>3. Watched' /\ TableExact'
  BY <1>1 DEF IInv, vars, srv, Watched, TableExact
<1>4. SnapshotFresh'
  BY <1>1 DEF IInv, vars, srv, net, SnapshotFresh, Readable
<1> QED BY <1>1, <1>2, <1>3, <1>4 DEF IInv

LEMMA InvStep == IInv /\ [Next]_vars => IInv'
<1> SUFFICES ASSUME IInv, [Next]_vars PROVE IInv'
  OBVIOUS
<1>1. CASE AcceptMisjudged
  BY <1>1, EndStep DEF AcceptMisjudged
<1>2. CASE TellKills
  BY <1>2, EndStep DEF TellKills
<1>3. CASE HearFails
  BY <1>3, EndStep DEF HearFails
<1>4. CASE ServerStep
  BY <1>1, <1>2, <1>3, <1>4, SelectStep, AcceptStep, AcceptFailsStep, OverflowsStep, StdinStep,
     TellStep, SkipStep, HearStep, DropStep, AgainStep DEF ServerStep
<1>5. CASE SelectFails
  BY <1>5, EndStep DEF SelectFails
<1> QED BY <1>4, <1>5, OutsideKeeps, Stutter DEF Next

LEMMA InvAlways == Spec => []IInv
BY InvInit, InvStep, PTL DEF Spec

-----------------------------------------------------------------------------
\* The variables keep their types; in particular the loops over connected_arr
\* (lines 113 and 118) never leave it.
THEOREM TypeCorrect == Spec => []TypeOK
<1>1. IInv => TypeOK
  BY DEF IInv
<1> QED BY InvAlways, <1>1, PTL

\* The watched set and max_fd are right at every moment, whoever has come and
\* gone (lines 107-109 and 128-132).
THEOREM WatchesWhatIsOpen == Spec => []Watched
<1>1. IInv => Watched
  BY DEF IInv
<1> QED BY InvAlways, <1>1, PTL

\* connected_arr lists the open connections, each once, and overflows only
\* after an accept() has failed unnoticed (lines 102 and 129-132).
THEOREM TableIsExact == Spec => []TableExact
<1>1. IInv => TableExact
  BY DEF IInv
<1> QED BY InvAlways, <1>1, PTL

\* No accept() or read() of the one thread blocks: the outside cannot undo what
\* select() has found, and the turn itself does not.
THEOREM ThreadNeverBlocks == Spec => []NeverBlocks
<1>1. ASSUME IInv PROVE NeverBlocks
  <2>1. Turn => j \in DOMAIN conn /\ pc = "scan" /\ j >= j
    BY <1>1, IndexStep DEF Turn, At, IInv, TypeOK
  <2> QED BY <1>1, <2>1 DEF IInv, SnapshotFresh, NeverBlocks, At
<1> QED BY InvAlways, <1>1, PTL
=============================================================================
