------------------------------ MODULE NetRadio ------------------------------
(***************************************************************************)
(* The radio: the server (server/SRC/main.c, thr_list.c) multicasts its    *)
(* list of channels every second, and a client (client/main.c) waits for   *)
(* one, prints it and asks for a channel.  Datagrams are lost, duplicated, *)
(* delayed and reordered.  The threads that send the songs, which main()   *)
(* leaves out (#if 0) and thr_chn_data.c sketches, are the callers of      *)
(* mlib_read_chn_data() here; what they send reaches the client.           *)
(***************************************************************************)
EXTENDS MediaLib, SequencesExt

CONSTANTS
  MAX_MSG,      \* the bytes a client receives: 512
  LEN_MAX       \* the greatest length of an entry that len_t holds: 32767

ASSUME MsgAssumption ==
  /\ MAX_MSG \in Nat \ {0}
  /\ LEN_MAX \in Nat
  /\ MAX_MSG <= LEN_MAX

VARIABLES
  server,     \* its place, or its end
  server_sd,  \* whether the socket can be sent to
  list,       \* the entries of the packet
  readers,    \* the channels that a thread reads
  net,        \* datagrams on their way, by kind: "list" or "data"
  client,     \* its place, or its end
  entry,      \* the offset of the entry to print
  screen      \* the entries it has printed

srv  == <<server, server_sd, list, readers>>
clt  == <<client, entry, screen>>
vars == <<media, srv, net, clt>>

Init ==
  /\ MediaInit
  /\ server = "socket" /\ server_sd = FALSE /\ list = <<>> /\ readers = {}
  /\ net = {}
  /\ client = "join" /\ entry = 1 /\ screen = <<>>

\* sizeof(struct list_entry_st), whose descr has room for the final NUL.
EntryLen(e) == 4 + e.descr

\* Mutant of Bytes: the length forgets the number.
MutBytes(es) ==
  LET sum[k \in 0 .. Len(es)] == IF k = 0 THEN 0 ELSE sum[k - 1] + EntryLen(es[k])
  IN sum[Len(es)]

\* The bytes of a packet: the number CHN_LIST_ID and the entries.
Bytes(es) ==
  LET sum[k \in 0 .. Len(es)] == IF k = 0 THEN 1 ELSE sum[k - 1] + EntryLen(es[k])
  IN sum[Len(es)]

\* The length stored in an entry says where the next one begins.
LengthsFit(es) == \A k \in 1 .. (Len(es) - 1) : EntryLen(es[k]) <= LEN_MAX

Server(from, to) == server = from /\ server' = to
Client(from, to) == client = from /\ client' = to

-----------------------------------------------------------------------------
(* The server.                                                             *)

\* socket_init(); main() ignores its result.
SocketInit ==
  /\ Server("socket", "open")
  /\ server_sd' \in BOOLEAN
  /\ UNCHANGED <<media, list, readers, net, clt>>

OpenLibrary ==
  /\ \/ Server("open", "parse") /\ OpensLibrary
     \/ Server("open", "copy") /\ UNCHANGED media
  /\ UNCHANGED <<server_sd, list, readers, net, clt>>

\* A channel whose number is negative is stored outside of the array.
ParseDirectory ==
  /\ \/ Server("parse", IF Fits THEN "parse" ELSE "undefined") /\ ParsesDirectory
     \/ Server("parse", "parse") /\ SkipsDirectory
  /\ UNCHANGED <<server_sd, list, readers, net, clt>>

CloseLibrary ==
  /\ Server("parse", "copy")
  /\ ClosesLibrary
  /\ UNCHANGED <<server_sd, list, readers, net, clt>>

\* mlib_get_chn_list() copies the list and thr_list_create() starts the thread
\* that sends it; without the thread, nothing is left of the process.
CreateThread ==
  /\ Server("copy", "send") \/ Server("copy", "ended")
  /\ ListIsSound
  /\ server' = "send" => LengthsFit(ChnList)
  /\ list' = ChnList
  /\ readers' = IF server' = "send" THEN 1 .. sum_chn_nr ELSE {}
  /\ UNCHANGED <<media, server_sd, net, clt>>

\* A length that len_t does not hold comes out negative or too small: the thread
\* goes on before the packet, or over what it has written.
OverrunPacket ==
  /\ Server("copy", "undefined")
  /\ ListIsSound
  /\ ~LengthsFit(ChnList)
  /\ UNCHANGED <<media, server_sd, list, readers, net, clt>>

\* No allocation is tested; nor are the channels.
FollowNull ==
  /\ Server("copy", "crashed")
  /\ UNCHANGED <<media, server_sd, list, readers, net, clt>>

\* sendto(), every second.
SendList ==
  /\ Server("send", "send")
  /\ server_sd
  /\ net' = net \cup {"list"}
  /\ UNCHANGED <<media, server_sd, list, readers, clt>>

\* A thread of thr_chn_data.c reads a piece of a song and sends it.
SendData(c) ==
  /\ c \in readers
  /\ ReadsSong(c)
  /\ net' = IF server_sd THEN net \cup {"data"} ELSE net
  /\ UNCHANGED <<srv, clt>>

OpenNext(c) ==
  /\ c \in readers
  /\ OpensNext(c)
  /\ UNCHANGED <<srv, net, clt>>

\* read() fails: mlib_read_chn_data() returns -1 and the thread ends.
ReadFails(c) ==
  /\ c \in readers
  /\ readers' = readers \ {c}
  /\ UNCHANGED <<media, server, server_sd, list, net, clt>>

-----------------------------------------------------------------------------
(* The network and the client.                                             *)

Lose ==
  /\ \E d \in net : net' = net \ {d}
  /\ UNCHANGED <<media, srv, clt>>

\* socket(), bind(), the multicast group and the buffer.
Join ==
  /\ Client("join", "receive") \/ Client("join", "failed")
  /\ UNCHANGED <<media, srv, net, entry, screen>>

\* recvfrom(); the datagram may come again.
Takes(d) == d \in net /\ net' \in {net, net \ {d}}

\* Mutant of ReceiveList: the client waits for another number.
MutReceiveList ==
  /\ Client("receive", "print")
  /\ Takes("data")
  /\ entry' = 1
  /\ UNCHANGED <<media, srv, screen>>

ReceiveList ==
  /\ Client("receive", "print")
  /\ Takes("list")
  /\ entry' = 1
  /\ UNCHANGED <<media, srv, screen>>

ReceiveData ==
  /\ Client("receive", "receive")
  /\ Takes("data")
  /\ UNCHANGED <<media, srv, entry, screen>>

ReceiveFails ==
  /\ Client("receive", "failed")
  /\ UNCHANGED <<media, srv, net, entry, screen>>

\* What the client holds of the packet.
Size == IF Bytes(list) < MAX_MSG THEN Bytes(list) ELSE MAX_MSG

This == list[Len(screen) + 1]

Whole == entry + EntryLen(This) <= Size

\* The condition of the loop over the entries.
MoreToPrint == entry < Size - 1

PrintEntry ==
  /\ Client("print", "print")
  /\ MoreToPrint /\ Whole
  /\ screen' = Append(screen, This)
  /\ entry' = entry + EntryLen(This)
  /\ UNCHANGED <<media, srv, net>>

\* The entry is cut: its length or the end of its text lies behind the buffer.
PrintBeyond ==
  /\ Client("print", "undefined")
  /\ MoreToPrint /\ ~Whole
  /\ UNCHANGED <<media, srv, net, entry, screen>>

\* The loop ends.
AskChannel ==
  /\ Client("print", "ask")
  /\ ~MoreToPrint
  /\ UNCHANGED <<media, srv, net, entry, screen>>

\* scanf() returns and main() with it.
ChooseChannel ==
  /\ Client("ask", "done")
  /\ UNCHANGED <<media, srv, net, entry, screen>>

-----------------------------------------------------------------------------
Channels == MIN_CHNID .. (HALF - 1)

ServerStep ==
  \/ SocketInit \/ OpenLibrary \/ ParseDirectory \/ CloseLibrary
  \/ CreateThread \/ OverrunPacket \/ FollowNull \/ SendList

ClientStep ==
  \/ Join \/ ReceiveList \/ ReceiveData
  \/ PrintEntry \/ PrintBeyond \/ AskChannel

Next ==
  \/ ServerStep \/ ClientStep \/ ReceiveFails \/ Lose \/ ChooseChannel
  \/ \E c \in Channels : SendData(c) \/ OpenNext(c) \/ ReadFails(c)

Spec == Init /\ [][Next]_vars

\* Both programs run; the network delivers a list that is sent again and again.
FairSpec ==
  /\ Spec
  /\ WF_vars(ServerStep) /\ WF_vars(ClientStep) /\ SF_vars(ReceiveList)

-----------------------------------------------------------------------------
(* Properties.                                                             *)

\* Every variable has its type; the index of a channel's song stays in the
\* array that glob() has filled.
TypeOK ==
  /\ MediaTypeOK
  /\ server \in {"socket", "open", "parse", "copy", "send", "ended", "crashed", "undefined"}
  /\ server_sd \in BOOLEAN
  /\ Len(list) <= sum_chn_nr
  /\ readers \subseteq 1 .. sum_chn_nr
  /\ net \subseteq {"list", "data"}
  /\ client \in {"join", "receive", "print", "ask", "done", "failed", "undefined"}
  /\ entry \in 1 .. MAX_MSG
  /\ Len(screen) <= Len(list)

\* The channels are the readable directories for which no call failed and a
\* number was left, in order and numbered without a hole, so that the copy of the
\* list follows no null pointer; the server leaves its arrays only when all of
\* chnid_t are taken or a description is too long (media_lib.c 139 and 195-198,
\* thr_list.c 54-61).
ListExact ==
  /\ ChannelsExact
  /\ server = "copy" => ListIsSound
  /\ server = "send" => list = ChnList
  /\ server = "undefined" => sum_chn_nr = HALF - 1 \/ ~LengthsFit(ChnList)

\* A client prints the entries of the list in order, all of them if the packet
\* fits into its buffer; it reads behind the buffer only if it does not.
EntriesRead ==
  /\ IsPrefix(screen, list)
  /\ client \in {"ask", "done"} => (screen = list <=> Bytes(list) <= MAX_MSG)
  /\ client = "undefined" => Bytes(list) > MAX_MSG

\* A client that waits for the list gets it, whatever the network loses, if the
\* server sends it.
GetsList ==
  client = "receive" /\ server = "send" /\ server_sd ~> client # "receive"
=============================================================================
