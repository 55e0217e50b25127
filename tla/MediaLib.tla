------------------------------ MODULE MediaLib ------------------------------
(***************************************************************************)
(* The radio's media library, server/SRC/media_lib.c: it turns the         *)
(* directories of the library into channels, lists them, and reads their   *)
(* songs one after the other.  A channel number is an 8-bit signed integer *)
(* and the index of an array; files that are opened are never closed.      *)
(*                                                                         *)
(* A directory is [descr |-> the length of its description, songs |-> the  *)
(* sizes of its songs in units of one read()]; a length of -1 stands for a *)
(* description that is not there.                                          *)
(***************************************************************************)
EXTENDS Integers, Sequences

CONSTANTS
  Libraries,    \* what opendir() may find: sequences of directories
  HALF,         \* chnid_t holds -HALF .. HALF-1: 128
  FD_LIMIT      \* the files the process may have open

ASSUME LibraryAssumption ==
  /\ Libraries \subseteq Seq([descr : Int, songs : Seq(Nat)])
  /\ HALF \in Nat \ {0}
  /\ FD_LIMIT \in Nat

MIN_CHNID == 1

VARIABLES
  library,      \* what opendir() finds
  next,         \* the directory that readdir() gives next
  missed,       \* directories of which some call failed, or no number was
                \* left for them (history)
  all_chns,     \* the channels; only all_chns[1 .. HALF-1] is ever used
  sum_chn_nr,
  cur_chn_id,
  fds           \* open files

media == <<library, next, missed, all_chns, sum_chn_nr, cur_chn_id, fds>>

NoChn == [songs |-> <<>>]

MediaInit ==
  /\ library \in Libraries
  /\ next = 1
  /\ missed = {}
  /\ all_chns = [k \in MIN_CHNID .. (HALF - 1) |-> NoChn]
  /\ sum_chn_nr = 0
  /\ cur_chn_id = MIN_CHNID
  /\ fds = 0

\* The conversion of an int to chnid_t.
Narrow(n) == ((n + HALF) % (2 * HALF)) - HALF

-----------------------------------------------------------------------------
(* __mlib_parse(), a directory at a time.                                  *)

Directory == library[next]

Readable(dir) == dir.descr > 0 /\ dir.songs # <<>>

\* The descriptor of a first song that is open, and what is left to read of it.
NewChannel(dir) ==
  [ chnid |-> Narrow(cur_chn_id), descr |-> dir.descr, songs |-> dir.songs,
    cur_mp3_index |-> 0, open |-> TRUE, left |-> dir.songs[1] ]

\* opendir(); the descriptor is closed when the loop ends.
OpensLibrary ==
  /\ fds < FD_LIMIT
  /\ fds' = fds + 1
  /\ UNCHANGED <<library, next, missed, all_chns, sum_chn_nr, cur_chn_id>>

\* The index of the channel is in the array.
Fits == Narrow(cur_chn_id) >= MIN_CHNID

\* __chn_parse() opens a description and the first song of the directory.
ParsesDirectory ==
  /\ next <= Len(library)
  /\ Readable(Directory)
  /\ fds + 2 <= FD_LIMIT
  /\ fds' = fds + 2
  /\ next' = next + 1
  /\ cur_chn_id' = cur_chn_id + 1
  /\ IF Fits
       THEN /\ all_chns' = [all_chns EXCEPT ![Narrow(cur_chn_id)] = NewChannel(Directory)]
            /\ sum_chn_nr' = sum_chn_nr + 1
            /\ UNCHANGED missed
       ELSE /\ missed' = missed \cup {next}
            /\ UNCHANGED <<all_chns, sum_chn_nr>>
  /\ UNCHANGED library

\* Mutant of SkipsDirectory: a directory that is skipped uses up a number.
MutSkipsDirectory ==
  /\ next <= Len(library)
  /\ \/ UNCHANGED fds
     \/ Directory.descr >= 0 /\ fds < FD_LIMIT /\ fds' = fds + 1
  /\ next' = next + 1
  /\ cur_chn_id' = IF fds' > fds THEN cur_chn_id + 1 ELSE cur_chn_id
  /\ missed' = IF Readable(Directory) THEN missed \cup {next} ELSE missed
  /\ UNCHANGED <<library, all_chns, sum_chn_nr>>

\* __chn_parse() fails, before it has opened the description or after: the
\* directory lacks something, or there is no memory, descriptor or permission.
SkipsDirectory ==
  /\ next <= Len(library)
  /\ \/ UNCHANGED fds
     \/ Directory.descr >= 0 /\ fds < FD_LIMIT /\ fds' = fds + 1
  /\ next' = next + 1
  /\ missed' = IF Readable(Directory) THEN missed \cup {next} ELSE missed
  /\ UNCHANGED <<library, all_chns, sum_chn_nr, cur_chn_id>>

\* readdir() has no more directories, or fails.
ClosesLibrary ==
  /\ fds' = fds - 1
  /\ UNCHANGED <<library, next, missed, all_chns, sum_chn_nr, cur_chn_id>>

\* mlib_get_chn_list(): the copy of the channels.
ChnList ==
  [k \in 1 .. sum_chn_nr |-> [chnid |-> all_chns[k].chnid, descr |-> all_chns[k].descr]]

\* A hole among the channels is a null pointer.
ListIsSound == \A k \in 1 .. sum_chn_nr : all_chns[k] # NoChn

-----------------------------------------------------------------------------
(* mlib_read_chn_data(), a call of read() at a time.                       *)

\* gl_pathv[] ends in a null pointer, which open() refuses.
NextIndex(chn) ==
  IF chn.cur_mp3_index + 1 > sum_chn_nr THEN 1 ELSE chn.cur_mp3_index + 1

\* read() gives data.
ReadsSong(c) ==
  /\ all_chns[c].open
  /\ all_chns[c].left > 0
  /\ all_chns' = [all_chns EXCEPT ![c].left = @ - 1]
  /\ UNCHANGED <<library, next, missed, sum_chn_nr, cur_chn_id, fds>>

\* Mutant of OpensNext: a read() that fails is taken for the end of the song.
MutOpensNext(c) ==
  LET i == NextIndex(all_chns[c])
      opens == i < Len(all_chns[c].songs) /\ fds < FD_LIMIT
  IN /\ all_chns[c].left = 0
     /\ all_chns' = [all_chns EXCEPT ![c].cur_mp3_index = i, ![c].open = opens,
                       ![c].left = IF opens THEN all_chns[c].songs[i + 1] ELSE 0]
     /\ fds' = IF opens THEN fds + 1 ELSE fds
     /\ UNCHANGED <<library, next, missed, sum_chn_nr, cur_chn_id>>

\* read() gives 0 and __open_next() opens the next song.  It closes nothing:
\* what it gives close() is the name of the song.
OpensNext(c) ==
  LET i == NextIndex(all_chns[c])
      opens == i < Len(all_chns[c].songs) /\ fds < FD_LIMIT
  IN /\ all_chns[c].open
     /\ all_chns[c].left = 0
     /\ all_chns' = [all_chns EXCEPT ![c].cur_mp3_index = i, ![c].open = opens,
                       ![c].left = IF opens THEN all_chns[c].songs[i + 1] ELSE 0]
     /\ fds' = IF opens THEN fds + 1 ELSE fds
     /\ UNCHANGED <<library, next, missed, sum_chn_nr, cur_chn_id>>

-----------------------------------------------------------------------------
(* Parts of the properties.                                                *)

\* Channels have their types; the index stays in gl_pathv[0 .. gl_pathc].
ChannelOK(c) ==
  LET chn == all_chns[c]
  IN chn # NoChn =>
       /\ chn.chnid \in (-HALF) .. (HALF - 1)
       /\ chn.descr \in Nat
       /\ chn.cur_mp3_index \in 0 .. Len(chn.songs)
       /\ chn.open \in BOOLEAN
       /\ chn.left \in Nat
       /\ chn.open => chn.cur_mp3_index < Len(chn.songs)

MediaTypeOK ==
  /\ next \in 1 .. (Len(library) + 1)
  /\ missed \subseteq 1 .. (next - 1)
  /\ \A c \in DOMAIN all_chns : ChannelOK(c)
  /\ sum_chn_nr \in 0 .. (HALF - 1)
  /\ cur_chn_id \in Nat
  /\ fds \in 0 .. FD_LIMIT

\* The directories that must have become channels.
Parsed == {k \in 1 .. (next - 1) : Readable(library[k]) /\ k \notin missed}

\* The channels are these directories, each once and in their order, numbered
\* from 1 without a hole.
ChannelsExact ==
  \E from \in [1 .. sum_chn_nr -> Parsed] :
    /\ Parsed = {from[k] : k \in 1 .. sum_chn_nr}
    /\ \A k, l \in DOMAIN from : k < l => from[k] < from[l]
    /\ \A k \in DOMAIN from :
         /\ all_chns[k] # NoChn
         /\ all_chns[k].chnid = k
         /\ all_chns[k].descr = library[from[k]].descr
         /\ all_chns[k].songs = library[from[k]].songs
=============================================================================
