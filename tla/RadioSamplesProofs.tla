------------------------- MODULE RadioSamplesProofs -------------------------
(***************************************************************************)
(* Theorems about the radio and about the small programs: for any library, *)
(* number of channels, limit of files and size of a packet; and for any    *)
(* rate, pipe, number of threads, instances or workers, text and buffer.   *)
(***************************************************************************)
EXTENDS NetRadio, Samples, SequenceTheorems, FiniteSetTheorems, WellFoundedInduction, TLAPS

(* Induction over the naturals, with the induction hypothesis as a set.    *)

LEMMA NatInduct ==
  ASSUME NEW T \in SUBSET Nat, 0 \in T, \A n \in T : n + 1 \in T
  PROVE  T = Nat
<1> SUFFICES ASSUME Nat \ T # {} PROVE FALSE
  OBVIOUS
<1>1. PICK x \in Nat \ T : \A y \in Nat \ T : ~(<<y, x>> \in OpToRel(<, Nat))
  BY NatLessThanWellFounded, WFMin
<1>2. \A y \in Nat \ T : ~(y < x)
  BY <1>1 DEF OpToRel
<1>3. x # 0 /\ x - 1 \in Nat /\ x - 1 < x /\ (x - 1) + 1 = x
  OBVIOUS
<1> QED BY <1>2, <1>3

\* A set of naturals has a smallest element.
LEMMA Smallest ==
  ASSUME NEW S \in SUBSET Nat, S # {}
  PROVE  \E x \in S : \A y \in S : x <= y
<1>1. PICK x \in S : \A y \in S : ~(<<y, x>> \in OpToRel(<, Nat))
  BY NatLessThanWellFounded, WFMin
<1>2. \A y \in S : ~(y < x)
  BY <1>1 DEF OpToRel
<1>3. \A y \in S : x <= y
  BY <1>2
<1> QED BY <1>3

-----------------------------------------------------------------------------
(* NetRadio: the length of a packet.                                       *)

\* An entry of the list.
Entry == [chnid : Int, descr : Nat]

\* The sums that Bytes() forms on its way through the entries.
Sums(es, f) ==
  /\ f \in [0 .. Len(es) -> Nat]
  /\ f[0] = 1
  /\ \A k \in 1 .. Len(es) : f[k] = f[k - 1] + EntryLen(es[k])

\* An entry has its two fixed fields and a description.
LEMMA EntryLenNat == \A e \in Entry : EntryLen(e) \in Nat /\ EntryLen(e) >= 4
BY DEF Entry, EntryLen

\* Any list of entries has its sums: the induction adds one entry at a time.
LEMMA SumsUpTo ==
  ASSUME NEW es \in Seq(Entry)
  PROVE  \E f : Sums(es, f)
<1> DEFINE Q(n, f) == /\ f \in [0 .. n -> Nat]
                      /\ f[0] = 1
                      /\ \A k \in 1 .. n : f[k] = f[k - 1] + EntryLen(es[k])
           T == {n \in Nat : n <= Len(es) => \E f : Q(n, f)}
<1>1. 0 \in T
  <2>1. Q(0, [k \in 0 .. 0 |-> 1])
    OBVIOUS
  <2> QED BY <2>1
<1>2. ASSUME NEW n \in T PROVE n + 1 \in T
  <2> HIDE DEF Q
  <2> SUFFICES ASSUME n + 1 <= Len(es) PROVE \E f : Q(n + 1, f)
    OBVIOUS
  <2>1. PICK f : Q(n, f)
    BY <1>2
  <2> USE DEF Q
  <2>2. EntryLen(es[n + 1]) \in Nat
    BY EntryLenNat
  <2> DEFINE g == [k \in 0 .. (n + 1) |-> IF k = n + 1 THEN f[n] + EntryLen(es[n + 1]) ELSE f[k]]
  <2>3. f[n] \in Nat
    BY <2>1
  <2>4. g \in [0 .. (n + 1) -> Nat]
    BY <2>1, <2>2, <2>3
  <2>5. \A k \in 1 .. (n + 1) : g[k] = g[k - 1] + EntryLen(es[k])
    BY <2>1
  <2>6. g[0] = 1
    BY <2>1
  <2>7. Q(n + 1, g)
    BY <2>4, <2>5, <2>6
  <2> QED BY <2>7
<1> HIDE DEF Q
<1>3. T = Nat
  <2> HIDE DEF T
  <2>1. T \in SUBSET Nat
    BY DEF T
  <2> QED BY <1>1, <1>2, <2>1, NatInduct
<1>4. Len(es) \in Nat
  OBVIOUS
<1>5. \E f : Q(Len(es), f)
  BY <1>3, <1>4
<1> QED BY <1>5 DEF Sums, Q

\* They are determined by the entries they have passed.
LEMMA SumsAgree ==
  ASSUME NEW s \in Seq(Entry), NEW t \in Seq(Entry), NEW f, NEW g,
         Sums(s, f), Sums(t, g), Len(s) <= Len(t),
         \A k \in 1 .. Len(s) : s[k] = t[k]
  PROVE  \A k \in 0 .. Len(s) : f[k] = g[k]
<1> DEFINE T == {n \in Nat : n <= Len(s) => f[n] = g[n]}
<1>1. 0 \in T
  BY DEF Sums
<1>2. ASSUME NEW n \in T PROVE n + 1 \in T
  <2> SUFFICES ASSUME n + 1 <= Len(s) PROVE f[n + 1] = g[n + 1]
    OBVIOUS
  <2>1. n + 1 \in 1 .. Len(s) /\ n + 1 \in 1 .. Len(t) /\ (n + 1) - 1 = n /\ f[n] = g[n]
    BY <1>2
  <2>2. f[n + 1] = f[n] + EntryLen(s[n + 1])
    BY <2>1 DEF Sums
  <2>3. g[n + 1] = g[n] + EntryLen(t[n + 1])
    BY <2>1 DEF Sums
  <2> QED BY <2>1, <2>2, <2>3
<1>3. T = Nat
  <2>1. T \in SUBSET Nat
    OBVIOUS
  <2> HIDE DEF T
  <2> QED BY <1>1, <1>2, <2>1, NatInduct
<1> QED BY <1>3

\* The sums grow by an entry's length at least, so an earlier one is smaller.
LEMMA SumsGrow ==
  ASSUME NEW es \in Seq(Entry), NEW f, Sums(es, f), NEW m \in 0 .. Len(es)
  PROVE  \A k \in m .. Len(es) : f[m] <= f[k]
<1> DEFINE T == {n \in Nat : m + n <= Len(es) => f[m] <= f[m + n]}
<1>0. \A k \in 0 .. Len(es) : f[k] \in Nat
  BY DEF Sums
<1>1. 0 \in T
  BY <1>0
<1>2. ASSUME NEW n \in T PROVE n + 1 \in T
  <2> SUFFICES ASSUME m + (n + 1) <= Len(es) PROVE f[m] <= f[m + (n + 1)]
    OBVIOUS
  <2>1. /\ m + n + 1 \in 1 .. Len(es) /\ (m + n + 1) - 1 = m + n
        /\ f[m] <= f[m + n] /\ f[m + n] \in Nat /\ f[m] \in Nat
        /\ m + (n + 1) = m + n + 1
    BY <1>0, <1>2
  <2>2. f[m + n + 1] = f[m + n] + EntryLen(es[m + n + 1])
    BY <2>1 DEF Sums
  <2>3. EntryLen(es[m + n + 1]) \in Nat
    BY <2>1, EntryLenNat
  <2> QED BY <2>1, <2>2, <2>3
<1>3. T = Nat
  <2>1. T \in SUBSET Nat
    OBVIOUS
  <2> HIDE DEF T
  <2> QED BY <1>1, <1>2, <2>1, NatInduct
<1>4. ASSUME NEW k \in m .. Len(es) PROVE f[m] <= f[k]
  <2> DEFINE n == k - m
  <2>1. n \in Nat /\ m + n = k /\ k <= Len(es)
    OBVIOUS
  <2> HIDE DEF n
  <2>2. n \in T
    BY <1>3, <2>1
  <2> QED BY <2>1, <2>2
<1> QED BY <1>4

\* The recursive function of Bytes is the last of the sums.
LEMMA BytesIsSum ==
  ASSUME NEW es \in Seq(Entry)
  PROVE  \E f : Sums(es, f) /\ Bytes(es) = f[Len(es)]
<1> DEFINE Eq(f) == f = [k \in 0 .. Len(es) |-> IF k = 0 THEN 1 ELSE f[k - 1] + EntryLen(es[k])]
<1>1. PICK g : Sums(es, g)
  BY SumsUpTo
<1>2. Eq(g)
  BY <1>1 DEF Sums
<1>3. Bytes(es) = (CHOOSE f : Eq(f))[Len(es)]
  BY DEF Bytes
<1>4. PICK f : Eq(f) /\ Bytes(es) = f[Len(es)]
  BY <1>2, <1>3
<1>5. Len(es) \in Nat
  OBVIOUS
<1>6. f[0] = 1 /\ \A k \in 1 .. Len(es) : f[k] = f[k - 1] + EntryLen(es[k])
  BY <1>4, <1>5
<1> DEFINE T == {n \in Nat : n <= Len(es) => f[n] \in Nat}
<1>7. 0 \in T
  BY <1>6
<1>8. ASSUME NEW n \in T PROVE n + 1 \in T
  <2> SUFFICES ASSUME n + 1 <= Len(es) PROVE f[n + 1] \in Nat
    OBVIOUS
  <2>1. n + 1 \in 1 .. Len(es) /\ (n + 1) - 1 = n /\ f[n] \in Nat
    BY <1>5, <1>8
  <2>2. EntryLen(es[n + 1]) \in Nat
    BY <2>1, EntryLenNat
  <2> QED BY <1>6, <2>1, <2>2
<1>9. T = Nat
  <2>1. T \in SUBSET Nat
    OBVIOUS
  <2> HIDE DEF T
  <2> QED BY <1>7, <1>8, <2>1, NatInduct
<1>10. f \in [0 .. Len(es) -> Nat]
  <2>1. \A k \in 0 .. Len(es) : f[k] \in Nat
    BY <1>5, <1>9
  <2>2. Eq(f)
    BY <1>4
  <2>3. DOMAIN f = 0 .. Len(es) /\ f = [k \in DOMAIN f |-> f[k]]
    BY <2>2
  <2> HIDE DEF Eq
  <2> QED BY <2>1, <2>3
<1>11. Sums(es, f)
  BY <1>6, <1>10 DEF Sums
<1> QED BY <1>4, <1>11

\* A packet has a length, 1 at least.
LEMMA BytesNat ==
  ASSUME NEW es \in Seq(Entry)
  PROVE  Bytes(es) \in Nat /\ Bytes(es) > 0
<1>1. PICK f : Sums(es, f) /\ Bytes(es) = f[Len(es)]
  BY BytesIsSum
<1>2. Len(es) \in Nat
  OBVIOUS
<1>3. f[0] <= f[Len(es)] /\ f[0] = 1 /\ f[Len(es)] \in Nat
  BY <1>1, <1>2, SumsGrow DEF Sums
<1> QED BY <1>1, <1>3

\* The packet grows by an entry's length with each entry, ...
LEMMA BytesAppend ==
  ASSUME NEW s \in Seq(Entry), NEW e \in Entry
  PROVE  Bytes(Append(s, e)) = Bytes(s) + EntryLen(e)
<1>1. Append(s, e) \in Seq(Entry) /\ Len(Append(s, e)) = Len(s) + 1 /\ Append(s, e)[Len(s) + 1] = e
      /\ \A k \in 1 .. Len(s) : Append(s, e)[k] = s[k]
  OBVIOUS
<1>2. PICK f : Sums(s, f) /\ Bytes(s) = f[Len(s)]
  BY BytesIsSum
<1> DEFINE t == Append(s, e)
<1>3. t \in Seq(Entry) /\ Len(t) = Len(s) + 1 /\ t[Len(s) + 1] = e /\ \A k \in 1 .. Len(s) : t[k] = s[k]
  BY <1>1
<1> HIDE DEF t
<1>4. PICK g : Sums(t, g) /\ Bytes(t) = g[Len(t)]
  BY <1>3, BytesIsSum
<1>5. Len(s) \in Nat
  OBVIOUS
<1>6. f[Len(s)] = g[Len(s)]
  BY <1>2, <1>3, <1>4, <1>5, SumsAgree
<1>7. Len(s) + 1 \in 1 .. Len(t) /\ (Len(s) + 1) - 1 = Len(s)
  BY <1>3, <1>5
<1>8. g[Len(s) + 1] = g[Len(s)] + EntryLen(t[Len(s) + 1])
  BY <1>4, <1>7 DEF Sums
<1>9. Bytes(t) = Bytes(s) + EntryLen(e)
  BY <1>2, <1>3, <1>4, <1>6, <1>8
<1> QED BY <1>9 DEF t

\* ... and an entry that follows a prefix adds to it.
LEMMA BytesOfPrefix ==
  ASSUME NEW s \in Seq(Entry), NEW t \in Seq(Entry), Len(s) < Len(t),
         \A k \in 1 .. Len(s) : s[k] = t[k]
  PROVE  Bytes(s) + EntryLen(t[Len(s) + 1]) <= Bytes(t) /\ Bytes(t) \in Nat
<1>1. PICK f : Sums(s, f) /\ Bytes(s) = f[Len(s)]
  BY BytesIsSum
<1>2. PICK g : Sums(t, g) /\ Bytes(t) = g[Len(t)]
  BY BytesIsSum
<1>3. Len(s) \in Nat /\ Len(t) \in Nat /\ Len(s) + 1 \in 1 .. Len(t) /\ (Len(s) + 1) - 1 = Len(s)
  OBVIOUS
<1>4. f[Len(s)] = g[Len(s)]
  BY <1>1, <1>2, <1>3, SumsAgree
<1>5. g[Len(s) + 1] = g[Len(s)] + EntryLen(t[Len(s) + 1])
  BY <1>2, <1>3 DEF Sums
<1>6. g[Len(s) + 1] <= g[Len(t)]
  BY <1>2, <1>3, SumsGrow
<1>7. g[Len(t)] \in Nat
  BY <1>2, <1>3 DEF Sums
<1> QED BY <1>1, <1>2, <1>4, <1>5, <1>6, <1>7

\* A packet without entries is its first byte.
LEMMA BytesOfNothing ==
  Bytes(<<>>) = 1
<1>1. <<>> \in Seq(Entry) /\ Len(<<>>) = 0
  OBVIOUS
<1>2. PICK f : Sums(<<>>, f) /\ Bytes(<<>>) = f[Len(<<>>)]
  BY <1>1, BytesIsSum
<1> QED BY <1>1, <1>2 DEF Sums

-----------------------------------------------------------------------------
(* NetRadio: the inductive invariant.                                      *)

\* A channel of the array.
Chn == [ chnid : Int, descr : Nat \ {0}, songs : Seq(Nat),
         cur_mp3_index : Nat, open : BOOLEAN, left : Nat ]

\* The index of the song stays in gl_pathv[], and before its end while a song
\* is open.
ChnInv(chn) ==
  /\ chn \in Chn
  /\ Len(chn.songs) > 0
  /\ chn.cur_mp3_index <= Len(chn.songs)
  /\ chn.open => chn.cur_mp3_index < Len(chn.songs)

\* What a directory gives to the channel with number k.
Given(dir, k, chn) ==
  Readable(dir) /\ chn.chnid = k /\ chn.descr = dir.descr /\ chn.songs = dir.songs

\* from names the readable directories that are not missed, and no others.
Covers(from, lib, nx, ms, sum) ==
  /\ \A k \in 1 .. sum : from[k] \notin ms
  /\ \A d \in 1 .. (nx - 1) : Readable(lib[d]) /\ d \notin ms => \E k \in 1 .. sum : from[k] = d

\* The array is filled from its start, in the order of the directories, with
\* those that are readable and not missed.
Filled(lib, nx, ms, chns, sum) ==
  /\ ms \subseteq 1 .. (nx - 1)
  /\ chns = [k \in 1 .. (HALF - 1) |-> chns[k]]
  /\ \A k \in 1 .. sum : ChnInv(chns[k])
  /\ \A k \in (sum + 1) .. (HALF - 1) : chns[k] = NoChn
  /\ \E from \in [1 .. sum -> 1 .. (nx - 1)] :
       /\ \A k, l \in 1 .. sum : k < l => from[k] < from[l]
       /\ \A k \in 1 .. sum : Given(lib[from[k]], k, chns[k])
       /\ Covers(from, lib, nx, ms, sum)

MediaInv ==
  /\ library \in Libraries
  /\ next \in 1 .. (Len(library) + 1)
  /\ sum_chn_nr \in 0 .. (HALF - 1)
  /\ cur_chn_id \in Nat
  /\ fds \in 0 .. FD_LIMIT
  /\ Filled(library, next, missed, all_chns, sum_chn_nr)

\* What the place of the server says of the rest: before it sends, there is
\* nothing to read or to receive.
ServerInv ==
  /\ server \in {"socket", "open", "parse", "copy", "send", "ended", "crashed", "undefined"}
  /\ server_sd \in BOOLEAN
  /\ server = "undefined" => sum_chn_nr = HALF - 1 \/ ~LengthsFit(ChnList)
  /\ server # "undefined" => cur_chn_id = sum_chn_nr + 1
  /\ server = "parse" => fds > 0
  /\ list = IF server \in {"send", "ended"} THEN ChnList ELSE <<>>
  /\ readers \subseteq 1 .. sum_chn_nr
  /\ net \subseteq {"list", "data"}
  /\ server # "send" => readers = {} /\ net = {}

\* A client that has received the list stands behind the entries it has printed.
ClientInv ==
  /\ client \in {"join", "receive", "print", "ask", "done", "failed", "undefined"}
  /\ screen \in Seq(Entry)
  /\ Len(screen) <= Len(list)
  /\ \A k \in 1 .. Len(screen) : screen[k] = list[k]
  /\ client \in {"join", "receive", "failed"} => screen = <<>> /\ entry = 1
  /\ client \in {"print", "ask", "done", "undefined"} =>
       server = "send" /\ entry = Bytes(screen) /\ entry <= Size
  /\ client \in {"ask", "done"} => (screen = list <=> Bytes(list) <= MAX_MSG)
  /\ client = "undefined" => Bytes(list) > MAX_MSG

RadioInv == MediaInv /\ ServerInv /\ ClientInv

-----------------------------------------------------------------------------
(* NetRadio: the steps on the library.                                     *)

\* The numbers from 1 to HALF - 1 are kept by chnid_t, and HALF is not.
LEMMA NarrowKeeps ==
  ASSUME NEW n \in 1 .. HALF
  PROVE  Narrow(n) = IF n < HALF THEN n ELSE -HALF
<1>1. HALF \in Nat /\ HALF > 0
  BY LibraryAssumption
<1>2. CASE n < HALF
  <2>1. n + HALF \in 0 .. (2 * HALF - 1)
    BY <1>1, <1>2
  <2>2. (n + HALF) % (2 * HALF) = n + HALF
    BY <1>1, <2>1
  <2> QED BY <1>1, <1>2, <2>2 DEF Narrow
<1>3. CASE n = HALF
  <2>1. n + HALF = 2 * HALF
    BY <1>1, <1>3
  <2>2. (n + HALF) % (2 * HALF) = 0
    BY <1>1, <2>1
  <2> QED BY <1>1, <1>3, <2>2 DEF Narrow
<1> QED BY <1>1, <1>2, <1>3

\* A library is a sequence of directories.
LEMMA LibraryTyped ==
  ASSUME NEW lib \in Libraries
  PROVE  /\ Len(lib) \in Nat
         /\ \A k \in 1 .. Len(lib) : lib[k].descr \in Int /\ lib[k].songs \in Seq(Nat)
<1>1. lib \in Seq([descr : Int, songs : Seq(Nat)])
  BY LibraryAssumption
<1>2. ASSUME NEW S, NEW s \in Seq(S) PROVE Len(s) \in Nat /\ \A k \in 1 .. Len(s) : s[k] \in S
  OBVIOUS
<1>3. Len(lib) \in Nat /\ \A k \in 1 .. Len(lib) : lib[k] \in [descr : Int, songs : Seq(Nat)]
  BY <1>1, <1>2, Zenon
<1> QED BY <1>3

\* What the assumption says of the two limits.
LEMMA Limits == HALF \in Nat \ {0} /\ FD_LIMIT \in Nat
BY LibraryAssumption

\* A channel is not the hole that NoChn is.
LEMMA NotHole == \A chn : ChnInv(chn) => chn # NoChn
BY DEF ChnInv, Chn, NoChn

\* A directory that is passed over, for want of something or because it is
\* missed, leaves the array filled, ...
LEMMA PassOver ==
  ASSUME NEW lib, NEW nx \in Nat \ {0}, NEW ms, NEW chns, NEW sum, Filled(lib, nx, ms, chns, sum),
         NEW ms2, ms \subseteq ms2, ms2 \subseteq ms \cup {nx}, Readable(lib[nx]) => nx \in ms2
  PROVE  Filled(lib, nx + 1, ms2, chns, sum)
<1>1. PICK from \in [1 .. sum -> 1 .. (nx - 1)] :
        /\ \A k, l \in 1 .. sum : k < l => from[k] < from[l]
        /\ \A k \in 1 .. sum : Given(lib[from[k]], k, chns[k])
        /\ Covers(from, lib, nx, ms, sum)
  BY DEF Filled
<1>2. from \in [1 .. sum -> 1 .. ((nx + 1) - 1)]
  OBVIOUS
<1>3. ms2 \subseteq 1 .. ((nx + 1) - 1)
  BY DEF Filled
<1>4. \A k \in 1 .. sum : from[k] # nx
  <2>1. \A k \in 1 .. sum : from[k] \in 1 .. (nx - 1)
    OBVIOUS
  <2> QED BY <2>1
<1>5. \A d \in 1 .. ((nx + 1) - 1) : d # nx => d \in 1 .. (nx - 1)
  OBVIOUS
<1>6. Covers(from, lib, nx + 1, ms2, sum)
  BY <1>1, <1>4, <1>5 DEF Covers
<1> QED BY <1>1, <1>2, <1>3, <1>6 DEF Filled

\* ... one that is parsed fills the next place, ...
LEMMA FillNext ==
  ASSUME NEW lib, NEW nx \in Nat \ {0}, NEW ms, NEW chns, NEW sum \in Nat, sum + 1 < HALF,
         NEW m, ChnInv(m), Given(lib[nx], sum + 1, m), Filled(lib, nx, ms, chns, sum)
  PROVE  Filled(lib, nx + 1, ms, [chns EXCEPT ![sum + 1] = m], sum + 1)
<1> DEFINE n == sum + 1  new == [chns EXCEPT ![n] = m]
<1>0. n \in Nat /\ n \in 1 .. (HALF - 1) /\ HALF \in Nat /\ sum = n - 1
  BY Limits
<1>1. PICK from \in [1 .. sum -> 1 .. (nx - 1)] :
        /\ \A k, l \in 1 .. sum : k < l => from[k] < from[l]
        /\ \A k \in 1 .. sum : Given(lib[from[k]], k, chns[k])
        /\ Covers(from, lib, nx, ms, sum)
  BY DEF Filled
<1>2. new[n] = m /\ (\A k \in 1 .. (HALF - 1) : k # n => new[k] = chns[k]) /\ new = [k \in 1 .. (HALF - 1) |-> new[k]]
  BY <1>0 DEF Filled
<1> DEFINE to == [k \in 1 .. n |-> IF k = n THEN nx ELSE from[k]]
<1>3. \A k \in 1 .. n : k # n => k \in 1 .. sum
  BY <1>0
<1>4. to \in [1 .. n -> 1 .. ((nx + 1) - 1)]
  BY <1>3
<1>5. to[n] = nx /\ \A k \in 1 .. sum : to[k] = from[k] /\ from[k] < nx /\ k # n
  BY <1>0
<1> HIDE DEF to, new
<1>6. \A k, l \in 1 .. n : k < l => to[k] < to[l]
  <2> SUFFICES ASSUME NEW k \in 1 .. n, NEW l \in 1 .. n, k < l PROVE to[k] < to[l]
    OBVIOUS
  <2>1. k \in 1 .. sum
    BY <1>0
  <2> QED BY <1>1, <1>3, <1>5, <2>1
<1>7. \A k \in 1 .. n : Given(lib[to[k]], k, new[k]) /\ ChnInv(new[k])
  <2> SUFFICES ASSUME NEW k \in 1 .. n PROVE Given(lib[to[k]], k, new[k]) /\ ChnInv(new[k])
    OBVIOUS
  <2>1. CASE k = n
    BY <1>2, <1>5, <2>1
  <2>2. CASE k # n
    <3>1. k \in 1 .. sum /\ to[k] = from[k] /\ new[k] = chns[k]
      BY <1>0, <1>2, <1>3, <1>5, <2>2
    <3> QED BY <1>1, <3>1 DEF Filled
  <2> QED BY <2>1, <2>2
<1>8. \A k \in (n + 1) .. (HALF - 1) : new[k] = NoChn
  <2>1. \A k \in (n + 1) .. (HALF - 1) : k \in 1 .. (HALF - 1) /\ k # n /\ k \in (sum + 1) .. (HALF - 1)
    BY <1>0
  <2> QED BY <1>2, <2>1 DEF Filled
<1>9. ms \subseteq 1 .. (nx - 1) /\ ms \subseteq 1 .. ((nx + 1) - 1) /\ nx \notin ms
  BY DEF Filled
<1>10. Covers(to, lib, nx + 1, ms, n)
  <2>1. \A k \in 1 .. n : to[k] \notin ms
    BY <1>1, <1>3, <1>5, <1>9 DEF Covers
  <2>2. ASSUME NEW d \in 1 .. ((nx + 1) - 1), Readable(lib[d]), d \notin ms
        PROVE  \E k \in 1 .. n : to[k] = d
    <3>1. CASE d = nx
      <4>1. n \in 1 .. n
        BY <1>0
      <4> QED BY <1>5, <3>1, <4>1
    <3>2. CASE d # nx
      <4>1. d \in 1 .. (nx - 1)
        BY <3>2
      <4>2. PICK k \in 1 .. sum : from[k] = d
        BY <1>1, <2>2, <4>1 DEF Covers
      <4>3. k \in 1 .. n /\ to[k] = d
        BY <1>0, <1>5, <4>2
      <4> QED BY <4>3
    <3> QED BY <3>1, <3>2
  <2> QED BY <2>1, <2>2 DEF Covers
<1>11. Filled(lib, nx + 1, ms, new, n)
  BY <1>2, <1>4, <1>6, <1>7, <1>8, <1>9, <1>10 DEF Filled
<1> QED BY <1>11 DEF new

\* ... and one whose song goes on stays in its place.
LEMMA FillAgain ==
  ASSUME NEW lib, NEW nx, NEW ms, NEW chns, NEW sum \in Nat, sum < HALF, Filled(lib, nx, ms, chns, sum),
         NEW c \in 1 .. sum, NEW m, ChnInv(m),
         m.chnid = chns[c].chnid, m.descr = chns[c].descr, m.songs = chns[c].songs
  PROVE  Filled(lib, nx, ms, [chns EXCEPT ![c] = m], sum)
<1> DEFINE new == [chns EXCEPT ![c] = m]
<1>0. c \in 1 .. (HALF - 1) /\ HALF \in Nat
  BY Limits
<1>1. PICK from \in [1 .. sum -> 1 .. (nx - 1)] :
        /\ \A k, l \in 1 .. sum : k < l => from[k] < from[l]
        /\ \A k \in 1 .. sum : Given(lib[from[k]], k, chns[k])
        /\ Covers(from, lib, nx, ms, sum)
  BY DEF Filled
<1>2. new[c] = m /\ (\A k \in 1 .. (HALF - 1) : k # c => new[k] = chns[k]) /\ new = [k \in 1 .. (HALF - 1) |-> new[k]]
  BY <1>0 DEF Filled
<1> HIDE DEF new
<1>3. \A k \in 1 .. sum : Given(lib[from[k]], k, new[k])
  <2> SUFFICES ASSUME NEW k \in 1 .. sum PROVE Given(lib[from[k]], k, new[k])
    OBVIOUS
  <2>1. new[k].chnid = chns[k].chnid /\ new[k].descr = chns[k].descr /\ new[k].songs = chns[k].songs
    <3>1. k \in 1 .. (HALF - 1)
      BY <1>0
    <3> QED BY <1>2, <3>1
  <2>2. Given(lib[from[k]], k, chns[k])
    BY <1>1
  <2> QED BY <2>1, <2>2 DEF Given
<1>4. \A k \in 1 .. sum : ChnInv(new[k])
  <2>1. \A k \in 1 .. sum : k \in 1 .. (HALF - 1)
    BY <1>0
  <2> QED BY <1>2, <2>1 DEF Filled
<1>5. \A k \in (sum + 1) .. (HALF - 1) : new[k] = NoChn
  <2>1. \A k \in (sum + 1) .. (HALF - 1) : k \in 1 .. (HALF - 1) /\ k # c
    BY <1>0
  <2> QED BY <1>2, <2>1 DEF Filled
<1>6. Filled(lib, nx, ms, new, sum)
  BY <1>1, <1>2, <1>3, <1>4, <1>5 DEF Filled
<1> QED BY <1>6 DEF new

\* The parts of MediaInv, and how a step rebuilds it.
LEMMA MediaNext ==
  ASSUME library' \in Libraries, next' \in 1 .. (Len(library') + 1),
         sum_chn_nr' \in 0 .. (HALF - 1), cur_chn_id' \in Nat, fds' \in 0 .. FD_LIMIT,
         Filled(library', next', missed', all_chns', sum_chn_nr')
  PROVE  MediaInv'
BY Zenon DEF MediaInv

LEMMA MediaParts ==
  ASSUME MediaInv
  PROVE  /\ HALF \in Nat \ {0} /\ FD_LIMIT \in Nat
         /\ library \in Libraries /\ Len(library) \in Nat
         /\ next \in Nat \ {0} /\ next <= Len(library) + 1
         /\ sum_chn_nr \in Nat /\ sum_chn_nr < HALF
         /\ cur_chn_id \in Nat /\ fds \in Nat /\ fds <= FD_LIMIT
         /\ Filled(library, next, missed, all_chns, sum_chn_nr)
BY Limits, LibraryTyped DEF MediaInv

\* A reader changes a channel's song and nothing that the list shows.
LEMMA ReaderStep ==
  ASSUME MediaInv, NEW c \in 1 .. sum_chn_nr, ReadsSong(c) \/ OpensNext(c)
  PROVE  MediaInv' /\ ChnList' = ChnList /\ UNCHANGED <<sum_chn_nr, cur_chn_id>>
<1> DEFINE old == all_chns[c]
<1>0. ChnInv(old) /\ c \in 1 .. (HALF - 1) /\ DOMAIN all_chns = 1 .. (HALF - 1)
  BY MediaParts DEF Filled
<1>1. UNCHANGED <<library, next, missed, sum_chn_nr, cur_chn_id>>
  BY DEF ReadsSong, OpensNext
<1>2. \E m : /\ all_chns' = [all_chns EXCEPT ![c] = m]
             /\ m.chnid = old.chnid /\ m.descr = old.descr /\ m.songs = old.songs
             /\ ChnInv(m) /\ fds' \in 0 .. FD_LIMIT
  <2>1. CASE ReadsSong(c)
    <3> DEFINE m == [old EXCEPT !.left = @ - 1]
    <3>1. all_chns' = [all_chns EXCEPT ![c] = m] /\ fds' = fds /\ old.left > 0
      BY <2>1 DEF ReadsSong
    <3>2. ChnInv(m) /\ m.chnid = old.chnid /\ m.descr = old.descr /\ m.songs = old.songs
      BY <1>0, <3>1 DEF ChnInv, Chn
    <3> HIDE DEF m
    <3>3. fds' \in 0 .. FD_LIMIT
      BY <3>1, MediaParts
    <3> QED BY <3>1, <3>2, <3>3
  <2>2. CASE OpensNext(c)
    <3> DEFINE x == NextIndex(old)
               opens == x < Len(old.songs) /\ fds < FD_LIMIT
               left == IF opens THEN old.songs[x + 1] ELSE 0
               m == [old EXCEPT !.cur_mp3_index = x, !.open = opens, !.left = left]
    <3>1. /\ all_chns' = [all_chns EXCEPT ![c] = m]
          /\ fds' = IF opens THEN fds + 1 ELSE fds
          /\ old.open
      BY <2>2 DEF OpensNext
    <3>2. x \in Nat /\ x <= Len(old.songs)
      BY <1>0, <3>1 DEF ChnInv, Chn, NextIndex
    <3>3. opens => old.songs[x + 1] \in Nat
      BY <1>0, <3>2 DEF ChnInv, Chn
    <3>4. left \in Nat
      BY <3>3
    <3>5. opens \in BOOLEAN
      OBVIOUS
    <3>6. (opens => x < Len(old.songs)) /\ fds' \in 0 .. FD_LIMIT
      BY <3>1, MediaParts
    <3> HIDE DEF x, opens, left
    <3>7. old \in Chn /\ Len(old.songs) > 0
      BY <1>0 DEF ChnInv
    <3>8. /\ m \in Chn /\ m.chnid = old.chnid /\ m.descr = old.descr /\ m.songs = old.songs
          /\ m.cur_mp3_index = x /\ m.open = opens
      BY <3>7, <3>2, <3>4, <3>5 DEF Chn
    <3> HIDE DEF m
    <3>9. ChnInv(m)
      BY <3>2, <3>6, <3>7, <3>8 DEF ChnInv
    <3> QED BY <3>1, <3>6, <3>8, <3>9
  <2> QED BY <2>1, <2>2
<1>3. PICK m : /\ all_chns' = [all_chns EXCEPT ![c] = m]
               /\ m.chnid = old.chnid /\ m.descr = old.descr /\ m.songs = old.songs
               /\ ChnInv(m) /\ fds' \in 0 .. FD_LIMIT
  BY <1>2
<1>4. Filled(library', next', missed', all_chns', sum_chn_nr')
  BY <1>1, <1>3, FillAgain, MediaParts
<1>5. MediaInv'
  BY <1>1, <1>3, <1>4, MediaParts, MediaNext
<1>6. \A k \in 1 .. sum_chn_nr : all_chns'[k].chnid = all_chns[k].chnid /\ all_chns'[k].descr = all_chns[k].descr
  BY <1>0, <1>3, MediaParts
<1>7. ChnList' = ChnList
  BY <1>1, <1>6 DEF ChnList
<1> QED BY <1>1, <1>5, <1>7

\* A directory that is parsed takes the next number, if there is one.
LEMMA ParseStep ==
  ASSUME MediaInv, cur_chn_id = sum_chn_nr + 1, ParsesDirectory
  PROVE  /\ MediaInv'
         /\ IF Fits THEN cur_chn_id' = sum_chn_nr' + 1 ELSE sum_chn_nr' = HALF - 1
         /\ fds' > 0
<1>1. Narrow(cur_chn_id) = IF cur_chn_id < HALF THEN cur_chn_id ELSE -HALF
  BY MediaParts, NarrowKeeps
<1>2. Fits <=> cur_chn_id < HALF
  BY <1>1, MediaParts DEF Fits, MIN_CHNID
<1>3. /\ library' = library /\ next' = next + 1 /\ cur_chn_id' = cur_chn_id + 1
      /\ fds' = fds + 2 /\ fds' \in 0 .. FD_LIMIT /\ Readable(library[next])
      /\ next \in 1 .. Len(library)
  <2>1. /\ library' = library /\ next' = next + 1 /\ cur_chn_id' = cur_chn_id + 1
        /\ fds' = fds + 2 /\ fds + 2 <= FD_LIMIT /\ next <= Len(library)
        /\ Readable(library[next])
    BY DEF ParsesDirectory, Directory
  <2>2. next \in 1 .. (Len(library) + 1) /\ Len(library) \in Nat /\ fds \in 0 .. FD_LIMIT
    BY MediaParts
  <2>3. FD_LIMIT \in Nat
    BY Limits
  <2> QED BY <2>1, <2>2, <2>3
<1>0. library' \in Libraries /\ next' \in 1 .. (Len(library') + 1) /\ cur_chn_id' \in Nat
  <2>1. library \in Libraries /\ Len(library) \in Nat /\ cur_chn_id \in Nat
    BY MediaParts
  <2> QED BY <1>3, <2>1
<1>4. CASE ~Fits
  <2>1. UNCHANGED <<all_chns, sum_chn_nr>> /\ sum_chn_nr = HALF - 1 /\ missed' = missed \cup {next}
    <3>1. UNCHANGED <<all_chns, sum_chn_nr>> /\ missed' = missed \cup {next}
      BY <1>4 DEF ParsesDirectory
    <3>2. HALF \in Nat /\ sum_chn_nr \in Nat /\ sum_chn_nr < HALF
      BY MediaParts
    <3> QED BY <1>2, <1>4, <3>1, <3>2
  <2>2. Filled(library', next', missed', all_chns', sum_chn_nr')
    BY <1>3, <2>1, MediaParts, PassOver
  <2>3. MediaInv'
    <3>1. sum_chn_nr' \in 0 .. (HALF - 1)
      BY <2>1, MediaParts
    <3> QED BY <1>0, <1>3, <2>2, <3>1, MediaNext
  <2>4. fds' > 0
    BY <1>3, MediaParts
  <2> QED BY <1>4, <2>1, <2>3, <2>4
<1>5. CASE Fits
  <2> DEFINE n == sum_chn_nr + 1  m == NewChannel(library[next])
  <2>1. /\ all_chns' = [all_chns EXCEPT ![n] = m] /\ sum_chn_nr' = n /\ n < HALF /\ missed' = missed
    BY <1>1, <1>2, <1>5, MediaParts DEF ParsesDirectory, Directory
  <2>2. ChnInv(m) /\ Given(library[next], n, m)
    <3>1. library[next].descr \in Int /\ library[next].songs \in Seq(Nat)
      BY <1>3, MediaParts, LibraryTyped
    <3>2. /\ library[next].descr \in Nat \ {0} /\ Len(library[next].songs) > 0
          /\ library[next].songs[1] \in Nat
      <4>1. library[next].descr > 0 /\ library[next].songs # <<>>
        BY <1>3 DEF Readable
      <4> QED BY <3>1, <4>1
    <3>3. Narrow(cur_chn_id) = n /\ n \in Int
      BY <1>1, <1>2, <1>5, MediaParts
    <3> QED BY <1>3, <3>1, <3>2, <3>3 DEF ChnInv, Chn, NewChannel, Given
  <2> HIDE DEF m
  <2>3. Filled(library, next + 1, missed, all_chns', sum_chn_nr')
    BY <2>1, <2>2, MediaParts, FillNext
  <2>4. Filled(library', next', missed', all_chns', sum_chn_nr')
    BY <1>3, <2>1, <2>3
  <2>5. sum_chn_nr' \in 0 .. (HALF - 1)
    BY <2>1, MediaParts
  <2>6. MediaInv'
    BY <1>0, <1>3, <2>4, <2>5, MediaNext
  <2>7. fds' > 0
    BY <1>3, MediaParts
  <2>8. cur_chn_id = n
    OBVIOUS
  <2>9. cur_chn_id' = sum_chn_nr' + 1
    BY <1>3, <2>1, <2>8
  <2> QED BY <1>5, <2>6, <2>7, <2>9
<1> QED BY <1>4, <1>5

\* A directory that is skipped uses no number, whatever it left open.
LEMMA SkipStep ==
  ASSUME MediaInv, SkipsDirectory
  PROVE  MediaInv' /\ UNCHANGED <<sum_chn_nr, cur_chn_id>> /\ fds' >= fds
<1>1. /\ UNCHANGED <<library, all_chns, sum_chn_nr, cur_chn_id>> /\ next' = next + 1
      /\ fds' \in 0 .. FD_LIMIT /\ fds' >= fds /\ next \in 1 .. Len(library)
      /\ missed' = IF Readable(library[next]) THEN missed \cup {next} ELSE missed
  BY MediaParts DEF SkipsDirectory, Directory
<1>2. Filled(library', next', missed', all_chns', sum_chn_nr')
  BY <1>1, MediaParts, PassOver
<1> QED BY <1>1, <1>2, MediaParts, MediaNext

\* A step that leaves the channels alone keeps MediaInv and the list.
LEMMA MediaKept ==
  ASSUME MediaInv, UNCHANGED <<library, next, missed, all_chns, sum_chn_nr, cur_chn_id>>,
         fds' \in 0 .. FD_LIMIT
  PROVE  MediaInv' /\ ChnList' = ChnList
<1>1. Filled(library', next', missed', all_chns', sum_chn_nr')
  BY MediaParts
<1>2. MediaInv'
  BY <1>1, MediaParts, MediaNext
<1> QED BY <1>2 DEF ChnList

\* The list is made of entries, one for each channel.
LEMMA ListTyped ==
  ASSUME MediaInv
  PROVE  ChnList \in Seq(Entry) /\ Len(ChnList) = sum_chn_nr
<1>1. sum_chn_nr \in Nat
  BY MediaParts
<1>2. \A k \in 1 .. sum_chn_nr :
        [chnid |-> all_chns[k].chnid, descr |-> all_chns[k].descr] \in Entry
  BY MediaParts DEF Filled, ChnInv, Chn, Entry
<1> QED BY <1>1, <1>2 DEF ChnList

\* The library has not been read yet.
LEMMA MediaStart == MediaInit => MediaInv /\ sum_chn_nr = 0 /\ cur_chn_id = 1 /\ fds = 0
<1> SUFFICES ASSUME MediaInit PROVE MediaInv /\ sum_chn_nr = 0 /\ cur_chn_id = 1 /\ fds = 0
  OBVIOUS
<1>1. Len(library) \in Nat /\ HALF \in Nat \ {0} /\ FD_LIMIT \in Nat
  BY Limits, LibraryTyped DEF MediaInit
<1>2. next \in 1 .. (Len(library) + 1)
  BY <1>1 DEF MediaInit
<1>3. Filled(library, next, missed, all_chns, sum_chn_nr)
  <2> DEFINE none == [k \in 1 .. 0 |-> 1]
  <2>1. /\ none \in [1 .. sum_chn_nr -> 1 .. (next - 1)]
        /\ 1 .. sum_chn_nr = {} /\ 1 .. (next - 1) = {} /\ missed = {}
    BY DEF MediaInit
  <2>2. sum_chn_nr + 1 = 1
    BY DEF MediaInit
  <2>3. all_chns = [k \in 1 .. (HALF - 1) |-> NoChn]
    BY DEF MediaInit, MIN_CHNID
  <2> HIDE DEF none
  <2> QED BY <2>1, <2>2, <2>3 DEF Filled, Covers
<1> QED BY <1>1, <1>2, <1>3 DEF MediaInit, MediaInv, MIN_CHNID

\* The channels are exactly those that the library gives.
LEMMA MediaExact == MediaInv => ChannelsExact /\ ListIsSound
<1> SUFFICES ASSUME MediaInv PROVE ChannelsExact /\ ListIsSound
  OBVIOUS
<1>1. PICK from \in [1 .. sum_chn_nr -> 1 .. (next - 1)] :
        /\ \A k, l \in 1 .. sum_chn_nr : k < l => from[k] < from[l]
        /\ \A k \in 1 .. sum_chn_nr : Given(library[from[k]], k, all_chns[k])
        /\ Covers(from, library, next, missed, sum_chn_nr)
  BY MediaParts DEF Filled
<1>2. DOMAIN from = 1 .. sum_chn_nr
  OBVIOUS
<1>3. \A k \in 1 .. sum_chn_nr : all_chns[k] # NoChn
  BY MediaParts, NotHole DEF Filled
<1>4. ChannelsExact
  <2>1. \A k \in 1 .. sum_chn_nr : from[k] \in Parsed
    BY <1>1 DEF Given, Covers, Parsed
  <2>2. from \in [1 .. sum_chn_nr -> Parsed]
    BY <2>1
  <2>3. Parsed \subseteq {from[k] : k \in 1 .. sum_chn_nr}
    BY <1>1 DEF Covers, Parsed
  <2>4. Parsed = {from[k] : k \in 1 .. sum_chn_nr}
    BY <2>1, <2>3
  <2>5. \A k, l \in DOMAIN from : k < l => from[k] < from[l]
    BY <1>1, <1>2
  <2>6. \A k \in DOMAIN from :
          /\ all_chns[k] # NoChn
          /\ all_chns[k].chnid = k
          /\ all_chns[k].descr = library[from[k]].descr
          /\ all_chns[k].songs = library[from[k]].songs
    BY <1>1, <1>2, <1>3 DEF Given
  <2> QED BY <2>2, <2>4, <2>5, <2>6, Zenon DEF ChannelsExact
<1> QED BY <1>3, <1>4 DEF ListIsSound

\* The invariant types the library's variables.
LEMMA MediaTyped == MediaInv => MediaTypeOK
<1> SUFFICES ASSUME MediaInv PROVE MediaTypeOK
  OBVIOUS
<1>1. ASSUME NEW c \in 1 .. sum_chn_nr PROVE ChannelOK(c)
  <2>1. ChnInv(all_chns[c]) /\ all_chns[c].chnid = c
    BY MediaParts DEF Filled, Given
  <2>2. c \in (-HALF) .. (HALF - 1)
    BY MediaParts
  <2>3. Len(all_chns[c].songs) \in Nat
    BY <2>1 DEF ChnInv, Chn
  <2> QED BY <2>1, <2>2, <2>3 DEF ChannelOK, ChnInv, Chn
<1>2. ASSUME NEW c \in DOMAIN all_chns, c \notin 1 .. sum_chn_nr PROVE ChannelOK(c)
  <2>1. c \in 1 .. (HALF - 1)
    BY MediaParts DEF Filled
  <2>2. c \in (sum_chn_nr + 1) .. (HALF - 1)
    BY <1>2, <2>1, MediaParts
  <2>3. all_chns[c] = NoChn
    BY <2>2, MediaParts DEF Filled
  <2> QED BY <2>3 DEF ChannelOK
<1>3. missed \subseteq 1 .. (next - 1)
  BY MediaParts DEF Filled
<1> QED BY <1>1, <1>2, <1>3, MediaParts DEF MediaTypeOK, MediaInv

-----------------------------------------------------------------------------
(* NetRadio: the steps of the server, its readers and the client.          *)

\* The invariant holds before the server has its socket.
LEMMA RadioInit == Init => RadioInv
<1> SUFFICES ASSUME Init PROVE RadioInv
  OBVIOUS
<1>1. MediaInv /\ sum_chn_nr = 0 /\ cur_chn_id = 1
  BY MediaStart DEF Init
<1>2. ServerInv
  <2>1. server = "socket" /\ list = <<>> /\ readers = {} /\ net = {}
    BY DEF Init
  <2>2. server_sd \in BOOLEAN
    BY DEF Init
  <2> QED BY <1>1, <2>1, <2>2 DEF ServerInv
<1>3. ClientInv
  <2>1. screen = <<>> /\ list = <<>> /\ client = "join" /\ entry = 1
    BY DEF Init
  <2> QED BY <2>1 DEF ClientInv
<1> QED BY <1>1, <1>2, <1>3 DEF RadioInv

\* A step that leaves the list and the client alone leaves ClientInv alone,
\* unless the server stops sending.
LEMMA ClientKept ==
  ASSUME ClientInv, UNCHANGED <<list, client, entry, screen>>, server = "send" => server' = "send"
  PROVE  ClientInv'
BY DEF ClientInv, Size

\* Each step of the server keeps the invariant.
LEMMA ServerSteps ==
  ASSUME RadioInv, ServerStep
  PROVE  RadioInv'
<1> USE DEF RadioInv
<1>0. fds \in 0 .. FD_LIMIT /\ FD_LIMIT \in Nat
  BY MediaParts
<1>1. CASE SocketInit
  <2>1. MediaInv' /\ ChnList' = ChnList
    BY <1>0, <1>1, MediaKept DEF SocketInit, media
  <2>2. ServerInv'
    BY <1>1, <2>1 DEF SocketInit, Server, ServerInv, media
  <2>3. ClientInv'
    BY <1>1, ClientKept DEF SocketInit, Server, clt
  <2> QED BY <2>1, <2>2, <2>3
<1>2. CASE OpenLibrary
  <2>1. /\ MediaInv' /\ ChnList' = ChnList /\ UNCHANGED <<sum_chn_nr, cur_chn_id>>
        /\ server' = "parse" => fds' > 0
    <3>1. CASE server' = "parse"
      <4>1. OpensLibrary
        BY <1>2, <3>1 DEF OpenLibrary, Server
      <4>2. fds' \in 0 .. FD_LIMIT /\ fds' > 0
        BY <1>0, <4>1 DEF OpensLibrary
      <4> QED BY <4>1, <4>2, MediaKept DEF OpensLibrary
    <3>2. CASE server' = "copy"
      BY <1>0, <1>2, <3>2, MediaKept DEF OpenLibrary, Server, media
    <3> QED BY <1>2, <3>1, <3>2 DEF OpenLibrary, Server
  <2>2. ServerInv'
    BY <1>2, <2>1 DEF OpenLibrary, Server, ServerInv
  <2>3. ClientInv'
    BY <1>2, ClientKept DEF OpenLibrary, Server, clt
  <2> QED BY <2>1, <2>2, <2>3
<1>3. CASE ParseDirectory
  <2>0. server = "parse" /\ cur_chn_id = sum_chn_nr + 1 /\ fds > 0 /\ list = <<>> /\ readers = {} /\ net = {}
    BY <1>3 DEF ParseDirectory, Server, ServerInv
  <2>1. CASE ParsesDirectory /\ Server("parse", IF Fits THEN "parse" ELSE "undefined")
    <3>1. /\ MediaInv' /\ fds' > 0
          /\ IF Fits THEN cur_chn_id' = sum_chn_nr' + 1 ELSE sum_chn_nr' = HALF - 1
      BY <2>0, <2>1, ParseStep
    <3>2. server' = IF Fits THEN "parse" ELSE "undefined"
      BY <2>1 DEF Server
    <3>3. ServerInv'
      BY <1>3, <2>0, <3>1, <3>2 DEF ParseDirectory, ServerInv
    <3> QED BY <1>3, <2>0, <3>1, <3>3, ClientKept DEF ParseDirectory, clt
  <2>2. CASE SkipsDirectory /\ Server("parse", "parse")
    <3>1. MediaInv' /\ UNCHANGED <<sum_chn_nr, cur_chn_id>> /\ fds' >= fds
      BY <2>2, SkipStep
    <3>2. fds' > 0
      BY <1>0, <2>0, <3>1, MediaParts DEF MediaInv
    <3>3. ServerInv'
      BY <1>3, <2>0, <2>2, <3>1, <3>2 DEF ParseDirectory, ServerInv, Server
    <3> QED BY <1>3, <2>0, <3>1, <3>3, ClientKept DEF ParseDirectory, clt
  <2> QED BY <1>3, <2>1, <2>2 DEF ParseDirectory
<1>4. CASE CloseLibrary
  <2>0. server = "parse" /\ fds > 0
    BY <1>4 DEF CloseLibrary, Server, ServerInv
  <2>1. MediaInv' /\ ChnList' = ChnList /\ UNCHANGED <<sum_chn_nr, cur_chn_id>>
    <3>1. fds' \in 0 .. FD_LIMIT
      BY <1>0, <1>4, <2>0 DEF CloseLibrary, ClosesLibrary
    <3> QED BY <1>4, <3>1, MediaKept DEF CloseLibrary, ClosesLibrary
  <2>2. ServerInv'
    BY <1>4, <2>1 DEF CloseLibrary, Server, ServerInv
  <2>3. ClientInv'
    BY <1>4, ClientKept DEF CloseLibrary, Server, clt
  <2> QED BY <2>1, <2>2, <2>3
<1>5. CASE CreateThread
  <2>0. server = "copy" /\ list = <<>> /\ net = {} /\ readers = {} /\ server' \in {"send", "ended"}
    BY <1>5 DEF CreateThread, Server, ServerInv
  <2>1. MediaInv' /\ ChnList' = ChnList /\ UNCHANGED <<sum_chn_nr, cur_chn_id>>
    BY <1>0, <1>5, MediaKept DEF CreateThread, media
  <2>2. ServerInv'
    <3>1. list' = ChnList /\ readers' \subseteq 1 .. sum_chn_nr /\ (server' # "send" => readers' = {})
          /\ UNCHANGED <<server_sd, net>>
      BY <1>5 DEF CreateThread
    <3> QED BY <2>0, <2>1, <3>1 DEF ServerInv
  <2>3. ClientInv'
    <3>1. client \in {"join", "receive", "failed"} /\ screen = <<>> /\ entry = 1
      BY <2>0 DEF ClientInv
    <3>2. list' \in Seq(Entry)
      BY <1>5, ListTyped DEF CreateThread
    <3>3. UNCHANGED <<client, entry, screen>>
      BY <1>5 DEF CreateThread, clt
    <3>4. Len(<<>>) = 0 /\ Len(list') \in Nat /\ <<>> \in Seq(Entry)
      BY <3>2
    <3> QED BY <3>1, <3>3, <3>4 DEF ClientInv
  <2> QED BY <2>1, <2>2, <2>3
<1>6. CASE FollowNull
  <2>1. MediaInv' /\ ChnList' = ChnList /\ UNCHANGED <<sum_chn_nr, cur_chn_id>>
    BY <1>0, <1>6, MediaKept DEF FollowNull, media
  <2>2. ServerInv'
    BY <1>6, <2>1 DEF FollowNull, Server, ServerInv
  <2>3. ClientInv'
    BY <1>6, ClientKept DEF FollowNull, Server, clt
  <2> QED BY <2>1, <2>2, <2>3
<1>7. CASE SendList
  <2>1. MediaInv' /\ ChnList' = ChnList /\ UNCHANGED <<sum_chn_nr, cur_chn_id>>
    BY <1>0, <1>7, MediaKept DEF SendList, media
  <2>2. ServerInv'
    BY <1>7, <2>1 DEF SendList, Server, ServerInv
  <2>3. ClientInv'
    BY <1>7, ClientKept DEF SendList, Server, clt
  <2> QED BY <2>1, <2>2, <2>3
<1>8. CASE OverrunPacket
  <2>1. MediaInv' /\ ChnList' = ChnList /\ UNCHANGED <<sum_chn_nr, cur_chn_id>>
    BY <1>0, <1>8, MediaKept DEF OverrunPacket, media
  <2>2. ~LengthsFit(ChnList')
    BY <1>8, <2>1 DEF OverrunPacket
  <2>3. ServerInv'
    BY <1>8, <2>1, <2>2 DEF OverrunPacket, Server, ServerInv
  <2>4. ClientInv'
    BY <1>8, ClientKept DEF OverrunPacket, Server, clt
  <2> QED BY <2>1, <2>3, <2>4
<1> QED BY <1>1, <1>2, <1>3, <1>4, <1>5, <1>6, <1>7, <1>8 DEF ServerStep

\* So does each step of a thread that sends songs.
LEMMA ReaderSteps ==
  ASSUME RadioInv, NEW c, SendData(c) \/ OpenNext(c) \/ ReadFails(c)
  PROVE  RadioInv'
<1> USE DEF RadioInv
<1>0. fds \in 0 .. FD_LIMIT /\ FD_LIMIT \in Nat
  BY MediaParts
<1>1. server = "send" /\ c \in 1 .. sum_chn_nr /\ UNCHANGED <<server, server_sd, list>>
  BY DEF SendData, OpenNext, ReadFails, ServerInv, srv
<1>2. MediaInv' /\ ChnList' = ChnList /\ UNCHANGED <<sum_chn_nr, cur_chn_id>>
  <2>1. CASE SendData(c) \/ OpenNext(c)
    BY <1>1, <2>1, ReaderStep DEF SendData, OpenNext
  <2>2. CASE ReadFails(c)
    BY <1>0, <2>2, MediaKept DEF ReadFails, media
  <2> QED BY <2>1, <2>2
<1>3. readers' \subseteq readers /\ net' \subseteq net \cup {"data"}
  BY DEF SendData, OpenNext, ReadFails, srv
<1>4. ServerInv'
  BY <1>1, <1>2, <1>3 DEF ServerInv
<1>5. UNCHANGED clt
  BY DEF SendData, OpenNext, ReadFails
<1>6. ClientInv'
  BY <1>1, <1>5, ClientKept DEF clt
<1> QED BY <1>2, <1>4, <1>6

\* Where the printed entries stand in the list: there is another one, and it
\* lies in the packet, as long as the packet goes on behind them.
LEMMA Reading ==
  ASSUME RadioInv, client = "print"
  PROVE  /\ list \in Seq(Entry) /\ screen \in Seq(Entry)
         /\ server = "send" /\ entry = Bytes(screen) /\ entry \in Nat
         /\ Bytes(list) \in Nat /\ Size = (IF Bytes(list) < MAX_MSG THEN Bytes(list) ELSE MAX_MSG)
         /\ MAX_MSG \in Nat /\ entry <= Size
         /\ screen = list \/ Len(screen) < Len(list)
         /\ Len(screen) < Len(list) =>
              /\ This \in Entry /\ EntryLen(This) \in Nat /\ EntryLen(This) >= 4
              /\ entry + EntryLen(This) <= Bytes(list)
<1> USE DEF RadioInv
<1>1. server = "send" /\ entry = Bytes(screen) /\ entry <= Size /\ screen \in Seq(Entry)
  BY DEF ClientInv
<1>2. list \in Seq(Entry)
  BY <1>1, ListTyped DEF ServerInv
<1>3. Bytes(screen) \in Nat /\ Bytes(list) \in Nat
  BY <1>1, <1>2, BytesNat
<1>4. screen = list \/ Len(screen) < Len(list)
  <2>1. ASSUME Len(screen) = Len(list) PROVE screen = list
    BY <1>1, <1>2, <2>1, SeqEqual DEF ClientInv
  <2>2. Len(screen) <= Len(list) /\ Len(screen) \in Nat /\ Len(list) \in Nat
    BY <1>1, <1>2 DEF ClientInv
  <2> QED BY <2>1, <2>2
<1>5. ASSUME Len(screen) < Len(list)
      PROVE  /\ This \in Entry /\ EntryLen(This) \in Nat /\ EntryLen(This) >= 4
             /\ entry + EntryLen(This) <= Bytes(list)
  <2>1. This \in Entry
    BY <1>1, <1>2, <1>5 DEF This
  <2>2. Bytes(screen) + EntryLen(list[Len(screen) + 1]) <= Bytes(list)
    BY <1>1, <1>2, <1>5, BytesOfPrefix DEF ClientInv
  <2> QED BY <1>1, <2>1, <2>2, EntryLenNat DEF This
<1> QED BY <1>1, <1>2, <1>3, <1>4, <1>5, MsgAssumption DEF Size

\* So does each step of the client, whose offset is the length of what it has
\* printed.
LEMMA ClientSteps ==
  ASSUME RadioInv, ClientStep \/ ReceiveFails \/ ChooseChannel
  PROVE  RadioInv'
<1> USE DEF RadioInv
<1>1. /\ UNCHANGED <<media, srv>> /\ net' \subseteq net
  BY DEF ClientStep, ReceiveFails, ChooseChannel, Join, ReceiveList, ReceiveData, PrintEntry,
         PrintBeyond, AskChannel, Takes
<1>2. MediaInv' /\ ChnList' = ChnList
  BY <1>1, MediaParts, MediaKept DEF media
<1>3. ServerInv'
  BY <1>1, <1>2 DEF ServerInv, media, srv
<1>4. ClientInv'
  <2>1. CASE Join \/ ReceiveData \/ ReceiveFails \/ ChooseChannel
    BY <1>1, <2>1 DEF Join, ReceiveData, ReceiveFails, ChooseChannel, Client, ClientInv, Size, srv
  <2>2. CASE ReceiveList
    <3>1. /\ client = "receive" /\ client' = "print" /\ "list" \in net
          /\ entry' = 1 /\ UNCHANGED screen
      BY <2>2 DEF ReceiveList, Client, Takes
    <3>2. server = "send" /\ screen = <<>>
      BY <3>1 DEF ServerInv, ClientInv
    <3>3. list \in Seq(Entry)
      BY <3>2, ListTyped DEF ServerInv
    <3>4. Bytes(list) \in Nat /\ Bytes(list) > 0 /\ MAX_MSG \in Nat \ {0}
      BY <3>3, BytesNat, MsgAssumption
    <3>5. entry' = Bytes(screen') /\ entry' <= Size'
      BY <1>1, <3>1, <3>2, <3>4, BytesOfNothing DEF Size, srv
    <3> QED BY <1>1, <3>1, <3>2, <3>5 DEF ClientInv, srv
  <2>3. CASE PrintEntry
    <3>0. client = "print" /\ client' = "print" /\ MoreToPrint /\ Whole
          /\ screen' = Append(screen, This) /\ entry' = entry + EntryLen(This)
      BY <2>3 DEF PrintEntry, Client
    <3>1. Len(screen) < Len(list)
      BY <3>0, Reading DEF MoreToPrint
    <3>2. This \in Entry /\ screen \in Seq(Entry) /\ list \in Seq(Entry) /\ server = "send"
      BY <3>0, <3>1, Reading
    <3>3. entry' = Bytes(screen')
      BY <3>0, <3>2, Reading, BytesAppend
    <3>4. entry' <= Size'
      BY <1>1, <3>0 DEF Whole, Size, srv
    <3>5. /\ screen' \in Seq(Entry) /\ Len(screen') = Len(screen) + 1
          /\ screen'[Len(screen) + 1] = list[Len(screen) + 1]
          /\ \A k \in 1 .. Len(screen) : screen'[k] = screen[k]
      BY <3>0, <3>2 DEF This
    <3>6. \A k \in 1 .. Len(screen') : screen'[k] = list[k]
      BY <3>2, <3>5 DEF ClientInv
    <3>7. Len(screen') <= Len(list)
      BY <3>1, <3>2, <3>5
    <3> QED BY <1>1, <3>0, <3>2, <3>3, <3>4, <3>5, <3>6, <3>7 DEF ClientInv, srv
  <2>4. CASE PrintBeyond
    <3>0. client = "print" /\ client' = "undefined" /\ MoreToPrint /\ ~Whole
          /\ UNCHANGED <<entry, screen>>
      BY <2>4 DEF PrintBeyond, Client
    <3>1. Bytes(list) > MAX_MSG
      BY <3>0, Reading DEF MoreToPrint, Whole
    <3> QED BY <1>1, <3>0, <3>1 DEF ClientInv, Size, srv
  <2>5. CASE AskChannel
    <3>0. client = "print" /\ client' = "ask" /\ ~MoreToPrint /\ UNCHANGED <<entry, screen>>
      BY <2>5 DEF AskChannel, Client
    <3>1. screen = list <=> Bytes(list) <= MAX_MSG
      BY <3>0, Reading DEF MoreToPrint
    <3> QED BY <1>1, <3>0, <3>1 DEF ClientInv, Size, srv
  <2> QED BY <2>1, <2>2, <2>3, <2>4, <2>5 DEF ClientStep
<1> QED BY <1>2, <1>3, <1>4

\* The invariant is inductive.
LEMMA RadioStep == RadioInv /\ [Next]_vars => RadioInv'
<1> SUFFICES ASSUME RadioInv, [Next]_vars PROVE RadioInv'
  OBVIOUS
<1>1. CASE ServerStep
  BY <1>1, ServerSteps
<1>2. CASE ClientStep \/ ReceiveFails \/ ChooseChannel
  BY <1>2, ClientSteps
<1>3. ASSUME NEW c \in Channels, SendData(c) \/ OpenNext(c) \/ ReadFails(c) PROVE RadioInv'
  BY <1>3, ReaderSteps
<1>4. ASSUME UNCHANGED <<media, srv, clt>>, net' \subseteq net PROVE RadioInv'
  <2> USE DEF RadioInv
  <2>1. MediaInv' /\ ChnList' = ChnList
    BY <1>4, MediaParts, MediaKept DEF media
  <2>2. ServerInv'
    BY <1>4, <2>1 DEF ServerInv, media, srv
  <2>3. ClientInv'
    BY <1>4, ClientKept DEF srv, clt
  <2> QED BY <2>1, <2>2, <2>3
<1>5. CASE Lose
  BY <1>4, <1>5 DEF Lose
<1>6. CASE UNCHANGED vars
  BY <1>4, <1>6 DEF vars
<1> QED BY <1>1, <1>2, <1>3, <1>5, <1>6 DEF Next

\* The radio's variables keep their types: the number of channels fits its
\* signed 8 bits (mlib_get_chn_list()), no index of a song leaves gl_pathv[],
\* and the descriptors stay within the limit, for any library.
THEOREM RadioTyped == Spec => []TypeOK
<1>1. RadioInv => TypeOK
  <2> SUFFICES ASSUME RadioInv PROVE TypeOK
    OBVIOUS
  <2> USE DEF RadioInv
  <2>1. MediaTypeOK
    BY MediaTyped
  <2>2. list \in Seq(Entry) /\ Len(list) <= sum_chn_nr
    <3>1. CASE server \in {"send", "ended"}
      BY <3>1, ListTyped, MediaParts DEF ServerInv
    <3>2. CASE server \notin {"send", "ended"}
      <4>1. list = <<>>
        BY <3>2 DEF ServerInv
      <4> QED BY <4>1, MediaParts
    <3> QED BY <3>1, <3>2
  <2>3. entry \in 1 .. MAX_MSG
    <3>1. MAX_MSG \in Nat \ {0}
      BY MsgAssumption
    <3>2. CASE client \in {"join", "receive", "failed"}
      BY <3>1, <3>2 DEF ClientInv
    <3>3. CASE client \notin {"join", "receive", "failed"}
      <4>1. entry = Bytes(screen) /\ entry <= Size /\ screen \in Seq(Entry)
        BY <3>3 DEF ClientInv
      <4>2. entry \in Nat /\ entry > 0 /\ Bytes(list) \in Nat
        BY <2>2, <4>1, BytesNat
      <4> QED BY <3>1, <4>1, <4>2 DEF Size
    <3> QED BY <3>2, <3>3
  <2> QED BY <2>1, <2>2, <2>3 DEF TypeOK, ServerInv, ClientInv
<1> QED BY RadioInit, RadioStep, <1>1, PTL DEF Spec

\* The list that the server sends names each readable directory of the library
\* once, except those of which a call failed or for which no number was left, and
\* nothing else, in the library's order and numbered from 1 without a hole: the
\* readers of songs, who change the array all the while, do not touch it.
THEOREM ListIsExact == Spec => []ListExact
<1>1. RadioInv => ListExact
  BY MediaExact DEF RadioInv, ServerInv, ListExact
<1> QED BY RadioInit, RadioStep, <1>1, PTL DEF Spec

\* What client.c prints is a beginning of the list, and all of it unless the
\* list is longer than its buffer: the sum of the lengths it has passed is
\* the place of an entry, for entries of any length.
THEOREM EntriesAreRead == Spec => []EntriesRead
<1>1. RadioInv => EntriesRead
  <2> SUFFICES ASSUME RadioInv PROVE EntriesRead
    OBVIOUS
  <2> USE DEF RadioInv
  <2>1. IsPrefix(screen, list)
    <3>1. screen \in Seq(Entry) /\ Len(screen) <= Len(list) /\ \A k \in 1 .. Len(screen) : screen[k] = list[k]
      BY DEF ClientInv
    <3>2. SubSeq(screen, 1, Len(screen)) = SubSeq(list, 1, Len(screen))
      BY <3>1
    <3> QED BY <3>1, <3>2 DEF IsPrefix
  <2> QED BY <2>1 DEF EntriesRead, ClientInv
<1> QED BY RadioInit, RadioStep, <1>1, PTL DEF Spec

-----------------------------------------------------------------------------
(* Samples.                                                                *)

\* A step of the side-by-side programs is a step or a stutter of each of them.
LEMMA OneRuns ==
  ASSUME [SamplesNext]_samples
  PROVE  /\ [C!Next]_(C!vars) /\ [I!Next]_(I!vars) /\ [R!Next]_(R!vars)
         /\ [D!Next]_(D!vars) /\ [P!Next]_(P!vars) /\ [F!Next]_(F!vars)
<1> USE DEF copy, pipe, rotation, daemon, pool, file,
            C!vars, I!vars, R!vars, D!vars, P!vars, F!vars
<1>1. CASE Copies
  BY <1>1 DEF Copies
<1>2. CASE Pipes
  BY <1>2 DEF Pipes
<1>3. CASE Rotates
  BY <1>3 DEF Rotates
<1>4. CASE Serves
  BY <1>4 DEF Serves
<1>5. CASE Pools
  BY <1>5 DEF Pools
<1>6. CASE Files
  BY <1>6 DEF Files
<1>7. CASE UNCHANGED samples
  BY <1>7 DEF samples
<1> QED BY <1>1, <1>2, <1>3, <1>4, <1>5, <1>6, <1>7 DEF SamplesNext

\* Each program starts in an initial state of its own.
LEMMA AllStart ==
  SamplesInit => C!Init /\ I!Init /\ R!Init /\ D!Init /\ P!Init /\ F!Init
BY DEF SamplesInit

-----------------------------------------------------------------------------
(* Daemon.                                                                 *)

DaemonPlaces == {"none", "child", "flock", "truncate", "write", "fopen", "loop"}

\* Who has passed flock() has the lock and nobody else has; and what the owner
\* of the lock has made of the file so far.
DaemonInv ==
  /\ inst \in [Pids -> DaemonPlaces]
  /\ lockers \subseteq Pids /\ spoilt \subseteq Pids
  /\ \A p \in Pids : D!Locked(p) <=> p \in lockers
  /\ \A p, q \in lockers : p = q
  /\ \A p \in Pids \ spoilt :
       /\ inst[p] = "write" => pidfile = Empty
       /\ inst[p] \in {"fopen", "loop"} => pidfile = p

\* No instance has the lock at the start.
LEMMA DaemonStart == D!Init => DaemonInv
BY DEF D!Init, DaemonInv, DaemonPlaces, D!Locked

\* The invariant of the daemon is inductive.
LEMMA DaemonStep == DaemonInv /\ [D!Next]_(D!vars) => DaemonInv'
<1> SUFFICES ASSUME DaemonInv, [D!Next]_(D!vars) PROVE DaemonInv'
  OBVIOUS
<1> USE DEF DaemonInv, DaemonPlaces, D!Locked, D!Step
<1>1. ASSUME NEW p \in Pids, D!Fork(p) \/ D!Detach(p) PROVE DaemonInv'
  BY <1>1 DEF D!Fork, D!Detach
<1>2. ASSUME NEW p \in Pids, D!Flock(p) PROVE DaemonInv'
  BY <1>2 DEF D!Flock
<1>3. ASSUME NEW p \in Pids, D!Truncate(p) PROVE DaemonInv'
  BY <1>3 DEF D!Truncate
<1>4. ASSUME NEW p \in Pids, D!Write(p) PROVE DaemonInv'
  BY <1>4 DEF D!Write
<1>5. ASSUME NEW p \in Pids, D!Loop(p) PROVE DaemonInv'
  BY <1>5 DEF D!Loop
<1>6. ASSUME NEW p \in Pids, D!End(p) PROVE DaemonInv'
  BY <1>6 DEF D!End
<1>7. CASE UNCHANGED D!vars
  BY <1>7 DEF D!vars
<1> QED BY <1>1, <1>2, <1>3, <1>4, <1>5, <1>6, <1>7 DEF D!Next

\* However many instances are started and killed, one at most has passed the
\* lock (mydaemon.c, line 117), and the file names the one that is in its
\* loop unless a call on the file failed (lines 122-124).
THEOREM OneInstance == SamplesSpec => []RunsAlone
<1>1. DaemonInv => RunsAlone
  BY DEF DaemonInv, DaemonPlaces, RunsAlone, D!RunsAlone, D!Locked
<1>2. SamplesInit => DaemonInv
  BY AllStart, DaemonStart
<1>3. DaemonInv /\ [SamplesNext]_samples => DaemonInv'
  BY OneRuns, DaemonStep
<1> QED BY <1>1, <1>2, <1>3, PTL DEF SamplesSpec

-----------------------------------------------------------------------------
(* RatedCopy.                                                              *)

\* What a bucket of tbf can hold: whole credits, up to the burst.
Credits == {k * CPS : k \in 0 .. 20}

\* What the rate still allows covers the bucket and what has been taken of it.
CopyInv ==
  /\ copier \in {"tbf", "leaky", "siglib", "thrlib"}
  /\ spot \in {"open", "init", "test", "sleep", "pause", "take", "fetch", "read", "ended"}
  /\ spot \in {"test", "sleep", "pause", "take"} => copier \in {"tbf", "leaky"}
  /\ spot \in {"init", "fetch"} => copier \in {"siglib", "thrlib"}
  /\ token \in 0 .. C!BURST /\ slack \in Nat /\ slack >= token
  /\ rest \in Nat /\ written \in Nat /\ size \in Nat
  /\ copier = "tbf" => token \in Credits
  /\ copier = "leaky" => token \in {0, CPS}
  /\ spot = "take" => taken \in Nat /\ taken > 0 /\ token >= taken
  /\ spot = "take" /\ copier = "tbf" => taken \in Credits
  /\ spot = "read" => taken \in 0 .. CPS /\ slack >= token + taken
  /\ lost \/ written + rest = size
  /\ spot = "ended" /\ ~lost => rest = 0

\* The arithmetic of the bucket.
LEMMA BurstIs == CPS \in Nat /\ CPS > 0 /\ C!BURST = 20 * CPS /\ C!BURST \in Nat /\ C!BURST >= CPS
BY CopyAssumption DEF C!BURST

\* A credit keeps the bucket in whole credits; so does taking one from a bucket
\* that is not empty.
LEMMA CreditsClosed ==
  ASSUME NEW tok \in Credits
  PROVE  /\ tok \in 0 .. C!BURST
         /\ C!Least(tok + CPS, C!BURST) \in Credits
         /\ tok > 0 => tok - CPS \in Credits /\ tok >= CPS
<1>0. CPS \in Nat /\ CPS > 0 /\ C!BURST = 20 * CPS
  BY BurstIs
<1>1. PICK k \in 0 .. 20 : tok = k * CPS
  BY DEF Credits
<1>2. tok \in Nat /\ tok <= 20 * CPS
  BY <1>0, <1>1
<1>3. CASE k = 20
  <2>1. C!Least(tok + CPS, C!BURST) = 20 * CPS
    BY <1>0, <1>1, <1>3 DEF C!Least
  <2>2. tok - CPS = 19 * CPS /\ tok >= CPS
    BY <1>0, <1>1, <1>3
  <2>3. 20 * CPS \in Credits /\ 19 * CPS \in Credits
    BY DEF Credits
  <2> QED BY <1>0, <1>2, <2>1, <2>2, <2>3
<1>4. CASE k # 20
  <2>1. tok + CPS = (k + 1) * CPS /\ k + 1 \in 0 .. 20
    BY <1>0, <1>1, <1>4
  <2>2. (k + 1) * CPS <= 20 * CPS
    BY <1>0, <2>1
  <2>3. C!Least(tok + CPS, C!BURST) = (k + 1) * CPS
    BY <1>0, <1>2, <2>1, <2>2 DEF C!Least
  <2>4. (k + 1) * CPS \in Credits
    BY <2>1 DEF Credits
  <2>5. ASSUME tok > 0 PROVE tok - CPS \in Credits /\ tok >= CPS
    <3>1. k >= 1
      BY <1>0, <1>1, <2>5
    <3>2. tok - CPS = (k - 1) * CPS /\ k - 1 \in 0 .. 20 /\ (k - 1) * CPS >= 0
      BY <1>0, <1>1, <3>1
    <3>3. (k - 1) * CPS \in Credits
      BY <3>2 DEF Credits
    <3> QED BY <1>0, <1>2, <3>2, <3>3
  <2> QED BY <1>0, <1>2, <2>3, <2>4, <2>5
<1> QED BY <1>3, <1>4

\* A fetch gives no more than the bucket has.
LEMMA CreditFetched ==
  ASSUME NEW m \in Nat, NEW n \in Nat, NEW tok \in 0 .. m, NEW tak \in 1 .. n, NEW sl \in Nat,
         sl >= tok, tok - tak >= 0
  PROVE  /\ tok - tak \in 0 .. m /\ tak \in 0 .. n
         /\ sl >= tok - tak /\ sl >= (tok - tak) + tak
OBVIOUS

\* A copy starts with an empty bucket and nothing written.
LEMMA CopyStart == C!Init => CopyInv
<1> SUFFICES ASSUME C!Init PROVE CopyInv
  OBVIOUS
<1>1. C!BURST \in Nat /\ size \in Nat /\ size + 0 = size /\ 0 + size = size
  BY BurstIs, CopyAssumption DEF C!Init
<1>2. lost = FALSE /\ spot = "open" /\ token = 0 /\ slack = 0 /\ written = 0 /\ rest = size
  BY DEF C!Init
<1>3. copier \in {"tbf", "leaky", "siglib", "thrlib"}
  BY DEF C!Init
<1>4. 0 \in Credits
  <2>1. 0 * CPS = 0 /\ 0 \in 0 .. 20
    BY CopyAssumption
  <2> QED BY <2>1 DEF Credits
<1> QED BY <1>1, <1>2, <1>3, <1>4 DEF CopyInv

\* An alarm brings at most what the rate allows.
LEMMA CopyAlarm ==
  ASSUME CopyInv, C!Alarm
  PROVE  CopyInv'
<1>0. CPS \in Nat /\ CPS > 0 /\ C!BURST \in Nat /\ C!BURST >= CPS
  BY BurstIs
<1>1. /\ spot # "ended"
      /\ spot' = IF spot = "pause" THEN "test" ELSE spot
      /\ slack' = C!Least(slack + CPS, C!BURST + CPS)
      /\ UNCHANGED <<copier, taken, rest, size, written, lost>>
  BY DEF C!Alarm
<1>2. token \in 0 .. C!BURST /\ slack \in Nat /\ slack >= token
  BY DEF CopyInv
<1>3. CASE copier = "leaky"
  <2>1. token' = CPS /\ token \in {0, CPS}
    BY <1>3 DEF C!Alarm, C!SetFlag, CopyInv
  <2>2. token' \in 0 .. C!BURST /\ slack' \in Nat /\ slack' >= token' /\ token' >= token
    BY <1>0, <1>1, <1>2, <2>1 DEF C!Least
  <2>3. spot = "read" /\ taken \in 0 .. CPS /\ slack >= token + taken => slack' >= token' + taken
    BY <1>0, <1>1, <1>2, <2>1 DEF C!Least
  <2>4. spot = "take" /\ taken \in Nat /\ token >= taken => token' >= taken
    BY <1>0, <2>1
  <2> QED BY <1>1, <1>3, <2>1, <2>2, <2>3, <2>4 DEF CopyInv
<1>4. CASE copier # "leaky"
  <2>1. token' = C!Least(token + CPS, C!BURST)
    BY <1>4 DEF C!Alarm, C!FillBucket
  <2>2. token' \in 0 .. C!BURST /\ slack' \in Nat /\ slack' >= token' /\ token' >= token
    BY <1>0, <1>1, <1>2, <2>1 DEF C!Least
  <2>3. spot = "read" /\ taken \in 0 .. CPS /\ slack >= token + taken => slack' >= token' + taken
    BY <1>0, <1>1, <1>2, <2>1 DEF C!Least
  <2>4. copier = "tbf" => token' \in Credits
    BY <2>1, CreditsClosed DEF CopyInv
  <2>5. spot = "take" /\ taken \in Nat /\ token >= taken => token' >= taken
    BY <1>2, <2>2
  <2> QED BY <1>1, <1>4, <2>2, <2>3, <2>4, <2>5 DEF CopyInv
<1> QED BY <1>3, <1>4

\* The invariant of the copies is inductive.
LEMMA CopyStep == CopyInv /\ [C!Next]_(C!vars) => CopyInv'
<1> SUFFICES ASSUME CopyInv, [C!Next]_(C!vars) PROVE CopyInv'
  OBVIOUS
<1>0. CPS \in Nat /\ CPS > 0 /\ C!BURST \in Nat /\ C!BURST >= CPS
  BY BurstIs
<1>1. CASE C!Alarm
  BY <1>1, CopyAlarm
<1> USE <1>0 DEF CopyInv, C!Go, C!Again, C!OwnHandler
<1>2. CASE C!OpenFiles \/ C!OpenFails
  BY <1>2 DEF C!OpenFiles, C!OpenFails
<1>3. CASE (copier \in {"tbf", "leaky"}) /\ (C!TestToken \/ C!Pause)
  BY <1>3 DEF C!TestToken, C!Pause
<1>4. CASE C!TakeToken
  <2>1. /\ copier = "tbf" /\ spot = "take" /\ spot' = "read" /\ taken' = CPS
        /\ token' \in {token - CPS, taken - CPS}
        /\ UNCHANGED <<copier, rest, size, written, lost, slack>>
    BY <1>4 DEF C!TakeToken
  <2>2. token \in Credits /\ taken \in Credits /\ taken > 0 /\ token >= taken
    BY <2>1
  <2>3. slack \in Nat /\ slack >= token
    OBVIOUS
  <2> HIDE DEF CopyInv
  <2>4. token \in 0 .. C!BURST /\ taken \in 0 .. C!BURST /\ token > 0
    BY <1>0, <2>2, CreditsClosed
  <2>5. token' \in Credits
    BY <2>1, <2>2, <2>4, CreditsClosed
  <2>6. token' \in 0 .. C!BURST
    BY <2>5, CreditsClosed
  <2>7. slack >= token' /\ slack >= token' + CPS
    <3>1. CPS \in Nat /\ token \in Nat /\ taken \in Nat /\ token >= taken
      BY <1>0, <2>2, <2>4
    <3>2. token' = token - CPS \/ token' = taken - CPS
      BY <2>1
    <3> QED BY <2>3, <3>1, <3>2
  <2>8. /\ CPS \in 0 .. CPS
        /\ rest \in Nat /\ written \in Nat /\ size \in Nat /\ (lost \/ written + rest = size)
    BY <1>0 DEF CopyInv
  <2> QED BY <2>1, <2>3, <2>5, <2>6, <2>7, <2>8 DEF CopyInv
<1>5. CASE C!ClearFlag
  BY <1>5 DEF C!ClearFlag
<1>6. CASE C!LoadLibrary
  BY <1>6 DEF C!LoadLibrary
<1>7. CASE C!FetchToken
  <2>1. /\ spot = "fetch" /\ spot' = "read"
        /\ UNCHANGED <<copier, rest, size, written, lost, slack>>
    BY <1>7 DEF C!FetchToken
  <2>2. taken' \in 1 .. CPS /\ token' = token - taken' /\ token' >= 0
    BY <1>7 DEF C!FetchToken, C!Least
  <2>3. copier \in {"siglib", "thrlib"}
    BY <2>1
  <2>4. token \in 0 .. C!BURST /\ slack \in Nat /\ slack >= token
    OBVIOUS
  <2> HIDE DEF CopyInv
  <2>5. /\ token' \in 0 .. C!BURST /\ slack >= token' /\ slack >= token' + taken'
        /\ taken' \in 0 .. CPS
    BY <1>0, <2>2, <2>4, CreditFetched
  <2>6. rest \in Nat /\ written \in Nat /\ size \in Nat /\ (lost \/ written + rest = size)
    BY DEF CopyInv
  <2> QED BY <2>1, <2>3, <2>4, <2>5, <2>6 DEF CopyInv
<1>8. CASE C!CopyBytes
  <2>1. /\ spot = "read" /\ spot' \in {"test", "fetch"} /\ slack' = slack - taken
        /\ copier \in {"tbf", "leaky"} => spot' = "test"
        /\ copier \notin {"tbf", "leaky"} => spot' = "fetch"
        /\ UNCHANGED <<copier, token, size>>
    BY <1>8 DEF C!CopyBytes
  <2>2. PICK n \in 1 .. C!Least(taken, rest) :
          /\ rest' = rest - n
          /\ (written' = written + n /\ lost' = lost) \/ (written' = written /\ lost' = TRUE)
    BY <1>8 DEF C!CopyBytes
  <2>3. taken \in 0 .. CPS /\ slack >= token + taken /\ rest \in Nat /\ written \in Nat /\ size \in Nat
        /\ token \in 0 .. C!BURST /\ slack \in Nat /\ (lost \/ written + rest = size)
    BY <2>1
  <2>4. n \in Nat /\ n <= rest
    BY <2>2, <2>3 DEF C!Least
  <2>5. rest' \in Nat /\ written' \in Nat /\ (lost' \/ written' + rest' = size')
    BY <2>1, <2>2, <2>3, <2>4
  <2>6. slack' \in Nat /\ slack' >= token'
    BY <2>1, <2>3
  <2>7. (copier = "tbf" => token \in Credits) /\ (copier = "leaky" => token \in {0, CPS})
    OBVIOUS
  <2> HIDE DEF CopyInv
  <2> QED BY <2>1, <2>3, <2>5, <2>6, <2>7 DEF CopyInv
<1>9. CASE C!ReadEnd \/ C!ReadFails
  BY <1>9 DEF C!ReadEnd, C!ReadFails
<1>10. CASE UNCHANGED C!vars
  BY <1>10 DEF C!vars
<1> QED BY <1>1, <1>2, <1>3, <1>4, <1>5, <1>6, <1>7, <1>8, <1>9, <1>10
        DEF C!Next, C!Copy, C!Tbf, C!Leaky, C!SignalLib, C!ThreadLib

\* No rated copy asks read() for more than its rate allows, with the burst of
\* the sources, wherever an alarm falls, "token -= CPS" included; and a copy that
\* has ended without a failure is complete.  (The safety parts of CopiesComplete
\* for the copies.)
THEOREM RateIsKept == SamplesSpec => [](C!KeepsRate /\ C!EndsComplete)
<1> DEFINE Kept == C!KeepsRate /\ C!EndsComplete
<1>1. CopyInv => Kept
  BY BurstIs DEF CopyInv, C!KeepsRate, C!EndsComplete
<1>2. SamplesInit => CopyInv
  BY AllStart, CopyStart
<1>3. CopyInv /\ [SamplesNext]_samples => CopyInv'
  BY OneRuns, CopyStep
<1> HIDE DEF Kept
<1>4. SamplesSpec => []Kept
  BY <1>1, <1>2, <1>3, PTL DEF SamplesSpec
<1> QED BY <1>4 DEF Kept

-----------------------------------------------------------------------------
(* Pipe.                                                                   *)

\* Bytes are to be written, in the pipe or read; a process has its ends open as
\* its place says; and who stops early has failed.
PipeInv ==
  /\ user \in {"print", "play"}
  /\ reader \in {"start", "read", "wait", "done", "failed"}
  /\ writer \in {"start", "write", "done", "killed"}
  /\ held \in Nat /\ todo \in Nat /\ got \in Nat /\ total \in Nat
  /\ got + held + todo = total
  /\ ends \subseteq {"reader", "writer"} \X {"r", "w"}
  /\ <<"reader", "r">> \in ends <=> reader \in {"start", "read"}
  /\ <<"reader", "w">> \in ends <=> reader = "start"
  /\ <<"writer", "r">> \in ends <=> writer = "start"
  /\ <<"writer", "w">> \in ends <=> writer \in {"start", "write"}
  /\ reader \in {"wait", "done"} => held = 0 /\ writer \in {"done", "killed"}
  /\ reader = "failed" => broken
  /\ writer = "killed" => broken
  /\ writer = "done" /\ ~broken => todo = 0

\* After fork() both processes have both ends open.
LEMMA PipeStart == I!Init => PipeInv
<1> SUFFICES ASSUME I!Init PROVE PipeInv
  OBVIOUS
<1>1. total \in Nat
  BY PipeAssumption DEF I!Init
<1>2. /\ reader = "start" /\ writer = "start" /\ ends = {"reader", "writer"} \X {"r", "w"}
      /\ held = 0 /\ got = 0 /\ todo = total /\ broken = FALSE
  BY DEF I!Init
<1>3. user \in {"print", "play"}
  BY DEF I!Init
<1> QED BY <1>1, <1>2, <1>3 DEF PipeInv

\* An end is open if one of the processes has it open.
LEMMA OpenEnds ==
  ASSUME PipeInv
  PROVE  /\ I!Open("w") <=> reader = "start" \/ writer \in {"start", "write"}
         /\ I!Open("r") <=> writer = "start" \/ reader \in {"start", "read"}
<1>1. \A x : I!Open(x) <=> <<"reader", x>> \in ends \/ <<"writer", x>> \in ends
  BY DEF PipeInv, I!Open
<1> QED BY <1>1 DEF PipeInv

\* A process that is gone has no end open, and the others keep theirs.
LEMMA LeftEnds ==
  ASSUME NEW process, NEW E
  PROVE  \A x, y : <<x, y>> \in {e \in E : e[1] # process} <=> <<x, y>> \in E /\ x # process
OBVIOUS

\* The invariant of the pipes is inductive.
LEMMA PipeStep == PipeInv /\ [I!Next]_(I!vars) => PipeInv'
<1> SUFFICES ASSUME PipeInv, [I!Next]_(I!vars) PROVE PipeInv'
  OBVIOUS
<1> USE DEF PipeInv, I!Reader, I!Writer
<1>1. CASE I!ClosesWriteEnd
  BY <1>1 DEF I!ClosesWriteEnd
<1>2. CASE I!Read
  BY <1>2, PipeAssumption DEF I!Read, I!Fewer
<1>3. CASE I!ReadEnd
  BY <1>3, OpenEnds, LeftEnds DEF I!ReadEnd, I!Without
<1>4. CASE I!Wait
  BY <1>4 DEF I!Wait
<1>5. CASE I!ReaderFails
  BY <1>5, LeftEnds DEF I!ReaderFails, I!Without
<1>6. CASE I!ClosesReadEnd
  BY <1>6 DEF I!ClosesReadEnd
<1>7. CASE I!OpenFails \/ I!CopyFails
  BY <1>7, LeftEnds DEF I!OpenFails, I!CopyFails, I!Without
<1>8. CASE I!Write
  BY <1>8, PipeAssumption DEF I!Write, I!Fewer
<1>9. CASE I!WriteKills
  BY <1>9, OpenEnds, LeftEnds DEF I!WriteKills, I!Without
<1>10. CASE I!WriteEnds
  BY <1>10, LeftEnds DEF I!WriteEnds, I!Without
<1>11. CASE UNCHANGED I!vars
  BY <1>11 DEF I!vars
<1> QED BY <1>1, <1>2, <1>3, <1>4, <1>5, <1>6, <1>7, <1>8, <1>9, <1>10, <1>11
        DEF I!Next, I!ReaderStep, I!WriterStep

\* A reader of the pipe that is done without a failure has read all that
\* there was to write: it sees no end of the data before the writer is done,
\* as the writer's end is open until then; and no writer is killed.  (Of
\* CopiesComplete, for the pipes.)
THEOREM PipeIsRead == SamplesSpec => []I!AllRead
<1>1. PipeInv => I!AllRead
  BY DEF PipeInv, I!AllRead
<1>2. SamplesInit => PipeInv
  BY AllStart, PipeStart
<1>3. PipeInv /\ [SamplesNext]_samples => PipeInv'
  BY OneRuns, PipeStep
<1> QED BY <1>1, <1>2, <1>3, PTL DEF SamplesSpec

-----------------------------------------------------------------------------
(* Rotation.                                                               *)

After(t) == (t + 1) % THRNR

\* main()'s index follows the thread that has its turn, or the last that had.
RotationInv ==
  /\ lastid \in R!Workers /\ i \in R!Workers
  /\ curid = -1 \/ curid \in R!Workers
  /\ IF curid = -1 THEN i = After(lastid) ELSE curid = After(lastid) /\ i = After(curid)

\* The thread after a thread is one of them.
LEMMA AfterWorker ==
  /\ \A t \in R!Workers : After(t) \in R!Workers /\ t # -1
  /\ After(THRNR - 1) = 0 /\ {0, THRNR - 1} \subseteq R!Workers
BY RotationAssumption DEF After, R!Workers

\* The first thread follows the last one.
LEMMA RotationStart == R!Init => RotationInv
BY AfterWorker DEF R!Init, RotationInv

\* The invariant of the rotation is inductive, and its steps print in turn.
LEMMA RotationStep ==
  ASSUME RotationInv, [R!Next]_(R!vars)
  PROVE  RotationInv' /\ (UNCHANGED lastid \/ lastid' = After(lastid))
<1> USE AfterWorker DEF RotationInv
<1>1. CASE R!Post
  BY <1>1 DEF R!Post, After
<1>2. ASSUME NEW t, R!PrintTurn(t), t # R!Main, t \in R!Threads
      PROVE  RotationInv' /\ lastid' = After(lastid)
  <2>1. t \in R!Workers
    BY <1>2 DEF R!Threads
  <2> QED BY <1>2, <2>1 DEF R!PrintTurn
<1>3. CASE UNCHANGED <<curid, i, lastid>>
  BY <1>3
<1>4. ASSUME NEW t \in R!Threads, R!ThreadStep(t) \/ R!WakeUp(t), ~R!Post, ~(R!PrintTurn(t) /\ t # R!Main)
      PROVE  UNCHANGED <<curid, i, lastid>>
  BY <1>4 DEF R!ThreadStep, R!WakeUp, R!Lock, R!Wait, R!Unlock, R!Relock, R!Clean
<1>5. ASSUME R!MainStep \/ R!CreateFails \/ R!Kill \/ R!Cancel \/ R!CancelNobody
      PROVE  UNCHANGED <<curid, i, lastid>>
  BY <1>5 DEF R!MainStep, R!CreateFails, R!Kill, R!Cancel, R!CancelNobody, R!End, R!Exit,
              R!CreateThread
<1>6. CASE UNCHANGED R!vars
  BY <1>3, <1>6 DEF R!vars
<1> QED BY <1>1, <1>2, <1>3, <1>4, <1>5, <1>6 DEF R!Next

\* The threads print in turn: each time the thread after the last one, for
\* any number of threads, whatever is cancelled when.  (Of TakesTurns.)
THEOREM ThreadsTakeTurns == SamplesSpec => R!InTurn
<1>1. SamplesInit => RotationInv
  BY AllStart, RotationStart
<1>2. RotationInv /\ [SamplesNext]_samples => RotationInv'
  BY OneRuns, RotationStep
<1>3. RotationInv /\ [SamplesNext]_samples => [lastid' = (lastid + 1) % THRNR]_lastid
  BY OneRuns, RotationStep DEF After
<1> QED BY <1>1, <1>2, <1>3, PTL DEF SamplesSpec, R!InTurn

-----------------------------------------------------------------------------
(* PoolPoll.                                                               *)

\* The numbers that main() has passed have been taken in their order, except the
\* one that is on offer.
PollInv ==
  /\ end \in Nat /\ num \in START .. (end + 1)
  /\ stage \in [Pollers \cup {Boss} ->
                  {"none", "create", "lock", "locked", "pause", "join", "done", "exited"}]
  /\ \A w \in Pollers : stage[w] # "join"
  /\ job \in {-1, 0} \/ (job > 0 /\ job = num - 1)
  /\ given \in Seq(Nat)
  /\ Len(given) = num - START - (IF job > 0 THEN 1 ELSE 0)
  /\ \A k \in 1 .. Len(given) : given[k] = START + k - 1
  /\ stage[Boss] = "join" => num = end + 1 /\ job = -1

\* No number has been handed out at the start.
LEMMA PollStart == P!Init => PollInv
<1> SUFFICES ASSUME P!Init PROVE PollInv
  OBVIOUS
<1>1. end \in Ends /\ job = 0 /\ num = START /\ given = <<>>
  BY DEF P!Init
<1>2. stage = [t \in Pollers \cup {Boss} |-> IF t = Boss THEN "create" ELSE "none"]
  BY DEF P!Init
<1>3. START \in Nat /\ START > 0 /\ end \in Nat /\ end >= START /\ Boss \notin Pollers
  BY <1>1, PollAssumption
<1>4. num \in START .. (end + 1)
  BY <1>1, <1>3
<1>5. given \in Seq(Nat) /\ Len(given) = 0
  BY <1>1
<1>6. Len(given) = num - START - (IF job > 0 THEN 1 ELSE 0)
  BY <1>1, <1>3, <1>5
<1>7. \A k \in 1 .. Len(given) : given[k] = START + k - 1
  BY <1>5
<1>8. stage \in [Pollers \cup {Boss} ->
                   {"none", "create", "lock", "locked", "pause", "join", "done", "exited"}]
  BY <1>2
<1>9. stage[Boss] = "create" /\ \A w \in Pollers : stage[w] = "none"
  BY <1>2, <1>3
<1> QED BY <1>1, <1>3, <1>4, <1>5, <1>6, <1>7, <1>8, <1>9 DEF PollInv

\* The invariant of the polling pool is inductive.
LEMMA PollStep == PollInv /\ [P!Next]_(P!vars) => PollInv'
<1> SUFFICES ASSUME PollInv, [P!Next]_(P!vars) PROVE PollInv'
  OBVIOUS
<1>0. START \in Nat /\ START > 0 /\ Boss \notin Pollers
  BY PollAssumption
<1>1. /\ end \in Nat /\ num \in START .. (end + 1)
      /\ stage \in [Pollers \cup {Boss} ->
                      {"none", "create", "lock", "locked", "pause", "join", "done", "exited"}]
      /\ \A w \in Pollers : stage[w] # "join"
      /\ given \in Seq(Nat) /\ Len(given) \in Nat
  BY DEF PollInv
<1>2. ASSUME UNCHANGED <<end, job, num, given>>,
             stage' \in [Pollers \cup {Boss} ->
                           {"none", "create", "lock", "locked", "pause", "join", "done", "exited"}],
             \A w \in Pollers : stage'[w] # "join",
             stage'[Boss] = "join" => stage[Boss] = "join"
      PROVE  PollInv'
  BY <1>2 DEF PollInv
<1>3. ASSUME NEW w \in Pollers, P!Create(w) PROVE PollInv'
  BY <1>0, <1>1, <1>2, <1>3 DEF P!Create
<1>4. CASE P!CreateFails
  BY <1>0, <1>1, <1>2, <1>4 DEF P!CreateFails
<1>5. ASSUME NEW t \in Pollers \cup {Boss}, P!Lock(t) PROVE PollInv'
  BY <1>0, <1>1, <1>2, <1>5 DEF P!Lock
<1>6. CASE P!PollAgain
  BY <1>0, <1>1, <1>2, <1>6 DEF P!PollAgain, P!Unlock
<1>7. ASSUME NEW w \in Pollers, P!FindNothing(w) \/ P!Leave(w) PROVE PollInv'
  BY <1>0, <1>1, <1>2, <1>7 DEF P!FindNothing, P!Leave, P!Unlock
<1>8. CASE P!Offer
  <2>1. /\ num <= end /\ job = 0 /\ job' = num /\ num' = num + 1 /\ UNCHANGED <<end, given>>
        /\ stage' = [stage EXCEPT ![Boss] = "lock"]
    BY <1>8 DEF P!Offer, P!Unlock
  <2>2. Len(given) = num - START /\ \A k \in 1 .. Len(given) : given[k] = START + k - 1
    BY <1>0, <1>1, <2>1 DEF PollInv
  <2>3. num' \in START .. (end' + 1) /\ job' > 0 /\ job' = num' - 1
    BY <1>0, <1>1, <2>1
  <2>4. Len(given') = num' - START - (IF job' > 0 THEN 1 ELSE 0)
    BY <1>0, <1>1, <2>1, <2>2, <2>3
  <2>5. /\ stage' \in [Pollers \cup {Boss} ->
                         {"none", "create", "lock", "locked", "pause", "join", "done", "exited"}]
        /\ stage'[Boss] = "lock" /\ \A w \in Pollers : stage'[w] # "join"
    BY <1>0, <1>1, <2>1
  <2> QED BY <1>1, <2>1, <2>2, <2>3, <2>4, <2>5 DEF PollInv
<1>9. CASE P!Finish
  <2>1. /\ num > end /\ job = 0 /\ job' = -1 /\ UNCHANGED <<end, num, given>>
        /\ stage' = [stage EXCEPT ![Boss] = "join"]
    BY <1>9 DEF P!Finish, P!Unlock
  <2>2. Len(given) = num - START /\ \A k \in 1 .. Len(given) : given[k] = START + k - 1
    BY <1>0, <1>1, <2>1 DEF PollInv
  <2>3. num' = end' + 1
    BY <1>0, <1>1, <2>1
  <2>4. Len(given') = num' - START - (IF job' > 0 THEN 1 ELSE 0)
    BY <1>0, <1>1, <2>1, <2>2
  <2>5. /\ stage' \in [Pollers \cup {Boss} ->
                         {"none", "create", "lock", "locked", "pause", "join", "done", "exited"}]
        /\ \A w \in Pollers : stage'[w] # "join"
    BY <1>0, <1>1, <2>1
  <2> QED BY <1>1, <2>1, <2>2, <2>3, <2>4, <2>5 DEF PollInv
<1>10. ASSUME NEW w \in Pollers, P!TakeJob(w) PROVE PollInv'
  <2>1. /\ job > 0 /\ job' = 0 /\ given' = Append(given, job) /\ UNCHANGED <<end, num>>
        /\ stage' = [stage EXCEPT ![w] = "pause"]
    BY <1>10 DEF P!TakeJob, P!Unlock
  <2>2. job = num - 1 /\ job \in Nat
    BY <1>0, <1>1, <2>1 DEF PollInv
  <2>3. /\ Len(given) = num - START - 1
        /\ \A k \in 1 .. Len(given) : given[k] = START + k - 1
    BY <1>0, <1>1, <2>1 DEF PollInv
  <2>4. /\ given' \in Seq(Nat) /\ Len(given') = Len(given) + 1
        /\ \A k \in 1 .. Len(given) : given'[k] = given[k]
        /\ given'[Len(given) + 1] = job
    BY <1>1, <2>1, <2>2
  <2>5. Len(given') = num' - START - (IF job' > 0 THEN 1 ELSE 0)
    BY <1>0, <1>1, <2>1, <2>3, <2>4
  <2>6. job = START + (Len(given) + 1) - 1
    BY <1>0, <1>1, <2>2, <2>3
  <2>7. \A k \in 1 .. Len(given') : given'[k] = START + k - 1
    <3> SUFFICES ASSUME NEW k \in 1 .. Len(given') PROVE given'[k] = START + k - 1
      OBVIOUS
    <3>1. k \in 1 .. Len(given) \/ k = Len(given) + 1
      BY <1>1, <2>4
    <3>2. CASE k \in 1 .. Len(given)
      BY <2>3, <2>4, <3>2
    <3>3. CASE k = Len(given) + 1
      BY <2>4, <2>6, <3>3
    <3> QED BY <3>1, <3>2, <3>3
  <2>8. /\ stage' \in [Pollers \cup {Boss} ->
                         {"none", "create", "lock", "locked", "pause", "join", "done", "exited"}]
        /\ \A v \in Pollers : stage'[v] # "join"
        /\ stage'[Boss] = stage[Boss]
    BY <1>0, <1>1, <2>1
  <2>9. stage[Boss] # "join"
    BY <2>1 DEF PollInv
  <2> QED BY <1>1, <2>1, <2>4, <2>5, <2>7, <2>8, <2>9 DEF PollInv
<1>11. CASE UNCHANGED P!vars
  BY <1>1, <1>2, <1>11 DEF P!vars
<1> QED BY <1>3, <1>4, <1>5, <1>6, <1>7, <1>8, <1>9, <1>10, <1>11
        DEF P!Next, P!BossStep, P!WorkerStep

\* In the pool that polls every number is taken in its turn, once, by whichever
\* worker; none is lost between main() and the workers; and main() goes to join
\* them only when all have been taken.  (The safety parts of HandsOut.)
THEOREM NumbersTakenOnce == SamplesSpec => [](P!GivenOnce /\ P!JoinsLast)
<1> DEFINE Once == P!GivenOnce /\ P!JoinsLast
<1>1. PollInv => Once
  <2> SUFFICES ASSUME PollInv PROVE Once
    OBVIOUS
  <2>0. START \in Nat /\ end \in Nat /\ given \in Seq(Nat)
    BY PollAssumption DEF PollInv
  <2>1. P!GivenOnce
    <3>1. given = [k \in 1 .. Len(given) |-> given[k]]
      BY <2>0
    <3>2. \A k \in 1 .. Len(given) : given[k] = START + k - 1
      BY DEF PollInv
    <3> QED BY <3>1, <3>2 DEF PollInv, P!GivenOnce
  <2>2. P!JoinsLast
    BY <2>0 DEF PollInv, P!JoinsLast
  <2> QED BY <2>1, <2>2
<1>2. SamplesInit => PollInv
  BY AllStart, PollStart
<1>3. PollInv /\ [SamplesNext]_samples => PollInv'
  BY OneRuns, PollStep
<1> HIDE DEF Once
<1>4. SamplesSpec => []Once
  BY <1>1, <1>2, <1>3, PTL DEF SamplesSpec
<1> QED BY <1>4 DEF Once

-----------------------------------------------------------------------------
(* TextFiles: what the tools move.                                         *)

NulIn(t, n) == \E k \in 1 .. n : t[k] = F!Nul
EofIn(t)    == \E k \in 1 .. Len(t) : t[k] = F!Minus1

\* The output is the first n bytes of the text, or the last n in reverse.
Copied(t, o, n)   == Len(o) = n /\ \A k \in 1 .. n : o[k] = t[k]
Turned(t, o, n) == Len(o) = n /\ \A k \in 1 .. n : o[k] = t[(Len(t) - k) + 1]

\* strlen() ends at the first NUL, or where the buffer does.
LEMMA StrlenIs ==
  ASSUME NEW buf \in Seq(STRING)
  PROVE  /\ F!Strlen(buf) \in 0 .. Len(buf)
         /\ IF NulIn(buf, Len(buf)) THEN F!Strlen(buf) < Len(buf) ELSE F!Strlen(buf) = Len(buf)
<1> DEFINE nuls == {k \in 1 .. Len(buf) : buf[k] = F!Nul}
<1>0. Len(buf) \in Nat
  OBVIOUS
<1>1. F!Contains(buf, F!Nul) <=> nuls # {}
  BY DEF F!Contains
<1>2. NulIn(buf, Len(buf)) <=> nuls # {}
  BY DEF NulIn
<1>3. CASE nuls = {}
  BY <1>0, <1>1, <1>2, <1>3 DEF F!Strlen
<1>4. CASE nuls # {}
  <2>1. F!Strlen(buf) = (CHOOSE x \in nuls : \A y \in nuls : x <= y) - 1
    BY <1>1, <1>4 DEF F!Strlen, F!SelectInSeq, F!Min
  <2>2. nuls \in SUBSET Nat
    BY <1>0
  <2>3. \A x \in nuls : x \in 1 .. Len(buf)
    OBVIOUS
  <2> HIDE DEF nuls
  <2>4. \E x \in nuls : \A y \in nuls : x <= y
    BY <1>4, <2>2, Smallest
  <2>5. PICK x \in nuls : F!Strlen(buf) = x - 1
    BY <2>1, <2>4
  <2> QED BY <1>0, <1>2, <1>4, <2>3, <2>5
<1> QED BY <1>3, <1>4

\* A block of the text, byte by byte.
LEMMA SubSeqIs ==
  ASSUME NEW t \in Seq(STRING), NEW p \in Nat, NEW n \in Nat, p + n <= Len(t)
  PROVE  /\ SubSeq(t, p + 1, p + n) \in Seq(STRING) /\ Len(SubSeq(t, p + 1, p + n)) = n
         /\ \A k \in 1 .. n : SubSeq(t, p + 1, p + n)[k] = t[p + k]
OBVIOUS

\* The text reversed, byte by byte.
LEMMA ReverseIs ==
  ASSUME NEW t \in Seq(STRING)
  PROVE  /\ F!Reverse(t) \in Seq(STRING) /\ Len(F!Reverse(t)) = Len(t)
         /\ \A k \in 1 .. Len(t) : F!Reverse(t)[k] = t[(Len(t) - k) + 1]
BY DEF F!Reverse

\* What is appended to the output, byte by byte.
LEMMA Joined ==
  ASSUME NEW o \in Seq(STRING), NEW b \in Seq(STRING)
  PROVE  /\ o \o b \in Seq(STRING) /\ Len(o \o b) = Len(o) + Len(b)
         /\ \A k \in 1 .. Len(o) : (o \o b)[k] = o[k]
         /\ \A k \in 1 .. Len(b) : (o \o b)[Len(o) + k] = b[k]
BY ConcatProperties

\* The next n bytes are appended, or the n bytes before those reversed so far.
LEMMA Forward ==
  ASSUME NEW t \in Seq(STRING), NEW o \in Seq(STRING), NEW p \in Nat, NEW n \in Nat,
         p + n <= Len(t), Copied(t, o, p)
  PROVE  Copied(t, o \o SubSeq(t, p + 1, p + n), p + n)
<1> DEFINE b == SubSeq(t, p + 1, p + n)  r == o \o b
<1>1. b \in Seq(STRING) /\ Len(b) = n /\ \A k \in 1 .. n : b[k] = t[p + k]
  BY SubSeqIs
<1>2. Len(o) = p /\ \A k \in 1 .. p : o[k] = t[k]
  BY DEF Copied
<1> HIDE DEF b
<1>3. Len(r) = p + n /\ (\A k \in 1 .. p : r[k] = o[k]) /\ \A k \in 1 .. n : r[p + k] = b[k]
  BY <1>1, <1>2, Joined
<1> HIDE DEF r
<1>4. ASSUME NEW k \in 1 .. (p + n) PROVE r[k] = t[k]
  <2>1. CASE k <= p
    BY <1>2, <1>3, <2>1
  <2>2. CASE k > p
    <3>1. k - p \in 1 .. n /\ p + (k - p) = k
      BY <2>2
    <3>2. r[p + (k - p)] = b[k - p] /\ b[k - p] = t[p + (k - p)]
      BY <1>1, <1>3, <3>1
    <3> QED BY <3>1, <3>2
  <2> QED BY <2>1, <2>2
<1>5. Copied(t, r, p + n)
  BY <1>3, <1>4 DEF Copied
<1> QED BY <1>5 DEF r, b

LEMMA Backward ==
  ASSUME NEW t \in Seq(STRING), NEW o \in Seq(STRING), NEW p \in Nat, NEW n \in Nat,
         p + n <= Len(t), Turned(t, o, p), NEW b \in Seq(STRING), Len(b) = n,
         \A k \in 1 .. n : b[k] = t[(Len(t) - (p + k)) + 1]
  PROVE  Turned(t, o \o b, p + n)
<1> DEFINE r == o \o b
<1>2. Len(o) = p /\ \A k \in 1 .. p : o[k] = t[(Len(t) - k) + 1]
  BY DEF Turned
<1>3. Len(r) = p + n /\ (\A k \in 1 .. p : r[k] = o[k]) /\ \A k \in 1 .. n : r[p + k] = b[k]
  BY <1>2, Joined
<1> HIDE DEF r
<1>4. ASSUME NEW k \in 1 .. (p + n) PROVE r[k] = t[(Len(t) - k) + 1]
  <2>1. CASE k <= p
    BY <1>2, <1>3, <2>1
  <2>2. CASE k > p
    <3>1. k - p \in 1 .. n /\ p + (k - p) = k
      BY <2>2
    <3>2. r[p + (k - p)] = b[k - p] /\ b[k - p] = t[(Len(t) - (p + (k - p))) + 1]
      BY <1>3, <3>1
    <3> QED BY <3>1, <3>2
  <2> QED BY <2>1, <2>2
<1>5. Turned(t, r, p + n)
  BY <1>3, <1>4 DEF Turned
<1> QED BY <1>5 DEF r

\* reverse_str() keeps the length, and reverses all if no NUL is in the buffer.
LEMMA reverse_strIs ==
  ASSUME NEW buf \in Seq(STRING)
  PROVE  /\ F!reverse_str(buf) \in Seq(STRING) /\ Len(F!reverse_str(buf)) = Len(buf)
         /\ ~NulIn(buf, Len(buf)) =>
              \A k \in 1 .. Len(buf) : F!reverse_str(buf)[k] = buf[(Len(buf) - k) + 1]
<1> DEFINE n == F!Strlen(buf)  a == SubSeq(buf, 1, n)  z == SubSeq(buf, n + 1, Len(buf))
<1>1. n \in 0 .. Len(buf) /\ Len(buf) \in Nat /\ (~NulIn(buf, Len(buf)) => n = Len(buf))
  BY StrlenIs
<1>2. F!reverse_str(buf) = F!Reverse(a) \o z
  BY DEF F!reverse_str
<1> HIDE DEF n
<1>3. a \in Seq(STRING) /\ Len(a) = n /\ \A k \in 1 .. n : a[k] = buf[k]
  <2>1. SubSeq(buf, 0 + 1, 0 + n) = a
    BY <1>1
  <2> QED BY <1>1, <2>1, SubSeqIs
<1>4. z \in Seq(STRING) /\ Len(z) = Len(buf) - n
  <2> DEFINE m == Len(buf) - n
  <2>1. m \in Nat /\ n + m = Len(buf)
    BY <1>1
  <2> HIDE DEF m
  <2>2. z = SubSeq(buf, n + 1, n + m)
    BY <2>1
  <2>3. z \in Seq(STRING) /\ Len(z) = m
    BY <1>1, <2>1, <2>2, SubSeqIs
  <2> QED BY <2>3 DEF m
<1> HIDE DEF a, z
<1>5. /\ F!Reverse(a) \in Seq(STRING) /\ Len(F!Reverse(a)) = n
      /\ \A k \in 1 .. n : F!Reverse(a)[k] = a[(n - k) + 1]
  BY <1>3, ReverseIs
<1>6. /\ F!Reverse(a) \o z \in Seq(STRING) /\ Len(F!Reverse(a) \o z) = n + Len(z)
      /\ \A k \in 1 .. n : (F!Reverse(a) \o z)[k] = F!Reverse(a)[k]
  BY <1>4, <1>5, Joined
<1>7. ASSUME ~NulIn(buf, Len(buf)), NEW k \in 1 .. Len(buf)
      PROVE  F!reverse_str(buf)[k] = buf[(Len(buf) - k) + 1]
  <2>1. k \in 1 .. n /\ (n - k) + 1 \in 1 .. n /\ n = Len(buf)
    BY <1>1, <1>7
  <2> QED BY <1>2, <1>3, <1>5, <1>6, <2>1
<1> QED BY <1>1, <1>2, <1>4, <1>6, <1>7

-----------------------------------------------------------------------------
(* TextFiles: the invariant.                                               *)

\* What a tool has written when it has consumed p bytes and no call has failed;
\* mygetline() keeps the last l of them.
Wrote(u, t, o, p, l) ==
  /\ u \in (F!Cats \cup F!Cps) \ F!ByLine => Copied(t, o, p)
  /\ u \in F!ByLine => (~NulIn(t, p) => Copied(t, o, p))
  /\ u = "reverse" => Turned(t, o, p)
  /\ u = "reverse_fd" => Len(o) = p /\ (~NulIn(t, Len(t)) => Turned(t, o, p))
  /\ u = "mygetline" /\ ~NulIn(t, Len(t)) =>
       /\ Copied(t, o, p - l)
       /\ p - l > 0 => t[p - l] = F!Newline
       /\ \A k \in (p - l + 1) .. p : t[k] # F!Newline

TextInv ==
  /\ tool \in F!Cats \cup F!Cps \cup F!Reverses \cup {"mygetline"}
  /\ place \in {"open", "run", "done"}
  /\ text \in Seq(STRING) /\ out \in Seq(STRING)
  /\ pos \in Nat /\ pos <= Len(text) /\ line \in Nat /\ line <= pos /\ room \in Nat
  /\ room > 0 => line < room
  /\ room = 0 => line = 0
  /\ tool # "mygetline" => room = 0
  /\ same => pos = 0
  /\ tool \in F!Cats \cup {"mygetline"} => ~same
  /\ faults = {} /\ ~same => Wrote(tool, text, out, pos, line)
  /\ place = "done" /\ faults = {} /\ ~same =>
       pos = Len(text) \/ (tool = "mygetline" /\ EofIn(text))
  /\ place = "done" /\ exit = "0" /\ tool \in F!Cats => pos = Len(text)

Kinds == {"mycat", "mycat_line", "mycat_fread", "mycat_fd", "mycp", "mycp_fd",
          "reverse", "reverse_fd", "mygetline"}

\* The nine tools, and how they divide.
LEMMA KindsAre ==
  /\ F!Cats \cup F!Cps \cup F!Reverses \cup {"mygetline"} = Kinds
  /\ F!Cats = {"mycat", "mycat_line", "mycat_fread", "mycat_fd"}
  /\ F!ByLine = {"mycat_line", "mycp"}
  /\ (F!Cats \cup F!Cps) \ F!ByLine = {"mycat", "mycat_fread", "mycat_fd", "mycp_fd"}
BY DEF Kinds, F!Cats, F!Cps, F!Reverses, F!ByLine

\* A tool that has not opened its file has written nothing.
LEMMA TextStart == F!Init => TextInv
<1> SUFFICES ASSUME F!Init PROVE TextInv
  OBVIOUS
<1>1. /\ text \in Seq(STRING) /\ out = <<>> /\ pos = 0 /\ line = 0 /\ room = 0 /\ place = "open"
      /\ tool \in F!Cats \cup F!Cps \cup F!Reverses \cup {"mygetline"}
  BY FileAssumption DEF F!Init
<1>2. tool \in F!Cats \cup {"mygetline"} => ~same
  <2>1. tool \in F!Cats \cup {"mygetline"} => tool \notin F!Cps \cup F!Reverses
    BY DEF F!Cats, F!Cps, F!Reverses
  <2>2. tool \notin F!Cps \cup F!Reverses => same \in {FALSE}
    BY DEF F!Init
  <2> QED BY <2>1, <2>2
<1>3. Len(<<>>) = 0 /\ <<>> \in Seq(STRING) /\ Len(text) \in Nat /\ 0 <= Len(text)
  BY <1>1
<1>4. Copied(text, out, 0) /\ Turned(text, out, 0) /\ ~NulIn(text, 0)
  BY <1>1, <1>3 DEF Copied, Turned, NulIn
<1>5. Wrote(tool, text, out, 0, 0)
  BY <1>1, <1>3, <1>4 DEF Wrote
<1> QED BY <1>1, <1>2, <1>3, <1>5 DEF TextInv

\* While a tool has something to read, its source is the text.
LEMMA Running ==
  ASSUME TextInv, place = "run", F!Rest > 0
  PROVE  ~same /\ F!Source = text /\ F!Rest = Len(text) - pos /\ pos < Len(text)
<1>1. Len(text) \in Nat /\ pos \in Nat /\ Len(<<>>) = 0
  BY DEF TextInv
<1>2. ~same
  <2>1. ASSUME same PROVE FALSE
    <3>1. F!Source = <<>> /\ pos = 0
      BY <2>1 DEF F!Source, TextInv
    <3> QED BY <1>1, <3>1 DEF F!Rest
  <2> QED BY <2>1
<1>3. F!Source = text
  BY <1>2 DEF F!Source
<1> QED BY <1>1, <1>2, <1>3 DEF F!Rest

\* fgets() gives a byte at least, and no more than there are.
LEMMA LineLenIs ==
  ASSUME TextInv, place = "run", F!Rest > 0
  PROVE  F!LineLen \in 1 .. F!Rest
<1> DEFINE most == F!Fewer(BUFSIZE - 1, F!Rest)
           stops == {n \in 1 .. most : F!Ahead(n)[n] = F!Newline}
<1>1. F!Rest \in Nat /\ BUFSIZE \in Nat /\ BUFSIZE > 1
  <2>1. Len(text) \in Nat /\ pos \in Nat
    BY DEF TextInv
  <2> QED BY <2>1, Running, FileAssumption
<1>2. most \in 1 .. F!Rest
  BY <1>1 DEF F!Fewer
<1>3. F!LineLen = IF stops = {} THEN most ELSE CHOOSE n \in stops : \A m \in stops : n <= m
  BY DEF F!LineLen
<1>4. stops \in SUBSET (1 .. most) /\ stops \in SUBSET Nat
  BY <1>1, <1>2
<1> HIDE DEF most, stops
<1>5. CASE stops # {}
  <2>1. \E n \in stops : \A m \in stops : n <= m
    BY <1>4, <1>5, Smallest
  <2>2. F!LineLen \in stops
    BY <1>3, <1>5, <2>1
  <2> QED BY <1>1, <1>2, <1>4, <2>2
<1> QED BY <1>2, <1>3, <1>5

\* How a step rebuilds the invariant.
LEMMA TextNext ==
  ASSUME TextInv, UNCHANGED <<tool, text, same>>, place' \in {"open", "run", "done"},
         out' \in Seq(STRING), pos' \in Nat, pos' <= Len(text), line' \in Nat, line' <= pos',
         room' \in Nat, room' > 0 => line' < room', room' = 0 => line' = 0,
         tool # "mygetline" => room' = 0, same => pos' = 0,
         faults' = {} /\ ~same => Wrote(tool, text, out', pos', line'),
         place' = "done" /\ faults' = {} /\ ~same =>
           pos' = Len(text) \/ (tool = "mygetline" /\ EofIn(text)),
         place' = "done" /\ exit' = "0" /\ tool \in F!Cats => pos' = Len(text)
  PROVE  TextInv'
<1>1. /\ tool' = tool /\ text' = text /\ (same' <=> same) /\ text \in Seq(STRING)
      /\ tool \in F!Cats \cup F!Cps \cup F!Reverses \cup {"mygetline"}
      /\ tool \in F!Cats \cup {"mygetline"} => ~same
  BY DEF TextInv
<1>2. faults' = {} /\ ~same' => Wrote(tool', text', out', pos', line')
  BY <1>1, Zenon
<1>3. EofIn(text') <=> EofIn(text)
  BY <1>1, Zenon
<1> QED BY <1>1, <1>2, <1>3, Zenon DEF TextInv

\* A step that consumes nothing.
LEMMA TextKept ==
  ASSUME TextInv, UNCHANGED <<tool, text, same, pos, line, out>>,
         place' \in {"open", "run", "done"}, room' \in Nat, room' >= room,
         room' = room \/ tool = "mygetline",
         faults' = {} => faults = {},
         place' = "done" /\ faults' = {} /\ ~same =>
           pos = Len(text) \/ (tool = "mygetline" /\ EofIn(text)),
         place' = "done" /\ exit' = "0" /\ tool \in F!Cats => pos = Len(text),
         room = 0 \/ line < room
  PROVE  TextInv'
<1>1. /\ out \in Seq(STRING) /\ pos \in Nat /\ pos <= Len(text) /\ line \in Nat /\ line <= pos
      /\ room \in Nat /\ (room = 0 => line = 0)
      /\ same => pos = 0
      /\ tool # "mygetline" => room = 0
      /\ faults = {} /\ ~same => Wrote(tool, text, out, pos, line)
  BY DEF TextInv
<1>2. (room' > 0 => line < room') /\ (room' = 0 => line = 0)
  BY <1>1
<1>3. /\ out' = out /\ pos' = pos /\ line' = line
  OBVIOUS
<1>4. faults' = {} /\ ~same => Wrote(tool, text, out', pos', line')
  BY <1>1, <1>3, Zenon
<1> QED BY <1>1, <1>2, <1>3, <1>4, TextNext

\* A turn of a loop.
LEMMA PutsStep ==
  ASSUME TextInv, tool # "mygetline", NEW n \in 1 .. F!Rest, NEW bytes \in Seq(STRING),
         F!Puts(n, bytes),
         Wrote(tool, text, out, pos, 0) => Wrote(tool, text, out \o bytes, pos + n, 0)
  PROVE  TextInv'
<1>1. ~same /\ F!Rest = Len(text) - pos /\ pos < Len(text)
  BY Running DEF F!Puts
<1>2. /\ out \in Seq(STRING) /\ pos \in Nat /\ Len(text) \in Nat /\ room = 0 /\ line = 0
      /\ faults = {} => Wrote(tool, text, out, pos, line)
  BY <1>1 DEF TextInv
<1>3. /\ pos' = pos + n /\ UNCHANGED <<tool, text, same, place, line, room, exit>> /\ place = "run"
      /\ \/ out' = out \o bytes /\ UNCHANGED faults
         \/ UNCHANGED out /\ faults' = faults \cup {"write"}
  BY DEF F!Puts
<1>4. pos' \in Nat /\ pos' <= Len(text) /\ line' = 0 /\ line' <= pos' /\ room' = 0
  BY <1>1, <1>2, <1>3
<1>5. out' \in Seq(STRING)
  BY <1>2, <1>3, Joined
<1>6. faults' = {} => Wrote(tool, text, out', pos', line')
  BY <1>2, <1>3, <1>4
<1> QED BY <1>1, <1>2, <1>3, <1>4, <1>5, <1>6, TextNext

\* The bytes ahead of the position, ...
LEMMA AheadIs ==
  ASSUME TextInv, place = "run", NEW n \in 1 .. F!Rest, F!Rest > 0
  PROVE  /\ F!Ahead(n) = SubSeq(text, pos + 1, pos + n)
         /\ F!Ahead(n) \in Seq(STRING) /\ Len(F!Ahead(n)) = n
         /\ \A k \in 1 .. n : F!Ahead(n)[k] = text[pos + k]
         /\ n \in Nat /\ pos \in Nat /\ pos + n <= Len(text)
         /\ text \in Seq(STRING) /\ out \in Seq(STRING) /\ Len(text) \in Nat
<1>1. text \in Seq(STRING) /\ out \in Seq(STRING) /\ pos \in Nat /\ Len(text) \in Nat
  BY DEF TextInv
<1>2. n \in Nat /\ pos + n <= Len(text) /\ F!Source = text
  BY <1>1, Running
<1>3. F!Ahead(n) = SubSeq(text, pos + 1, pos + n)
  BY <1>2 DEF F!Ahead
<1>4. /\ SubSeq(text, pos + 1, pos + n) \in Seq(STRING) /\ Len(SubSeq(text, pos + 1, pos + n)) = n
      /\ \A k \in 1 .. n : SubSeq(text, pos + 1, pos + n)[k] = text[pos + k]
  BY <1>1, <1>2, SubSeqIs
<1> QED BY <1>1, <1>2, <1>3, <1>4

\* ... and those behind it, for the tools that read backwards.
LEMMA BehindIs ==
  ASSUME TextInv, place = "run", NEW n \in 1 .. F!Rest, F!Rest > 0
  PROVE  /\ F!Behind(n) \in Seq(STRING) /\ Len(F!Behind(n)) = n
         /\ \A k \in 1 .. n : F!Behind(n)[(n - k) + 1] = text[(Len(text) - (pos + k)) + 1]
         /\ n \in Nat /\ pos \in Nat /\ pos + n <= Len(text)
         /\ text \in Seq(STRING) /\ out \in Seq(STRING) /\ Len(text) \in Nat
<1>1. text \in Seq(STRING) /\ out \in Seq(STRING) /\ pos \in Nat /\ Len(text) \in Nat
  BY DEF TextInv
<1>2. n \in Nat /\ pos + n <= Len(text) /\ F!Source = text /\ F!Rest = Len(text) - pos
  BY <1>1, Running
<1> DEFINE p == (Len(text) - pos) - n
<1>3. p \in Nat /\ p + n = F!Rest /\ p + n <= Len(text)
  BY <1>1, <1>2
<1>4. F!Behind(n) = SubSeq(text, p + 1, p + n)
  BY <1>1, <1>2, <1>3 DEF F!Behind
<1> HIDE DEF p
<1>5. F!Behind(n) \in Seq(STRING) /\ Len(F!Behind(n)) = n /\ \A k \in 1 .. n : F!Behind(n)[k] = text[p + k]
  BY <1>1, <1>2, <1>3, <1>4, SubSeqIs
<1>6. ASSUME NEW k \in 1 .. n
      PROVE  F!Behind(n)[(n - k) + 1] = text[(Len(text) - (pos + k)) + 1]
  <2>1. (n - k) + 1 \in 1 .. n /\ p + ((n - k) + 1) = (Len(text) - (pos + k)) + 1
    BY <1>1, <1>2 DEF p
  <2> QED BY <1>5, <2>1
<1> QED BY <1>1, <1>2, <1>5, <1>6

\* A byte is copied.
LEMMA CharStep ==
  ASSUME TextInv, tool = "mycat", F!Char
  PROVE  TextInv'
<1>1. F!Puts(1, F!Ahead(1)) /\ place = "run" /\ F!Rest > 0
  BY DEF F!Char, F!Puts
<1>2. 1 \in 1 .. F!Rest
  BY <1>1, Running DEF TextInv
<1>3. Wrote(tool, text, out, pos, 0) => Wrote(tool, text, out \o F!Ahead(1), pos + 1, 0)
  BY <1>1, <1>2, AheadIs, Forward, KindsAre DEF Wrote
<1> QED BY <1>1, <1>2, <1>3, AheadIs, PutsStep

\* A block is copied.
LEMMA BlockStep ==
  ASSUME TextInv, tool \in {"mycat_fread", "mycat_fd", "mycp_fd"}, F!Block
  PROVE  TextInv'
<1> DEFINE n == F!Fewer(BUFSIZE, F!Rest)
<1>1. F!Puts(n, F!Ahead(n)) /\ place = "run" /\ F!Rest > 0
  BY DEF F!Block, F!Puts
<1>2. n \in 1 .. F!Rest
  BY <1>1, Running, FileAssumption DEF TextInv, F!Fewer
<1> HIDE DEF n
<1>3. Wrote(tool, text, out, pos, 0) => Wrote(tool, text, out \o F!Ahead(n), pos + n, 0)
  BY <1>1, <1>2, AheadIs, Forward, KindsAre DEF Wrote
<1> QED BY <1>1, <1>2, <1>3, AheadIs, PutsStep

\* A line is copied, up to its first NUL.
LEMMA LineStep ==
  ASSUME TextInv, tool \in {"mycat_line", "mycp"}, F!Line
  PROVE  TextInv'
<1> DEFINE n == F!LineLen  a == F!Ahead(n)  m == F!Strlen(a)  bytes == SubSeq(a, 1, m)
<1>1. F!Puts(n, bytes) /\ place = "run" /\ F!Rest > 0
  BY DEF F!Line, F!Puts
<1>2. n \in 1 .. F!Rest
  BY <1>1, LineLenIs
<1> HIDE DEF n
<1>3. /\ a = SubSeq(text, pos + 1, pos + n) /\ a \in Seq(STRING) /\ Len(a) = n
      /\ \A k \in 1 .. n : a[k] = text[pos + k]
      /\ n \in Nat /\ pos \in Nat /\ pos + n <= Len(text)
      /\ text \in Seq(STRING) /\ out \in Seq(STRING) /\ Len(text) \in Nat
  BY <1>1, <1>2, AheadIs
<1> HIDE DEF a
<1>4. m \in 0 .. n /\ IF NulIn(a, n) THEN m < n ELSE m = n
  BY <1>3, StrlenIs
<1> HIDE DEF m
<1>5. bytes \in Seq(STRING) /\ Len(bytes) = m /\ (m = n => bytes = a)
  <2>1. bytes \in Seq(STRING) /\ Len(bytes) = m /\ \A k \in 1 .. m : bytes[k] = a[k]
    BY <1>3, <1>4
  <2> HIDE DEF bytes
  <2> QED BY <1>3, <2>1, SeqEqual
<1>6. NulIn(text, pos + n) <=> NulIn(text, pos) \/ NulIn(a, n)
  <2>1. ASSUME NEW k \in 1 .. (pos + n), text[k] = F!Nul PROVE NulIn(text, pos) \/ NulIn(a, n)
    <3>1. CASE k <= pos
      BY <1>3, <2>1, <3>1 DEF NulIn
    <3>2. CASE k > pos
      <4>0. pos \in Nat /\ n \in Nat
        BY <1>3
      <4>1. k - pos \in 1 .. n /\ pos + (k - pos) = k
        BY <3>2, <4>0
      <4> QED BY <1>3, <2>1, <4>1 DEF NulIn
    <3> QED BY <1>3, <3>1, <3>2
  <2>2. NulIn(text, pos) => NulIn(text, pos + n)
    BY <1>3 DEF NulIn
  <2>3. ASSUME NEW k \in 1 .. n, a[k] = F!Nul PROVE NulIn(text, pos + n)
    <3>1. pos + k \in 1 .. (pos + n) /\ text[pos + k] = F!Nul
      BY <1>3, <2>3
    <3> QED BY <3>1 DEF NulIn
  <2> QED BY <2>1, <2>2, <2>3 DEF NulIn
<1> HIDE DEF bytes
<1>7. Wrote(tool, text, out, pos, 0) => Wrote(tool, text, out \o bytes, pos + n, 0)
  <2> SUFFICES ASSUME ~NulIn(text, pos) => Copied(text, out, pos), ~NulIn(text, pos + n)
               PROVE  Copied(text, out \o bytes, pos + n)
    BY KindsAre DEF Wrote
  <2>1. ~NulIn(text, pos) /\ ~NulIn(a, n)
    BY <1>6
  <2> QED BY <1>3, <1>4, <1>5, <2>1, Forward
<1> QED BY <1>1, <1>2, <1>5, <1>7, PutsStep

\* The byte before those that are reversed is appended.
LEMMA ReverseStep ==
  ASSUME TextInv, tool = "reverse", F!CharBehind
  PROVE  TextInv'
<1>1. F!Puts(1, F!Behind(1)) /\ place = "run" /\ F!Rest > 0
  BY DEF F!CharBehind, F!Puts
<1>2. 1 \in 1 .. F!Rest
  BY <1>1, Running DEF TextInv
<1> DEFINE b == F!Behind(1)
<1>3. /\ b \in Seq(STRING) /\ Len(b) = 1
      /\ \A k \in 1 .. 1 : b[(1 - k) + 1] = text[(Len(text) - (pos + k)) + 1]
      /\ pos \in Nat /\ pos + 1 <= Len(text) /\ text \in Seq(STRING) /\ out \in Seq(STRING)
  BY <1>1, <1>2, BehindIs
<1>4. \A k \in 1 .. 1 : b[k] = text[(Len(text) - (pos + k)) + 1]
  <2>1. \A k \in 1 .. 1 : (1 - k) + 1 = k
    OBVIOUS
  <2> HIDE DEF b
  <2> QED BY <1>3, <2>1
<1> HIDE DEF b
<1>5. Wrote(tool, text, out, pos, 0) => Wrote(tool, text, out \o b, pos + 1, 0)
  BY <1>3, <1>4, Backward, KindsAre DEF Wrote
<1> QED BY <1>1, <1>2, <1>3, <1>5, PutsStep DEF b

\* The block before them is reversed and appended.
LEMMA ReverseBlockStep ==
  ASSUME TextInv, tool = "reverse_fd", F!BlockBehind
  PROVE  TextInv'
<1> DEFINE n == F!Fewer(BUFSIZE, F!Rest)  b == F!Behind(n)  r == F!reverse_str(b)
<1>1. F!Puts(n, r) /\ place = "run" /\ F!Rest > 0
  BY DEF F!BlockBehind, F!Puts
<1>2. n \in 1 .. F!Rest
  BY <1>1, Running, FileAssumption DEF TextInv, F!Fewer
<1> HIDE DEF n
<1>3. /\ b \in Seq(STRING) /\ Len(b) = n
      /\ \A k \in 1 .. n : b[(n - k) + 1] = text[(Len(text) - (pos + k)) + 1]
      /\ n \in Nat /\ pos \in Nat /\ pos + n <= Len(text)
      /\ text \in Seq(STRING) /\ out \in Seq(STRING) /\ Len(text) \in Nat
  BY <1>1, <1>2, BehindIs
<1> HIDE DEF b
<1>4. /\ r \in Seq(STRING) /\ Len(r) = n
      /\ ~NulIn(b, n) => \A k \in 1 .. n : r[k] = b[(n - k) + 1]
  BY <1>3, reverse_strIs
<1> HIDE DEF r
<1>5. ~NulIn(text, Len(text)) => ~NulIn(b, n)
  <2> SUFFICES ASSUME NEW k \in 1 .. n, b[k] = F!Nul PROVE NulIn(text, Len(text))
    BY DEF NulIn
  <2> DEFINE l == (n - k) + 1  h == (Len(text) - (pos + l)) + 1
  <2>1. l \in 1 .. n /\ (n - l) + 1 = k
    BY <1>3
  <2>2. h \in 1 .. Len(text)
    BY <1>3, <2>1
  <2>3. b[(n - l) + 1] = text[h]
    BY <1>3, <2>1
  <2> HIDE DEF l, h
  <2> QED BY <2>1, <2>2, <2>3 DEF NulIn
<1>6. Wrote(tool, text, out, pos, 0) => Wrote(tool, text, out \o r, pos + n, 0)
  <2> SUFFICES ASSUME Len(out) = pos, ~NulIn(text, Len(text)) => Turned(text, out, pos)
               PROVE  /\ Len(out \o r) = pos + n
                      /\ ~NulIn(text, Len(text)) => Turned(text, out \o r, pos + n)
    BY KindsAre DEF Wrote
  <2>1. Len(out \o r) = pos + n
    BY <1>3, <1>4, Joined
  <2>2. ASSUME ~NulIn(text, Len(text)) PROVE Turned(text, out \o r, pos + n)
    <3>1. \A k \in 1 .. n : r[k] = text[(Len(text) - (pos + k)) + 1]
      BY <1>3, <1>4, <1>5, <2>2
    <3> QED BY <1>3, <1>4, <2>2, <3>1, Backward
  <2> QED BY <2>1, <2>2
<1> QED BY <1>1, <1>2, <1>4, <1>6, PutsStep

\* mygetline() keeps a byte of its line, ...
LEMMA ByteStep ==
  ASSUME TextInv, tool = "mygetline", F!GetByte
  PROVE  TextInv'
<1>1. /\ place = "run" /\ F!Rest > 0 /\ room > 0 /\ line # room - 1
      /\ F!Ahead(1)[1] # F!Newline /\ line' = line + 1 /\ pos' = pos + 1
      /\ UNCHANGED <<tool, text, same, place, room, out, faults, exit>>
  BY DEF F!GetByte, F!Fits
<1>2. /\ out \in Seq(STRING) /\ line \in Nat /\ line <= pos /\ room \in Nat /\ line < room
      /\ pos \in Nat /\ Len(text) \in Nat
      /\ faults = {} /\ ~same => Wrote(tool, text, out, pos, line)
  BY <1>1 DEF TextInv
<1>3. ~same /\ F!Rest = Len(text) - pos /\ pos < Len(text)
  BY <1>1, Running
<1>4. text[pos + 1] # F!Newline
  <2>1. 1 \in 1 .. F!Rest /\ 1 \in 1 .. 1
    BY <1>2, <1>3
  <2>2. F!Ahead(1)[1] = text[pos + 1]
    BY <1>1, <2>1, AheadIs
  <2> QED BY <1>1, <2>2
<1>5. Wrote(tool, text, out, pos, line) => Wrote(tool, text, out, pos + 1, line + 1)
  <2>1. (pos + 1) - (line + 1) = pos - line
    BY <1>2
  <2>2. \A k \in (pos - line + 1) .. (pos + 1) : k \in (pos - line + 1) .. pos \/ k = pos + 1
    BY <1>2
  <2> QED BY <1>4, <2>1, <2>2, KindsAre DEF Wrote
<1>6. faults' = {} => Wrote(tool, text, out', pos', line')
  BY <1>1, <1>2, <1>3, <1>5
<1>7. /\ pos' \in Nat /\ pos' <= Len(text) /\ line' \in Nat /\ line' <= pos' /\ line' < room'
      /\ room' > 0 /\ room' \in Nat
  BY <1>1, <1>2, <1>3
<1> QED BY <1>1, <1>2, <1>3, <1>6, <1>7, TextNext

\* ... and main() prints the line that has ended.
LEMMA NewlineStep ==
  ASSUME TextInv, tool = "mygetline", F!GetNewline
  PROVE  TextInv'
<1> DEFINE this == SubSeq(F!Source, pos - line + 1, pos + 1)
           m == F!Strlen(this)
           bytes == SubSeq(this, 1, m)
           p == pos - line
<1>1. /\ place = "run" /\ F!Rest > 0 /\ room > 0 /\ F!Ahead(1)[1] = F!Newline
      /\ out' = out \o bytes /\ line' = 0 /\ pos' = pos + 1
      /\ UNCHANGED <<tool, text, same, place, room, faults, exit>>
  BY DEF F!GetNewline, F!Fits
<1>2. /\ text \in Seq(STRING) /\ out \in Seq(STRING) /\ line \in Nat /\ line <= pos /\ room \in Nat
      /\ pos \in Nat /\ Len(text) \in Nat
      /\ faults = {} /\ ~same => Wrote(tool, text, out, pos, line)
  BY <1>1 DEF TextInv
<1>3. ~same /\ F!Rest = Len(text) - pos /\ pos < Len(text) /\ F!Source = text
  BY <1>1, Running
<1>4. text[pos + 1] = F!Newline
  <2>1. 1 \in 1 .. F!Rest /\ 1 \in 1 .. 1
    BY <1>2, <1>3
  <2>2. F!Ahead(1)[1] = text[pos + 1]
    BY <1>1, <2>1, AheadIs
  <2> QED BY <1>1, <2>2
<1>5. p \in Nat /\ line + 1 \in Nat /\ p + (line + 1) = pos + 1 /\ p + (line + 1) <= Len(text)
  BY <1>2, <1>3
<1>6. this = SubSeq(text, p + 1, p + (line + 1))
  BY <1>3, <1>5
<1> HIDE DEF p, this
<1>7. this \in Seq(STRING) /\ Len(this) = line + 1 /\ \A k \in 1 .. (line + 1) : this[k] = text[p + k]
  <2> DEFINE n == line + 1
  <2>1. n \in Nat /\ p + n <= Len(text) /\ this = SubSeq(text, p + 1, p + n)
    BY <1>5, <1>6
  <2> HIDE DEF n
  <2>2. this \in Seq(STRING) /\ Len(this) = n /\ \A k \in 1 .. n : this[k] = text[p + k]
    BY <1>2, <1>5, <2>1, SubSeqIs
  <2> QED BY <2>2 DEF n
<1>8. m \in 0 .. (line + 1) /\ (~NulIn(this, line + 1) => m = line + 1)
  BY <1>7, StrlenIs
<1> HIDE DEF m
<1>9. bytes \in Seq(STRING) /\ (m = line + 1 => bytes = this)
  <2>1. bytes \in Seq(STRING) /\ Len(bytes) = m /\ \A k \in 1 .. m : bytes[k] = this[k]
    BY <1>7, <1>8
  <2> HIDE DEF bytes
  <2> QED BY <1>7, <2>1, SeqEqual
<1> HIDE DEF bytes
<1>10. ~NulIn(text, Len(text)) => ~NulIn(this, line + 1)
  <2> SUFFICES ASSUME NEW k \in 1 .. (line + 1), this[k] = F!Nul PROVE NulIn(text, Len(text))
    BY DEF NulIn
  <2>1. p + k \in 1 .. Len(text)
    BY <1>2, <1>5
  <2> QED BY <1>7, <2>1 DEF NulIn
<1>11. Wrote(tool, text, out, pos, line) => Wrote(tool, text, out \o bytes, pos + 1, 0)
  <2> SUFFICES ASSUME ~NulIn(text, Len(text)), Copied(text, out, p)
               PROVE  Copied(text, out \o bytes, pos + 1)
    <3>1. (pos + 1) - 0 = pos + 1 /\ ((pos + 1) - 0 + 1) .. (pos + 1) = {}
      BY <1>2
    <3> QED BY <1>4, <3>1, KindsAre DEF Wrote, p
  <2>1. bytes = SubSeq(text, p + 1, p + (line + 1))
    BY <1>6, <1>8, <1>9, <1>10
  <2>2. Copied(text, out \o bytes, p + (line + 1))
    BY <1>2, <1>5, <2>1, Forward
  <2> QED BY <1>5, <2>2
<1>12. out' \in Seq(STRING)
  BY <1>1, <1>2, <1>9, Joined
<1>13. faults' = {} => Wrote(tool, text, out', pos', line')
  BY <1>1, <1>2, <1>3, <1>11
<1>14. /\ pos' \in Nat /\ pos' <= Len(text) /\ line' \in Nat /\ line' <= pos' /\ line' < room'
       /\ room' > 0 /\ room' \in Nat
  BY <1>1, <1>2, <1>3
<1> QED BY <1>1, <1>2, <1>3, <1>12, <1>13, <1>14, TextNext

\* mygetline() gets more room, or ends.
LEMMA RoomStep ==
  ASSUME TextInv, tool = "mygetline", F!Malloc \/ F!Realloc
  PROVE  TextInv'
<1>1. room \in Nat /\ STEP \in Nat /\ STEP > 0 /\ (room = 0 \/ line < room) /\ tool \notin F!Cats
  BY FileAssumption DEF TextInv, F!Cats
<1>2. /\ UNCHANGED <<tool, text, same, pos, line, out>> /\ place = "run"
      /\ \/ room' = room + STEP /\ UNCHANGED <<place, exit, faults>>
         \/ place' = "done" /\ faults' = {"malloc"} /\ UNCHANGED room
  BY <1>1 DEF F!Malloc, F!Realloc, F!Quit
<1>3. CASE room' = room + STEP /\ UNCHANGED <<place, exit, faults>>
  BY <1>1, <1>2, <1>3, TextKept
<1>4. CASE place' = "done" /\ faults' = {"malloc"} /\ UNCHANGED room
  BY <1>1, <1>2, <1>4, TextKept
<1> QED BY <1>2, <1>3, <1>4

\* The steps that write nothing: opening, failing, the end.
LEMMA EndStep ==
  ASSUME TextInv, F!Open \/ F!OpenFails \/ F!End \/ F!ReadFails \/ F!SeekFails
                  \/ (tool = "mygetline" /\ F!GetEOF) \/ UNCHANGED F!vars
  PROVE  TextInv'
<1>0. /\ room \in Nat /\ (room = 0 \/ line < room) /\ pos \in Nat /\ Len(text) \in Nat
      /\ text \in Seq(STRING) /\ pos <= Len(text) /\ (tool \in F!Cats \cup {"mygetline"} => ~same)
      /\ place \in {"open", "run", "done"}
  BY DEF TextInv
<1>1. CASE F!Open
  BY <1>0, <1>1, TextKept DEF F!Open
<1>2. CASE F!OpenFails
  BY <1>0, <1>2, TextKept DEF F!OpenFails, F!Quit
<1>3. CASE F!End
  <2>1. ~same => pos = Len(text)
    BY <1>0, <1>3 DEF F!End, F!Rest, F!Source
  <2>2. tool \in F!Cats => pos = Len(text)
    BY <2>1 DEF TextInv
  <2> QED BY <1>0, <1>3, <2>1, <2>2, TextKept DEF F!End, F!Quit
<1>4. CASE F!ReadFails
  BY <1>0, <1>4, TextKept DEF F!ReadFails, F!Quit
<1>5. CASE tool = "mygetline" /\ F!GetEOF
  <2>1. ~same /\ place = "run"
    BY <1>5 DEF TextInv, F!GetEOF, F!Fits
  <2>2. pos = Len(text) \/ EofIn(text)
    <3>1. CASE F!Rest > 0
      <4>1. 1 \in 1 .. F!Rest /\ 1 \in 1 .. 1 /\ pos + 1 \in 1 .. Len(text)
        BY <1>0, <2>1, <3>1, Running
      <4>2. F!Ahead(1)[1] = text[pos + 1]
        BY <2>1, <3>1, <4>1, AheadIs
      <4>3. F!Ahead(1)[1] = F!Minus1
        BY <1>5, <3>1 DEF F!GetEOF
      <4> QED BY <4>1, <4>2, <4>3 DEF EofIn
    <3>2. CASE ~(F!Rest > 0)
      <4>1. F!Source = text
        BY <2>1 DEF F!Source
      <4> QED BY <1>0, <3>2, <4>1 DEF F!Rest
    <3> QED BY <3>1, <3>2
  <2>3. tool \notin F!Cats
    BY <1>5 DEF F!Cats
  <2> QED BY <1>0, <1>5, <2>1, <2>2, <2>3, TextKept DEF F!GetEOF, F!Quit
<1>6. CASE UNCHANGED F!vars
  <2>1. UNCHANGED <<tool, text, same, place, pos, line, room, out, faults, exit>>
    BY <1>6 DEF F!vars
  <2>2. /\ place = "done" /\ faults = {} /\ ~same => pos = Len(text) \/ (tool = "mygetline" /\ EofIn(text))
        /\ place = "done" /\ exit = "0" /\ tool \in F!Cats => pos = Len(text)
    BY DEF TextInv
  <2> QED BY <1>0, <2>1, <2>2, TextKept
<1>7. CASE F!SeekFails
  <2>1. tool \notin F!Cats
    BY <1>7 DEF F!SeekFails, F!Cats, F!Reverses
  <2> QED BY <1>0, <1>7, <2>1, TextKept DEF F!SeekFails, F!Quit
<1> QED BY <1>1, <1>2, <1>3, <1>4, <1>5, <1>6, <1>7

\* The invariant of the file tools is inductive.
LEMMA TextStep == TextInv /\ [F!Next]_(F!vars) => TextInv'
<1> SUFFICES ASSUME TextInv, [F!Next]_(F!vars) PROVE TextInv'
  OBVIOUS
<1>1. CASE F!mycat
  BY <1>1, CharStep, EndStep DEF F!mycat
<1>2. CASE F!mycat_line \/ F!mycp
  BY <1>2, LineStep, EndStep DEF F!mycat_line, F!mycp
<1>3. CASE F!mycat_fread \/ F!mycat_fd \/ F!mycp_fd
  BY <1>3, BlockStep, EndStep DEF F!mycat_fread, F!mycat_fd, F!mycp_fd
<1>4. CASE F!reverse
  BY <1>4, ReverseStep, EndStep DEF F!reverse
<1>5. CASE F!reverse_fd
  BY <1>5, ReverseBlockStep, EndStep DEF F!reverse_fd
<1>6. CASE F!mygetline
  BY <1>6, ByteStep, NewlineStep, RoomStep, EndStep DEF F!mygetline
<1>7. CASE F!OpenFails \/ F!ReadFails \/ F!SeekFails \/ UNCHANGED F!vars
  BY <1>7, EndStep
<1> QED BY <1>1, <1>2, <1>3, <1>4, <1>5, <1>6, <1>7 DEF F!Next, F!Tool

\* The lines that have ended reach up to the last newline.
LEMMA EndedLinesAre ==
  ASSUME text \in Seq(STRING), NEW n \in 0 .. Len(text), n > 0 => text[n] = F!Newline,
         \A l \in (n + 1) .. Len(text) : text[l] # F!Newline
  PROVE  F!EndedLines = SubSeq(text, 1, n)
<1> DEFINE IsLast(x) == /\ x > 0 => text[x] = F!Newline
                        /\ \A l \in (x + 1) .. Len(text) : text[l] # F!Newline
           last == CHOOSE x \in 0 .. Len(text) : IsLast(x)
<1>0. Len(text) \in Nat
  OBVIOUS
<1>1. F!EndedLines = SubSeq(text, 1, last)
  BY DEF F!EndedLines
<1>2. last \in 0 .. Len(text) /\ IsLast(last)
  <2>1. \E x \in 0 .. Len(text) : IsLast(x)
    OBVIOUS
  <2> HIDE DEF IsLast
  <2> QED BY <2>1
<1> HIDE DEF last
<1>3. last = n
  <2>1. ~(last < n)
    BY <1>0, <1>2
  <2>2. ~(n < last)
    BY <1>0, <1>2
  <2> QED BY <1>0, <1>2, <2>1, <2>2
<1> QED BY <1>1, <1>3

\* What has been written at the end is what Faithful asks of each tool.
LEMMA IsFaithful ==
  ASSUME TextInv, place = "done", faults = {}, ~same
  PROVE  F!Faithful
<1>0. /\ text \in Seq(STRING) /\ out \in Seq(STRING) /\ Len(text) \in Nat /\ pos \in Nat
      /\ line \in Nat /\ line <= pos /\ pos <= Len(text)
      /\ Wrote(tool, text, out, pos, line)
      /\ pos = Len(text) \/ (tool = "mygetline" /\ EofIn(text))
  BY DEF TextInv
<1>1. (F!Has(F!Nul) <=> NulIn(text, Len(text))) /\ (F!Has(F!Minus1) <=> EofIn(text))
  BY DEF F!Has, F!Contains, NulIn, EofIn
<1>2. Copied(text, out, Len(text)) => out = text
  BY <1>0, SeqEqual DEF Copied
<1>3. Turned(text, out, Len(text)) => out = F!Reverse(text)
  BY <1>0, ReverseIs, SeqEqual DEF Turned
<1>4. tool # "mygetline" => pos = Len(text)
  BY <1>0
<1>5. ASSUME tool \in F!ByLine PROVE ~F!Has(F!Nul) => out = text
  <2>1. ~NulIn(text, Len(text)) => out = text
    BY <1>0, <1>2, <1>4, <1>5, KindsAre DEF Wrote
  <2> QED BY <1>1, <2>1
<1>6. ASSUME tool \in (F!Cats \cup F!Cps) \ F!ByLine PROVE out = text
  BY <1>0, <1>2, <1>4, <1>6, KindsAre DEF Wrote
<1>7. ASSUME tool = "reverse" PROVE out = F!Reverse(text)
  BY <1>0, <1>3, <1>4, <1>7 DEF Wrote
<1>8. ASSUME tool = "reverse_fd"
      PROVE  (~F!Has(F!Nul) => out = F!Reverse(text)) /\ Len(out) = Len(text)
  BY <1>0, <1>1, <1>3, <1>4, <1>8 DEF Wrote
<1>9. ASSUME tool = "mygetline", ~F!Has(F!Nul), ~F!Has(F!Minus1) PROVE out = F!EndedLines
  <2> DEFINE n == pos - line
  <2>1. pos = Len(text) /\ n \in 0 .. Len(text)
    BY <1>0, <1>1, <1>9
  <2>2. /\ Copied(text, out, n)
        /\ n > 0 => text[n] = F!Newline
        /\ \A k \in (n + 1) .. Len(text) : text[k] # F!Newline
    BY <1>0, <1>1, <1>9, <2>1 DEF Wrote
  <2> HIDE DEF n
  <2>3. F!EndedLines = SubSeq(text, 1, n)
    BY <1>0, <2>1, <2>2, EndedLinesAre
  <2> DEFINE s == SubSeq(text, 1, n)
  <2>4. s \in Seq(STRING) /\ Len(s) = n /\ \A k \in 1 .. n : s[k] = text[k]
    BY <1>0, <2>1
  <2> HIDE DEF s
  <2>5. out = s
    BY <1>0, <2>1, <2>2, <2>4, SeqEqual DEF Copied
  <2> QED BY <2>3, <2>5 DEF s
<1> QED BY <1>5, <1>6, <1>7, <1>8, <1>9 DEF F!Faithful

\* A file tool whose calls succeed and whose target is another file than its
\* source has written, for any size of the buffer: by bytes or blocks, a copy of
\* any text; by lines, of any text without NULs; the reverse of any text by bytes
\* and of any text without NULs by blocks; mygetline() the lines of any text
\* without NUL and 0xff.  Of a text with NULs Faithful promises no more than the
\* length of a reversal by blocks.  mygetline() never writes beyond its room and
\* a cat that returns 0 has read everything.  (The safety parts of CopiesComplete
\* for the file tools.)
THEOREM FilesAreFaithful == SamplesSpec => [](F!Faithful /\ F!InRoom /\ F!ReadAll)
<1> DEFINE Kept == F!Faithful /\ F!InRoom /\ F!ReadAll
<1>1. TextInv => Kept
  <2> SUFFICES ASSUME TextInv PROVE Kept
    OBVIOUS
  <2>1. F!Faithful
    BY IsFaithful DEF F!Faithful
  <2>2. F!InRoom
    BY DEF TextInv, F!InRoom, F!Fits
  <2>3. F!ReadAll
    BY DEF TextInv, F!ReadAll
  <2> QED BY <2>1, <2>2, <2>3
<1>2. SamplesInit => TextInv
  BY AllStart, TextStart
<1>3. TextInv /\ [SamplesNext]_samples => TextInv'
  BY OneRuns, TextStep
<1> HIDE DEF Kept
<1>4. SamplesSpec => []Kept
  BY <1>1, <1>2, <1>3, PTL DEF SamplesSpec
<1> QED BY <1>4 DEF Kept
=============================================================================
