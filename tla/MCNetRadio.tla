----------------------------- MODULE MCNetRadio -----------------------------
(***************************************************************************)
(* An instance of NetRadio for TLC.                                        *)
(***************************************************************************)
EXTENDS NetRadio

Dir(d, s) == [descr |-> d, songs |-> s]

\* Directories without a description, with an empty one and without a song;
\* lists that fit, that end at the buffer's end, and whose last entry is cut;
\* an entry that is too long for its length, before another and last; more
\* channels than numbers; more channels than songs, and fewer.
MCLibraries == {
  <<Dir(1, <<1>>), Dir(-1, <<1>>), Dir(2, <<1, 0, 1>>)>>,
  <<Dir(0, <<1>>), Dir(1, <<>>), Dir(1, <<1, 1, 0>>)>>,
  <<Dir(1, <<1, 0>>), Dir(1, <<1>>), Dir(1, <<1>>)>>,
  <<Dir(2, <<1>>), Dir(2, <<0>>)>>,
  <<Dir(1, <<1>>), Dir(1, <<1>>), Dir(2, <<1>>), Dir(1, <<1>>)>>,
  <<Dir(10, <<1>>), Dir(1, <<0>>)>>,
  <<Dir(1, <<0>>), Dir(10, <<1>>)>>,
  <<>> }
=============================================================================
