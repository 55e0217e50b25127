----------------------------- MODULE MCSamples ------------------------------
(***************************************************************************)
(* An instance of Samples for TLC.                                         *)
(***************************************************************************)
EXTENDS Samples

\* Texts of more than a block, with lines longer and shorter than a buffer, an
\* unfinished last line, a NUL at the start or the end of a block or inside it,
\* and a byte that looks like the end.
MCTexts == {
  <<>>,
  <<"a", "b", "c", "newline", "d">>,
  <<"a", "newline", "newline", "b", "newline">>,
  <<"a", "nul", "b", "c", "newline">>,
  <<"nul", "a", "newline", "b", "nul">>,
  <<"a", "0xff", "newline", "b">> }
=============================================================================
