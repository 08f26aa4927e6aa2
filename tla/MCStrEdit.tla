----------------------------- MODULE MCStrEdit -----------------------------
(* A small instance of StrEdit for TLC. *)
EXTENDS StrEdit

(* "", "a", "ab", "aa", "b\na" and "aabab", which fills an array of 6 and  *)
(* is too long for one of 5.                                               *)
SmallSources ==
  {<<>>, <<97>>, <<97, 98>>, <<97, 97>>, <<98, 10, 97>>, <<97, 97, 98, 97, 98>>}
=============================================================================
