---------------------------- MODULE MCMemWriter ----------------------------
(***************************************************************************)
(* The memory writer with a 4-bit size_t: blocks of up to 7 bytes, writes  *)
(* of none to four bytes, increases that are none, small and wrapping      *)
(* around, limits that are nothing, tight, at the largest block and        *)
(* beyond it.                                                              *)
(***************************************************************************)
EXTENDS MemWriter

MCWordSize == 16
MCIncreases == {0, 1, 3, 15}
MCLimits == {0, 1, 4, 7, 15}
MCData ==
  {<< >>, <<"a">>, <<"b">>, <<"a", "b">>, <<"b", "a", "a", "b">>}
=============================================================================
