------------------------------ MODULE RlPublic ------------------------------
(***************************************************************************)
(* The return codes of the library. public.h is not in the repository; the *)
(* shipped objects give the values. RL_FALSE and RL_SUCCESS are one number. *)
(***************************************************************************)
EXTENDS Integers

RL_SUCCESS == 0
RL_FAILED  == -1
RL_FALSE   == 0
RL_TRUE    == 1
=============================================================================
