------------------------------ MODULE MCGuards ------------------------------
(***************************************************************************)
(* Patches for TLC: an edit and a replacement of one file in both orders,  *)
(* a deletion, and a deletion followed by a replacement.                   *)
(***************************************************************************)
EXTENDS GuardedWrites

MCPatches ==
    {<<"edit", "replace">>, <<"replace", "edit">>, <<"delete">>,
     <<"delete", "replace">>}
=============================================================================
