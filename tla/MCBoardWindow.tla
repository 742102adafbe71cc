----------------------------- MODULE MCBoardWindow -----------------------------
(***************************************************************************)
(* Two files, two by three and three by two, opened one after the other.   *)
(***************************************************************************)
EXTENDS BoardWindowProps

MCFiles == {[rows |-> 2, columns |-> 3, data |-> <<0, 1, 2, 2, 0, 1>>],
            [rows |-> 3, columns |-> 2, data |-> <<0, 1, 2, 1, 2, 0>>]}
MCUninit == [at |-> 0, color |-> -1]
==============================================================================
