--------------------------- MODULE MCMessageHandler ---------------------------
(***************************************************************************)
(* The messages of the game server to the solver, in small: the game, a    *)
(* request and the end.  The first and the last are longer than a read and *)
(* have objects within them.                                               *)
(***************************************************************************)
EXTENDS MessageHandlerProps

MCOutgoing ==
    << <<"open", "other", "open", "close", "open", "close", "close">>,
       <<"open", "other", "close">>,
       <<"open", "open", "close", "open", "close", "close">> >>
==============================================================================
