--------------------------- MODULE MCMessageTransfer ---------------------------
(* A message of each shape; parameters may be empty.                        *)
EXTENDS MessageTransfer

MCMessages ==
  {[type |-> "CLIENT_VERSUS", parameters |-> <<>>],
   [type |-> "CLIENT_PLAYER_MOVE", parameters |-> << <<"boom">> >>],
   [type |-> "CLIENT_PLAYER_MOVE", parameters |-> << <<>> >>],
   [type |-> "GAME_VIEW", parameters |-> << <<"al", ":", "ice">>, <<>>, <<"CONT">> >>]}
=============================================================================
