---------------------------- MODULE MCGameServer -----------------------------
(***************************************************************************)
(* A table of three seats for TLC.  The first agent uses the SDK, the      *)
(* second sends request ids as the tests of ws-handler do, the third is a   *)
(* bot of the lobby.                                                        *)
(***************************************************************************)
EXTENDS GameServer

OneChip == {1}

MCCarries == [s \in Seats |-> IF s = 0 THEN {"seq", "requestId"}
                              ELSE IF s = 1 THEN {"requestId"} ELSE {}]
=============================================================================
