------------------------------- MODULE MCPlay --------------------------------
(***************************************************************************)
(* The hands of MCPokerHand and the table of MCGameServer, explored side by *)
(* side: `part' says which of them runs, and it never changes.              *)
(***************************************************************************)
EXTENDS MCPokerHand, MCGameServer

VARIABLE part

PlayVars == <<vars, tableVars, part>>

PlayInit ==
  /\ Init /\ ServerInit
  /\ part \in {"hand", "table"}
  /\ part = "table" => hand = CHOOSE setup \in Setups : TRUE

\* A table may come to rest; a hand may not before it is over (see Over).
PlayNext ==
  /\ UNCHANGED part
  /\ \/ part = "hand" /\ Next /\ UNCHANGED tableVars
     \/ part = "table" /\ ServerNext /\ UNCHANGED vars
     \/ part = "table" /\ UNCHANGED PlayVars

PlaySpec == PlayInit /\ [][PlayNext]_PlayVars /\ ServerFairness
=============================================================================
