------------------------ MODULE MCExtractingStorage ------------------------
(* A small instance of ExtractingStorage for TLC.                          *)
EXTENDS ExtractingStorage, TLC

\* One key starts with a launcher, the other with an empty list (all taken).
MCInitPool == ("cpp" :> <<1>>) @@ ("python" :> << >>)
MCTwoInList == ("cpp" :> <<1, 2>>) @@ ("python" :> << >>)
=============================================================================
