------------------------------ MODULE MCSegmentos ------------------------------
(* Three consoles, with three, two and one segments. *)
EXTENDS Segmentos, TLC

CONSTANTS h1, h2, h3

MCHilos == {h1, h2, h3}
MCCadenas == (h1 :> <<64, 256, 64>>) @@ (h2 :> <<32, 128>>) @@ (h3 :> <<16>>)

DosHilos == {h1, h2}
DosCadenas == (h1 :> <<64, 256>>) @@ (h2 :> <<32, 128>>)
=============================================================================
