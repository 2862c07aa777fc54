-------------------------------- MODULE MCEnvio --------------------------------
(* Programs of 0 to 4 lines, around the lengths where readFile and the reserve *)
(* change what they do: 0, 11 to 14, 28 to 30, 58 (twice 29) and 59. Messages  *)
(* cut inside their fields are long to explore: two short programs have them.  *)
EXTENDS Envio, TLC

MCArchivos ==
    {<<>>, <<0>>, <<4>>, <<11, 3, 11>>, <<12, 13>>, <<14>>, <<20, 28>>, <<14, 3, 1, 20>>,
     <<28>>, <<29>>, <<30, 3>>, <<58>>, <<59, 2>>, <<3, 0, 5>>}
MCSaltos == BOOLEAN
MCRestos == {-1, 4}
MCCortados == {<<0>>, <<4>>}

MCUnRenglon == {<<3>>}
=============================================================================
