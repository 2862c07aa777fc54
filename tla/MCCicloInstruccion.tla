--------------------------- MODULE MCCicloInstruccion ---------------------------
(* Every program of at most two lines, well formed or not, and with EXIT     *)
(* after them; the program of inicializarPCBtest, and one whose sums pass    *)
(* the width of a register.                                                  *)
EXTENDS CicloInstruccion, TLC

MCLineas == {<<"exit">>, <<"set", "ax", "3">>, <<"add", "ax", "ax">>, <<"add", "bx", "ax">>,
             <<"add", "9", "9">>, <<"add", "2", "9">>, <<"add", "cx", "2">>,
             <<"add", "disco", "disco">>, <<"exit", "ax", "ax">>, <<"set", "ax">>,
             <<"set", "ax", "3", "3">>, <<"i/o", "disco", "2">>}
MCNumeros == "1" :> 1 @@ "2" :> 2 @@ "3" :> 3 @@ "4" :> 4 @@ "9" :> 9
MCPrueba == <<<<"set", "ax", "1">>, <<"set", "bx", "2">>, <<"set", "cx", "3">>,
              <<"set", "dx", "4">>, <<"add", "ax", "bx">>, <<"add", "ax", "cx">>,
              <<"add", "bx", "ax">>, <<"exit">>>>
MCLargo == <<<<"set", "dx", "9">>, <<"add", "dx", "dx">>, <<"add", "dx", "dx">>,
             <<"add", "bx", "dx">>, <<"i/o", "disco", "2">>, <<"exit">>>>
MCDosLineas == UNION {[1..n -> MCLineas] : n \in 0..2}
MCProgramas == MCDosLineas \cup {p \o <<<<"exit">>>> : p \in MCDosLineas} \cup {MCPrueba, MCLargo}
=============================================================================
