----------------------------- MODULE ArranqueProofs -----------------------------
(***************************************************************************)
(* The handshake of kernel and CPU, for any number of consoles and of      *)
(* lives. The invariant says where the connection of the kernel that runs  *)
(* is: waiting for the accept, or accepted; and, for each step of the      *)
(* kernel, which messages are on it.                                       *)
(***************************************************************************)
EXTENDS Arranque, TLAPS

\* A connection is among those that no accept has taken.
Esta(k, conexiones) == \E i \in 1..Len(conexiones) : conexiones[i] = k

\* Lives only grow, and nothing is sent on a connection before its time.
Vidas_Inv ==
    /\ servidor <= vidaCPU /\ cliente <= vidaKernel
    /\ \A i \in 1..Len(pendientes) : pendientes[i] <= vidaKernel
    /\ \A k \in Vidas : k > vidaKernel => aCPU[k] = <<>>

\* The CPU: no client before the accept, and a CPU that ended left no one
\* waiting.
CPU_Inv ==
    /\ pcCPU \in {"apagada", "iniciar", "sorda"} => pendientes = <<>> /\ cliente = Nadie
    /\ pcCPU = "aceptar" => cliente = Nadie
    /\ pcCPU \in {"apagada", "iniciar", "sorda", "aceptar", "saludar"} => ~basuraCPU
    /\ basuraCPU => ~VivoKernel(cliente)

\* The kernel's connection exists exactly while the CPU it reached lives.
Conexion_Inv ==
    /\ pcKernel \in {"iniciar", "conectar"} =>
           servidor = Nadie /\ ~Esta(vidaKernel, pendientes) /\ cliente # vidaKernel
    /\ pcKernel \notin {"apagado", "iniciar", "conectar"} =>
           (VivaCPU(servidor) <=> Esta(vidaKernel, pendientes) \/ cliente = vidaKernel)

\* Nothing is left of a kernel that ended.
Apagado_Inv == pcKernel = "apagado" => servidor = Nadie /\ aKernel = <<>>

Pregunta_Inv ==
    pcKernel \in {"iniciar", "conectar", "saludar"} =>
        /\ aKernel = <<>> /\ aCPU[vidaKernel] = <<>>
        /\ cliente = vidaKernel => pcCPU = "saludar"

\* Asked and not answered, or answered OK.
Respuesta_Inv ==
    pcKernel = "esperarSaludo" =>
        \/ /\ aKernel = <<>>
           /\ VivaCPU(servidor) => aCPU[vidaKernel] = <<"KERNEL">>
           /\ cliente = vidaKernel => pcCPU = "saludar"
        \/ /\ aKernel = <<"OK">> /\ aCPU[vidaKernel] = <<>>
           /\ VivaCPU(servidor) => cliente = vidaKernel /\ pcCPU = "recibir"

Servicio_Inv ==
    pcKernel \in {"planificar", "despachar", "esperarPCB", "detenido"} /\ VivaCPU(servidor) =>
        resultado = "OK" /\ cliente = vidaKernel /\ pcCPU \in {"recibir", "responder"}

Basura_Inv ==
    /\ pcKernel \in {"apagado", "iniciar", "conectar", "saludar", "esperarSaludo", "planificar"} =>
           ~basura
    /\ basura => ~VivaCPU(servidor)

\* Everything but the types.
Red_Inv == /\ pcKernel # "apagado" => vidaKernel \in Vidas
           /\ pcCPU # "apagada" => vidaCPU \in Vidas
           /\ Vidas_Inv /\ CPU_Inv /\ Conexion_Inv /\ Apagado_Inv /\ Pregunta_Inv
           /\ Respuesta_Inv /\ Servicio_Inv /\ Basura_Inv

IInv == TypeOK /\ Red_Inv

\* What Red_Inv is about.
nucleo == <<pcKernel, vidaKernel, servidor, resultado, aKernel, basura,
            pcCPU, vidaCPU, pendientes, cliente, aCPU, basuraCPU>>

-----------------------------------------------------------------------------
(* Sequences of connections and of messages *)

\* Membership in a queue of connections, as connect and accept change it.
LEMMA EstaEnCola ==
    ASSUME NEW conexiones \in Seq(Nat), NEW k \in Nat, NEW j \in Nat
    PROVE  /\ ~Esta(k, <<>>)
           /\ Esta(k, Append(conexiones, j)) <=> Esta(k, conexiones) \/ k = j
           /\ conexiones # <<>> =>
                  (Esta(k, conexiones) <=> k = Head(conexiones) \/ Esta(k, Tail(conexiones)))
<1>1. ~Esta(k, <<>>)
    BY DEF Esta
<1>2. ASSUME Esta(k, conexiones) PROVE Esta(k, Append(conexiones, j))
    BY <1>2 DEF Esta
<1>3. Esta(j, Append(conexiones, j))
    BY DEF Esta
<1>4. ASSUME Esta(k, Append(conexiones, j)), k # j PROVE Esta(k, conexiones)
    BY <1>4 DEF Esta
<1>5. ASSUME conexiones # <<>>, Esta(k, conexiones), k # Head(conexiones)
      PROVE  Esta(k, Tail(conexiones))
    <2>1. PICK i \in 1..Len(conexiones) : conexiones[i] = k
        BY <1>5 DEF Esta
    <2>2. i - 1 \in 1..Len(Tail(conexiones)) /\ Tail(conexiones)[i - 1] = k
        BY <1>5, <2>1
    <2> QED BY <2>2 DEF Esta
<1>6. ASSUME conexiones # <<>>, k = Head(conexiones) PROVE Esta(k, conexiones)
    BY <1>6 DEF Esta
<1>7. ASSUME conexiones # <<>>, Esta(k, Tail(conexiones)) PROVE Esta(k, conexiones)
    <2>1. PICK i \in 1..Len(Tail(conexiones)) : Tail(conexiones)[i] = k
        BY <1>7 DEF Esta
    <2>2. i + 1 \in 1..Len(conexiones) /\ conexiones[i + 1] = k
        BY <1>7, <2>1
    <2> QED BY <2>2 DEF Esta
<1> QED BY <1>1, <1>2, <1>3, <1>4, <1>5, <1>6, <1>7

\* recv gives a message while the other lives; garbage only when it ended.
LEMMA EncuentraMensaje ==
    ASSUME NEW T, Basura \notin T, NEW mensajes \in Seq(T), NEW vive \in BOOLEAN,
           NEW m \in Encuentra(mensajes, vive)
    PROVE  /\ m = Basura => ~vive /\ mensajes = <<>>
           /\ m # Basura => mensajes # <<>> /\ m = Head(mensajes) /\ m \in T
           /\ SinPrimero(mensajes) \in Seq(T)
BY DEF Encuentra, SinPrimero

-----------------------------------------------------------------------------
(* The types *)

\* The invariant holds before anything was started.
LEMMA InvInicial == Init => IInv
<1> USE DEF Init, Nadie
<1>1. Init => TipoKernel /\ TipoProcesos /\ TipoCPU
    BY VidasNaturales DEF TipoKernel, TipoProcesos, TipoCPU, Saludos, SinConfig, Configuracion
<1>2. Init => TipoSocket
    BY VidasNaturales DEF TipoSocket, Vidas
<1>3. Init => TipoConsolas /\ TipoHilos
    BY VidasNaturales DEF TipoConsolas, TipoHilos
<1>4. Init => Red_Inv
    BY VidasNaturales DEF Red_Inv, Vidas_Inv, CPU_Inv, Conexion_Inv, Apagado_Inv, Pregunta_Inv,
       Respuesta_Inv, Servicio_Inv, Basura_Inv, Vidas
<1>5. Init => TipoSiNo
    BY Zenon DEF TipoSiNo
<1> QED BY <1>1, <1>2, <1>3, <1>4, <1>5 DEF IInv, TypeOK

\* Every step keeps the types.
LEMMA TipoPaso ==
    ASSUME IInv, Next
    PROVE  TypeOK'
<1> USE DEF vars, kernel, procesos, admision, despacho, cpu, socket, consolas, hilos
<1>1. TypeOK /\ MaxVidas \in Nat /\ (pcKernel # "apagado" => vidaKernel \in Vidas)
    BY VidasNaturales DEF IInv, Red_Inv
<1>2. \A k \in Vidas : SinPrimero(aCPU[k]) \in Seq(DelKernel)
    BY <1>1 DEF TypeOK, TipoSocket, SinPrimero
<1>3. SinPrimero(aKernel) \in Seq(DelCPU)
    BY <1>1 DEF TypeOK, TipoSocket, SinPrimero
<1>4. ASSUME NEW r \in DelCPU, EnviarAlKernel(r)
      PROVE  aKernel' \in Seq(DelCPU) /\ perdidos' \in [{"Kernel", "CPU"} -> 0..1]
    <2>1. aKernel' = Append(aKernel, r) \/ UNCHANGED aKernel
        BY <1>4 DEF EnviarAlKernel
    <2>2. perdidos' = [perdidos EXCEPT !["CPU"] = 1] \/ UNCHANGED perdidos
        BY <1>4 DEF EnviarAlKernel, SePierde
    <2>3. aKernel' \in Seq(DelCPU)
        BY <1>1, <2>1 DEF TypeOK, TipoSocket
    <2>4. perdidos' \in [{"Kernel", "CPU"} -> 0..1]
        BY <1>1, <2>2 DEF TypeOK, TipoSocket
    <2> QED BY <2>3, <2>4
<1>5. CASE CaerKernel
    <2>1. TipoKernel'
        BY <1>1, <1>5 DEF TypeOK, TipoKernel, CaerKernel, MuereKernel, Nadie, Saludos
    <2>2. TipoProcesos'
        BY <1>1, <1>5 DEF TypeOK, TipoProcesos, CaerKernel, MuereKernel, SinConfig, Configuracion
    <2>3. TipoCPU'
        BY <1>1, <1>5 DEF TypeOK, TipoCPU, CaerKernel, MuereKernel
    <2>4. TipoSocket'
        <3>1. /\ aKernel' = <<>> /\ perdidos' = [perdidos EXCEPT !["Kernel"] = 0]
              /\ UNCHANGED aCPU
            BY <1>5 DEF CaerKernel, MuereKernel
        <3> QED BY <1>1, <3>1 DEF TypeOK, TipoSocket
    <2>5. TipoConsolas'
        BY <1>1, <1>5 DEF TypeOK, TipoConsolas, CaerKernel, MuereKernel
    <2>6. TipoHilos'
        BY <1>1, <1>5 DEF TypeOK, TipoHilos, CaerKernel, MuereKernel
    <2>7. TipoSiNo'
        BY <1>1, <1>5, Zenon DEF TypeOK, TipoSiNo, CaerKernel, MuereKernel
    <2> QED BY <2>1, <2>2, <2>3, <2>4, <2>5, <2>6, <2>7 DEF TypeOK
<1>6. CASE CaerCPU
    <2>1. TipoKernel'
        BY <1>1, <1>6 DEF TypeOK, TipoKernel, CaerCPU, MuereCPU, Nadie
    <2>2. TipoProcesos'
        BY <1>1, <1>6 DEF TypeOK, TipoProcesos, CaerCPU, MuereCPU, Nadie
    <2>3. TipoCPU'
        BY <1>1, <1>6 DEF TypeOK, TipoCPU, CaerCPU, MuereCPU, Nadie
    <2>4. TipoSocket'
        <3>1. /\ aCPU' = [k \in Vidas |-> <<>>] /\ perdidos' = [perdidos EXCEPT !["CPU"] = 0]
              /\ UNCHANGED aKernel
            BY <1>6 DEF CaerCPU, MuereCPU
        <3> QED BY <1>1, <3>1 DEF TypeOK, TipoSocket
    <2>5. TipoConsolas'
        BY <1>1, <1>6 DEF TypeOK, TipoConsolas, CaerCPU, MuereCPU, Nadie
    <2>6. TipoHilos'
        BY <1>1, <1>6 DEF TypeOK, TipoHilos, CaerCPU, MuereCPU, Nadie
    <2>7. TipoSiNo'
        BY <1>1, <1>6, Zenon DEF TypeOK, TipoSiNo, CaerCPU, MuereCPU, Nadie
    <2> QED BY <2>1, <2>2, <2>3, <2>4, <2>5, <2>6, <2>7 DEF TypeOK
<1>7. CASE LevantarKernel
    <2>1. TipoKernel'
        BY <1>1, <1>7 DEF TypeOK, TipoKernel, LevantarKernel, Nadie, Saludos
    <2>2. TipoProcesos'
        BY <1>1, <1>7, ConfiguracionesConocidas DEF TypeOK, TipoProcesos, LevantarKernel
    <2>3. TipoCPU'
        BY <1>1, <1>7 DEF TypeOK, TipoCPU, LevantarKernel, Nadie, Saludos
    <2>4. TipoSocket'
        BY <1>1, <1>7 DEF TypeOK, TipoSocket, LevantarKernel, Nadie, Saludos
    <2>5. TipoConsolas'
        BY <1>1, <1>7 DEF TypeOK, TipoConsolas, LevantarKernel, Nadie, Saludos
    <2>6. TipoHilos'
        BY <1>1, <1>7 DEF TypeOK, TipoHilos, LevantarKernel, Nadie, Saludos
    <2>7. TipoSiNo'
        BY <1>1, <1>7, Zenon DEF TypeOK, TipoSiNo, LevantarKernel, Nadie, Saludos
    <2> QED BY <2>1, <2>2, <2>3, <2>4, <2>5, <2>6, <2>7 DEF TypeOK
<1>8. CASE LevantarCPU
    <2>1. TipoKernel'
        BY <1>1, <1>8 DEF TypeOK, TipoKernel, LevantarCPU
    <2>2. TipoProcesos'
        BY <1>1, <1>8 DEF TypeOK, TipoProcesos, LevantarCPU
    <2>3. TipoCPU'
        BY <1>1, <1>8 DEF TypeOK, TipoCPU, LevantarCPU
    <2>4. TipoSocket'
        BY <1>1, <1>8 DEF TypeOK, TipoSocket, LevantarCPU
    <2>5. TipoConsolas'
        BY <1>1, <1>8 DEF TypeOK, TipoConsolas, LevantarCPU
    <2>6. TipoHilos'
        BY <1>1, <1>8 DEF TypeOK, TipoHilos, LevantarCPU
    <2>7. TipoSiNo'
        BY <1>1, <1>8, Zenon DEF TypeOK, TipoSiNo, LevantarCPU
    <2> QED BY <2>1, <2>2, <2>3, <2>4, <2>5, <2>6, <2>7 DEF TypeOK
<1>9. CASE IniciarCPU
    <2>1. TipoKernel'
        BY <1>1, <1>9 DEF TypeOK, TipoKernel, IniciarCPU, PuertoPropio
    <2>2. TipoProcesos'
        BY <1>1, <1>9 DEF TypeOK, TipoProcesos, IniciarCPU, PuertoPropio
    <2>3. TipoCPU'
        BY <1>1, <1>9 DEF TypeOK, TipoCPU, IniciarCPU, PuertoPropio
    <2>4. TipoSocket'
        BY <1>1, <1>9 DEF TypeOK, TipoSocket, IniciarCPU, PuertoPropio
    <2>5. TipoConsolas'
        BY <1>1, <1>9 DEF TypeOK, TipoConsolas, IniciarCPU, PuertoPropio
    <2>6. TipoHilos'
        BY <1>1, <1>9 DEF TypeOK, TipoHilos, IniciarCPU, PuertoPropio
    <2>7. TipoSiNo'
        BY <1>1, <1>9, Zenon DEF TypeOK, TipoSiNo, IniciarCPU, PuertoPropio
    <2> QED BY <2>1, <2>2, <2>3, <2>4, <2>5, <2>6, <2>7 DEF TypeOK
<1>10. CASE Aceptar
    <2>1. TipoKernel'
        BY <1>1, <1>10 DEF TypeOK, TipoKernel, Aceptar, Vidas
    <2>2. TipoProcesos'
        BY <1>1, <1>10 DEF TypeOK, TipoProcesos, Aceptar, Vidas
    <2>3. TipoCPU'
        BY <1>1, <1>10 DEF TypeOK, TipoCPU, Aceptar, Vidas
    <2>4. TipoSocket'
        BY <1>1, <1>10 DEF TypeOK, TipoSocket, Aceptar, Vidas
    <2>5. TipoConsolas'
        BY <1>1, <1>10 DEF TypeOK, TipoConsolas, Aceptar, Vidas
    <2>6. TipoHilos'
        BY <1>1, <1>10 DEF TypeOK, TipoHilos, Aceptar, Vidas
    <2>7. TipoSiNo'
        BY <1>1, <1>10, Zenon DEF TypeOK, TipoSiNo, Aceptar, Vidas
    <2> QED BY <2>1, <2>2, <2>3, <2>4, <2>5, <2>6, <2>7 DEF TypeOK
<1>11. CASE AtenderSaludo
    <2>1. TipoKernel'
        BY <1>1, <1>11 DEF TypeOK, TipoKernel, AtenderSaludo
    <2>2. TipoProcesos'
        BY <1>1, <1>11 DEF TypeOK, TipoProcesos, AtenderSaludo
    <2>3. TipoCPU'
        BY <1>1, <1>11 DEF TypeOK, TipoCPU, AtenderSaludo
    <2>4. TipoSocket'
        <3>1. PICK identidad \in Encuentra(aCPU[cliente], VivoKernel(cliente)) :
                  \E r \in Compara(identidad) : EnviarAlKernel(r)
            BY <1>11 DEF AtenderSaludo
        <3>2. PICK r \in DelCPU : EnviarAlKernel(r)
            BY <3>1 DEF Compara, Esperado, DelCPU
        <3>3. aKernel' \in Seq(DelCPU) /\ perdidos' \in [{"Kernel", "CPU"} -> 0..1]
            BY <1>4, <3>2
        <3>4. aCPU' \in [Vidas -> Seq(DelKernel)]
            BY <1>1, <1>2, <1>11 DEF AtenderSaludo, TypeOK, TipoSocket
        <3> QED BY <3>3, <3>4 DEF TipoSocket
    <2>5. TipoConsolas'
        BY <1>1, <1>11 DEF TypeOK, TipoConsolas, AtenderSaludo
    <2>6. TipoHilos'
        BY <1>1, <1>11 DEF TypeOK, TipoHilos, AtenderSaludo
    <2>7. TipoSiNo'
        BY <1>1, <1>11, Zenon DEF TypeOK, TipoSiNo, AtenderSaludo
    <2> QED BY <2>1, <2>2, <2>3, <2>4, <2>5, <2>6, <2>7 DEF TypeOK
<1>12. CASE RecibirDelKernel
    <2>1. TipoKernel'
        BY <1>1, <1>12 DEF TypeOK, TipoKernel, RecibirDelKernel
    <2>2. TipoProcesos'
        BY <1>1, <1>12 DEF TypeOK, TipoProcesos, RecibirDelKernel
    <2>3. TipoCPU'
        BY <1>1, <1>12 DEF TypeOK, TipoCPU, RecibirDelKernel
    <2>4. TipoSocket'
        <3>1. aCPU' \in [Vidas -> Seq(DelKernel)]
            BY <1>1, <1>2, <1>12 DEF RecibirDelKernel, TypeOK, TipoSocket
        <3> QED BY <1>1, <1>12, <3>1 DEF RecibirDelKernel, TypeOK, TipoSocket
    <2>5. TipoConsolas'
        BY <1>1, <1>12 DEF TypeOK, TipoConsolas, RecibirDelKernel
    <2>6. TipoHilos'
        BY <1>1, <1>12 DEF TypeOK, TipoHilos, RecibirDelKernel
    <2>7. TipoSiNo'
        BY <1>1, <1>12, Zenon DEF TypeOK, TipoSiNo, RecibirDelKernel
    <2> QED BY <2>1, <2>2, <2>3, <2>4, <2>5, <2>6, <2>7 DEF TypeOK
<1>13. CASE ResponderAlKernel
    <2>1. TipoKernel'
        BY <1>1, <1>13 DEF TypeOK, TipoKernel, ResponderAlKernel, EnviarAlKernel, SePierde, DelCPU
    <2>2. TipoProcesos'
        BY <1>1, <1>13 DEF TypeOK, TipoProcesos, ResponderAlKernel, EnviarAlKernel, SePierde, DelCPU
    <2>3. TipoCPU'
        BY <1>1, <1>13 DEF TypeOK, TipoCPU, ResponderAlKernel, EnviarAlKernel, SePierde, DelCPU
    <2>4. TipoSocket'
        <3>1. UNCHANGED aCPU /\ EnviarAlKernel("PCB")
            BY <1>13 DEF ResponderAlKernel
        <3>2. "PCB" \in DelCPU
            BY DEF DelCPU
        <3> QED BY <1>1, <1>4, <3>1, <3>2 DEF TypeOK, TipoSocket
    <2>5. TipoConsolas'
        BY <1>1, <1>13 DEF TypeOK, TipoConsolas, ResponderAlKernel, EnviarAlKernel, SePierde, DelCPU
    <2>6. TipoHilos'
        BY <1>1, <1>13 DEF TypeOK, TipoHilos, ResponderAlKernel, EnviarAlKernel, SePierde, DelCPU
    <2>7. TipoSiNo'
        BY <1>1, <1>13, Zenon DEF TypeOK, TipoSiNo, ResponderAlKernel, EnviarAlKernel, SePierde, DelCPU
    <2> QED BY <2>1, <2>2, <2>3, <2>4, <2>5, <2>6, <2>7 DEF TypeOK
<1>14. CASE MatarCPU
    <2>1. TipoKernel'
        BY <1>1, <1>14 DEF TypeOK, TipoKernel, MatarCPU, MuereCPU, Nadie
    <2>2. TipoProcesos'
        BY <1>1, <1>14 DEF TypeOK, TipoProcesos, MatarCPU, MuereCPU, Nadie
    <2>3. TipoCPU'
        BY <1>1, <1>14 DEF TypeOK, TipoCPU, MatarCPU, MuereCPU, Nadie
    <2>4. TipoSocket'
        <3>1. /\ aCPU' = [k \in Vidas |-> <<>>] /\ perdidos' = [perdidos EXCEPT !["CPU"] = 0]
              /\ UNCHANGED aKernel
            BY <1>14 DEF MatarCPU, MuereCPU
        <3> QED BY <1>1, <3>1 DEF TypeOK, TipoSocket
    <2>5. TipoConsolas'
        BY <1>1, <1>14 DEF TypeOK, TipoConsolas, MatarCPU, MuereCPU, Nadie
    <2>6. TipoHilos'
        BY <1>1, <1>14 DEF TypeOK, TipoHilos, MatarCPU, MuereCPU, Nadie
    <2>7. TipoSiNo'
        BY <1>1, <1>14, Zenon DEF TypeOK, TipoSiNo, MatarCPU, MuereCPU, Nadie
    <2> QED BY <2>1, <2>2, <2>3, <2>4, <2>5, <2>6, <2>7 DEF TypeOK
<1>15. CASE IniciarKernel
    <2>1. TipoKernel'
        BY <1>1, <1>15 DEF TypeOK, TipoKernel, IniciarKernel, PuertoPropio
    <2>2. TipoProcesos'
        BY <1>1, <1>15 DEF TypeOK, TipoProcesos, IniciarKernel, PuertoPropio
    <2>3. TipoCPU'
        BY <1>1, <1>15 DEF TypeOK, TipoCPU, IniciarKernel, PuertoPropio
    <2>4. TipoSocket'
        BY <1>1, <1>15 DEF TypeOK, TipoSocket, IniciarKernel, PuertoPropio
    <2>5. TipoConsolas'
        BY <1>1, <1>15 DEF TypeOK, TipoConsolas, IniciarKernel, PuertoPropio
    <2>6. TipoHilos'
        BY <1>1, <1>15 DEF TypeOK, TipoHilos, IniciarKernel, PuertoPropio
    <2>7. TipoSiNo'
        BY <1>1, <1>15, Zenon DEF TypeOK, TipoSiNo, IniciarKernel, PuertoPropio
    <2> QED BY <2>1, <2>2, <2>3, <2>4, <2>5, <2>6, <2>7 DEF TypeOK
<1>16. CASE ConectarDispatch
    <2>1. TipoKernel'
        <3>1. servidor' = vidaCPU \/ servidor' = 0
            BY <1>16 DEF ConectarDispatch, Nadie
        <3>2. servidor' \in 0..MaxVidas
            BY <1>1, <3>1 DEF TypeOK, TipoKernel, TipoCPU
        <3>3. pcKernel' = "saludar" /\ UNCHANGED <<vidaKernel, resultado>>
            BY <1>16 DEF ConectarDispatch
        <3> QED BY <1>1, <3>2, <3>3 DEF TypeOK, TipoKernel
    <2>2. TipoProcesos'
        BY <1>1, <1>16 DEF TypeOK, TipoProcesos, ConectarDispatch, Escucha, Nadie, Vidas
    <2>3. TipoCPU'
        <3>1. pendientes' = Append(pendientes, vidaKernel) \/ UNCHANGED pendientes
            BY <1>16 DEF ConectarDispatch
        <3>2. vidaKernel \in Vidas /\ UNCHANGED <<pcCPU, vidaCPU, cliente>>
            BY <1>1, <1>16 DEF ConectarDispatch
        <3>3. pendientes' \in Seq(Vidas)
            BY <1>1, <3>1, <3>2 DEF TypeOK, TipoCPU
        <3> QED BY <1>1, <3>2, <3>3 DEF TypeOK, TipoCPU
    <2>4. TipoSocket'
        BY <1>1, <1>16 DEF TypeOK, TipoSocket, ConectarDispatch, Escucha, Nadie, Vidas
    <2>5. TipoConsolas'
        BY <1>1, <1>16 DEF TypeOK, TipoConsolas, ConectarDispatch, Escucha, Nadie, Vidas
    <2>6. TipoHilos'
        BY <1>1, <1>16 DEF TypeOK, TipoHilos, ConectarDispatch, Escucha, Nadie, Vidas
    <2>7. TipoSiNo'
        BY <1>1, <1>16, Zenon DEF TypeOK, TipoSiNo, ConectarDispatch, Escucha, Nadie, Vidas
    <2> QED BY <2>1, <2>2, <2>3, <2>4, <2>5, <2>6, <2>7 DEF TypeOK
<1>17. CASE SaludarCPU
    <2>1. TipoKernel'
        BY <1>1, <1>17 DEF TypeOK, TipoKernel, SaludarCPU, EnviarAlCPU, SePierde, DelKernel
    <2>2. TipoProcesos'
        BY <1>1, <1>17 DEF TypeOK, TipoProcesos, SaludarCPU, EnviarAlCPU, SePierde, DelKernel
    <2>3. TipoCPU'
        BY <1>1, <1>17 DEF TypeOK, TipoCPU, SaludarCPU, EnviarAlCPU, SePierde, DelKernel
    <2>4. TipoSocket'
        <3>1. UNCHANGED aKernel /\ (UNCHANGED aCPU \/ aCPU' = [aCPU EXCEPT ![vidaKernel] = Append(@, "KERNEL")])
            BY <1>17 DEF SaludarCPU, EnviarAlCPU
        <3>2. UNCHANGED perdidos \/ perdidos' = [perdidos EXCEPT !["Kernel"] = 1]
            BY <1>17 DEF SaludarCPU, EnviarAlCPU, SePierde
        <3>3. vidaKernel \in Vidas
            BY <1>1, <1>17 DEF SaludarCPU
        <3>4. aCPU' \in [Vidas -> Seq(DelKernel)]
            <4>1. aCPU[vidaKernel] \in Seq(DelKernel) /\ "KERNEL" \in DelKernel
                BY <1>1, <3>3 DEF TypeOK, TipoSocket, DelKernel
            <4>2. Append(aCPU[vidaKernel], "KERNEL") \in Seq(DelKernel)
                BY <4>1
            <4> QED BY <1>1, <3>1, <4>2 DEF TypeOK, TipoSocket
        <3>5. perdidos' \in [{"Kernel", "CPU"} -> 0..1]
            BY <1>1, <3>2 DEF TypeOK, TipoSocket
        <3> QED BY <1>1, <3>1, <3>4, <3>5 DEF TypeOK, TipoSocket
    <2>5. TipoConsolas'
        BY <1>1, <1>17 DEF TypeOK, TipoConsolas, SaludarCPU, EnviarAlCPU, SePierde, DelKernel
    <2>6. TipoHilos'
        BY <1>1, <1>17 DEF TypeOK, TipoHilos, SaludarCPU, EnviarAlCPU, SePierde, DelKernel
    <2>7. TipoSiNo'
        BY <1>1, <1>17, Zenon DEF TypeOK, TipoSiNo, SaludarCPU, EnviarAlCPU, SePierde, DelKernel
    <2> QED BY <2>1, <2>2, <2>3, <2>4, <2>5, <2>6, <2>7 DEF TypeOK
<1>18. CASE RecibirSaludo
    <2>1. TipoKernel'
        <3>1. \A r \in Encuentra(aKernel, VivaCPU(servidor)) : r \in {"OK", Basura}
            BY <1>18 DEF IInv, Red_Inv, Respuesta_Inv, RecibirSaludo, Encuentra
        <3>2. resultado' \in Saludos
            BY <1>18, <3>1 DEF RecibirSaludo, Saludos, Basura
        <3> QED BY <1>1, <1>18, <3>2 DEF RecibirSaludo, TypeOK, TipoKernel
    <2>2. TipoProcesos'
        BY <1>1, <1>18 DEF TypeOK, TipoProcesos, RecibirSaludo
    <2>3. TipoCPU'
        BY <1>1, <1>18 DEF TypeOK, TipoCPU, RecibirSaludo
    <2>4. TipoSocket'
        BY <1>1, <1>3, <1>18 DEF RecibirSaludo, TypeOK, TipoSocket
    <2>5. TipoConsolas'
        BY <1>1, <1>18 DEF TypeOK, TipoConsolas, RecibirSaludo
    <2>6. TipoHilos'
        BY <1>1, <1>18 DEF TypeOK, TipoHilos, RecibirSaludo
    <2>7. TipoSiNo'
        BY <1>1, <1>18, Zenon DEF TypeOK, TipoSiNo, RecibirSaludo
    <2> QED BY <2>1, <2>2, <2>3, <2>4, <2>5, <2>6, <2>7 DEF TypeOK
<1>19. CASE IniciarPlanificadores
    <2>1. TipoKernel'
        BY <1>1, <1>19 DEF TypeOK, TipoKernel, IniciarPlanificadores
    <2>2. TipoProcesos'
        BY <1>1, <1>19 DEF TypeOK, TipoProcesos, IniciarPlanificadores
    <2>3. TipoCPU'
        BY <1>1, <1>19 DEF TypeOK, TipoCPU, IniciarPlanificadores
    <2>4. TipoSocket'
        BY <1>1, <1>19 DEF TypeOK, TipoSocket, IniciarPlanificadores
    <2>5. TipoConsolas'
        BY <1>1, <1>19 DEF TypeOK, TipoConsolas, IniciarPlanificadores
    <2>6. TipoHilos'
        BY <1>1, <1>19 DEF TypeOK, TipoHilos, IniciarPlanificadores
    <2>7. TipoSiNo'
        BY <1>1, <1>19, Zenon DEF TypeOK, TipoSiNo, IniciarPlanificadores
    <2> QED BY <2>1, <2>2, <2>3, <2>4, <2>5, <2>6, <2>7 DEF TypeOK
<1>20. ASSUME NEW c \in Consolas, Despachar(c) PROVE TypeOK'
    <2>1. TipoKernel'
        BY <1>1, <1>20 DEF TypeOK, TipoKernel, Despachar, TrasDespachar
    <2>2. TipoProcesos'
        BY <1>1, <1>20 DEF TypeOK, TipoProcesos, Despachar, EnviarAlCPU, SePierde, DelKernel
    <2>3. TipoCPU'
        BY <1>1, <1>20 DEF TypeOK, TipoCPU, Despachar, EnviarAlCPU, SePierde, DelKernel
    <2>4. TipoSocket'
        <3>1. UNCHANGED aKernel /\ (UNCHANGED aCPU \/ aCPU' = [aCPU EXCEPT ![vidaKernel] = Append(@, "PCB")])
            BY <1>20 DEF Despachar, EnviarAlCPU
        <3>2. UNCHANGED perdidos \/ perdidos' = [perdidos EXCEPT !["Kernel"] = 1]
            BY <1>20 DEF Despachar, EnviarAlCPU, SePierde
        <3>3. vidaKernel \in Vidas
            BY <1>1, <1>20 DEF Despachar
        <3>4. aCPU' \in [Vidas -> Seq(DelKernel)]
            <4>1. aCPU[vidaKernel] \in Seq(DelKernel) /\ "PCB" \in DelKernel
                BY <1>1, <3>3 DEF TypeOK, TipoSocket, DelKernel
            <4>2. Append(aCPU[vidaKernel], "PCB") \in Seq(DelKernel)
                BY <4>1
            <4> QED BY <1>1, <3>1, <4>2 DEF TypeOK, TipoSocket
        <3>5. perdidos' \in [{"Kernel", "CPU"} -> 0..1]
            BY <1>1, <3>2 DEF TypeOK, TipoSocket
        <3> QED BY <1>1, <3>1, <3>4, <3>5 DEF TypeOK, TipoSocket
    <2>5. TipoConsolas'
        BY <1>1, <1>20 DEF TypeOK, TipoConsolas, Despachar, EnviarAlCPU, SePierde, DelKernel
    <2>6. TipoHilos'
        BY <1>1, <1>20 DEF TypeOK, TipoHilos, Despachar, EnviarAlCPU, SePierde, DelKernel
    <2>7. TipoSiNo'
        BY <1>1, <1>20, Zenon DEF TypeOK, TipoSiNo, Despachar, EnviarAlCPU, SePierde, DelKernel
    <2> QED BY <2>1, <2>2, <2>3, <2>4, <2>5, <2>6, <2>7 DEF TypeOK
<1>21. CASE RecibirPCB
    <2>1. TipoKernel'
        BY <1>1, <1>21 DEF TypeOK, TipoKernel, RecibirPCB
    <2>2. TipoProcesos'
        BY <1>1, <1>21 DEF TypeOK, TipoProcesos, RecibirPCB
    <2>3. TipoCPU'
        BY <1>1, <1>21 DEF TypeOK, TipoCPU, RecibirPCB
    <2>4. TipoSocket'
        BY <1>1, <1>3, <1>21 DEF RecibirPCB, TypeOK, TipoSocket
    <2>5. TipoConsolas'
        BY <1>1, <1>21 DEF TypeOK, TipoConsolas, RecibirPCB
    <2>6. TipoHilos'
        BY <1>1, <1>21 DEF TypeOK, TipoHilos, RecibirPCB
    <2>7. TipoSiNo'
        BY <1>1, <1>21, Zenon DEF TypeOK, TipoSiNo, RecibirPCB
    <2> QED BY <2>1, <2>2, <2>3, <2>4, <2>5, <2>6, <2>7 DEF TypeOK
<1>22. CASE MatarKernel
    <2>1. TipoKernel'
        BY <1>1, <1>22 DEF TypeOK, TipoKernel, MatarKernel, MuereKernel, Nadie, Saludos
    <2>2. TipoProcesos'
        BY <1>1, <1>22 DEF TypeOK, TipoProcesos, MatarKernel, MuereKernel, SinConfig, Configuracion
    <2>3. TipoCPU'
        BY <1>1, <1>22 DEF TypeOK, TipoCPU, MatarKernel, MuereKernel
    <2>4. TipoSocket'
        <3>1. /\ aKernel' = <<>> /\ perdidos' = [perdidos EXCEPT !["Kernel"] = 0]
              /\ UNCHANGED aCPU
            BY <1>22 DEF MatarKernel, MuereKernel
        <3> QED BY <1>1, <3>1 DEF TypeOK, TipoSocket
    <2>5. TipoConsolas'
        BY <1>1, <1>22 DEF TypeOK, TipoConsolas, MatarKernel, MuereKernel
    <2>6. TipoHilos'
        BY <1>1, <1>22 DEF TypeOK, TipoHilos, MatarKernel, MuereKernel
    <2>7. TipoSiNo'
        BY <1>1, <1>22, Zenon DEF TypeOK, TipoSiNo, MatarKernel, MuereKernel
    <2> QED BY <2>1, <2>2, <2>3, <2>4, <2>5, <2>6, <2>7 DEF TypeOK
<1>23. CASE AceptarConsola
    <2>1. TipoKernel'
        BY <1>1, <1>23 DEF TypeOK, TipoKernel, AceptarConsola
    <2>2. TipoProcesos'
        BY <1>1, <1>23 DEF TypeOK, TipoProcesos, AceptarConsola
    <2>3. TipoCPU'
        BY <1>1, <1>23 DEF TypeOK, TipoCPU, AceptarConsola
    <2>4. TipoSocket'
        BY <1>1, <1>23 DEF TypeOK, TipoSocket, AceptarConsola
    <2>5. TipoConsolas'
        BY <1>1, <1>23 DEF TypeOK, TipoConsolas, AceptarConsola
    <2>6. TipoHilos'
        BY <1>1, <1>23 DEF TypeOK, TipoHilos, AceptarConsola
    <2>7. TipoSiNo'
        BY <1>1, <1>23, Zenon DEF TypeOK, TipoSiNo, AceptarConsola
    <2> QED BY <2>1, <2>2, <2>3, <2>4, <2>5, <2>6, <2>7 DEF TypeOK
<1>24. ASSUME NEW c \in Consolas, Conectar(c) PROVE TypeOK'
    <2>1. TipoKernel'
        BY <1>1, <1>24 DEF TypeOK, TipoKernel, Conectar, Nadie
    <2>2. TipoProcesos'
        BY <1>1, <1>24 DEF TypeOK, TipoProcesos, Conectar, Nadie
    <2>3. TipoCPU'
        BY <1>1, <1>24 DEF TypeOK, TipoCPU, Conectar, Nadie
    <2>4. TipoSocket'
        BY <1>1, <1>24 DEF TypeOK, TipoSocket, Conectar, Nadie
    <2>5. TipoConsolas'
        <3>0. \/ servidorDe' = [servidorDe EXCEPT ![c] = vidaKernel]
              \/ servidorDe' = [servidorDe EXCEPT ![c] = 0]
            BY <1>24, Zenon DEF Conectar, Nadie
        <3>1. PICK v \in 0..MaxVidas : servidorDe' = [servidorDe EXCEPT ![c] = v]
            BY <1>1, <3>0 DEF TypeOK, TipoKernel
        <3>2. pcConsola' = [pcConsola EXCEPT ![c] = "saludar"] /\ UNCHANGED saludo
            BY <1>24 DEF Conectar
        <3> QED BY <1>1, <3>1, <3>2 DEF TypeOK, TipoConsolas
    <2>6. TipoHilos'
        BY <1>1, <1>24 DEF TypeOK, TipoHilos, Conectar, Nadie
    <2>7. TipoSiNo'
        BY <1>1, <1>24, Zenon DEF TypeOK, TipoSiNo, Conectar, Nadie
    <2> QED BY <2>1, <2>2, <2>3, <2>4, <2>5, <2>6, <2>7 DEF TypeOK
<1>25. ASSUME NEW c \in Consolas, SaludarKernel(c) PROVE TypeOK'
    <2>1. TipoKernel'
        BY <1>1, <1>25 DEF TypeOK, TipoKernel, SaludarKernel, Enviar
    <2>2. TipoProcesos'
        BY <1>1, <1>25 DEF TypeOK, TipoProcesos, SaludarKernel, Enviar
    <2>3. TipoCPU'
        BY <1>1, <1>25 DEF TypeOK, TipoCPU, SaludarKernel, Enviar
    <2>4. TipoSocket'
        BY <1>1, <1>25 DEF TypeOK, TipoSocket, SaludarKernel, Enviar
    <2>5. TipoConsolas'
        BY <1>1, <1>25 DEF TypeOK, TipoConsolas, SaludarKernel, Enviar
    <2>6. TipoHilos'
        BY <1>1, <1>25 DEF TypeOK, TipoHilos, SaludarKernel, Enviar
    <2>7. TipoSiNo'
        BY <1>1, <1>25, Zenon DEF TypeOK, TipoSiNo, SaludarKernel, Enviar
    <2> QED BY <2>1, <2>2, <2>3, <2>4, <2>5, <2>6, <2>7 DEF TypeOK
<1>26. ASSUME NEW c \in Consolas, EsperarSaludo(c) PROVE TypeOK'
    <2>1. TipoKernel'
        BY <1>1, <1>26 DEF TypeOK, TipoKernel, EsperarSaludo
    <2>2. TipoProcesos'
        BY <1>1, <1>26 DEF TypeOK, TipoProcesos, EsperarSaludo
    <2>3. TipoCPU'
        BY <1>1, <1>26 DEF TypeOK, TipoCPU, EsperarSaludo
    <2>4. TipoSocket'
        BY <1>1, <1>26 DEF TypeOK, TipoSocket, EsperarSaludo
    <2>5. TipoConsolas'
        BY <1>1, <1>26 DEF TypeOK, TipoConsolas, EsperarSaludo
    <2>6. TipoHilos'
        BY <1>1, <1>26 DEF TypeOK, TipoHilos, EsperarSaludo
    <2>7. TipoSiNo'
        BY <1>1, <1>26, Zenon DEF TypeOK, TipoSiNo, EsperarSaludo
    <2> QED BY <2>1, <2>2, <2>3, <2>4, <2>5, <2>6, <2>7 DEF TypeOK
<1>27. ASSUME NEW c \in Consolas, EnviarPrograma(c) PROVE TypeOK'
    <2>1. TipoKernel'
        BY <1>1, <1>27 DEF TypeOK, TipoKernel, EnviarPrograma, Enviar
    <2>2. TipoProcesos'
        BY <1>1, <1>27 DEF TypeOK, TipoProcesos, EnviarPrograma, Enviar
    <2>3. TipoCPU'
        BY <1>1, <1>27 DEF TypeOK, TipoCPU, EnviarPrograma, Enviar
    <2>4. TipoSocket'
        BY <1>1, <1>27 DEF TypeOK, TipoSocket, EnviarPrograma, Enviar
    <2>5. TipoConsolas'
        BY <1>1, <1>27 DEF TypeOK, TipoConsolas, EnviarPrograma, Enviar
    <2>6. TipoHilos'
        BY <1>1, <1>27 DEF TypeOK, TipoHilos, EnviarPrograma, Enviar
    <2>7. TipoSiNo'
        BY <1>1, <1>27, Zenon DEF TypeOK, TipoSiNo, EnviarPrograma, Enviar
    <2> QED BY <2>1, <2>2, <2>3, <2>4, <2>5, <2>6, <2>7 DEF TypeOK
<1>28. ASSUME NEW c \in Consolas, AtenderConsola(c) PROVE TypeOK'
    <2>1. TipoKernel'
        BY <1>1, <1>28 DEF TypeOK, TipoKernel, AtenderConsola
    <2>2. TipoProcesos'
        BY <1>1, <1>28 DEF TypeOK, TipoProcesos, AtenderConsola
    <2>3. TipoCPU'
        BY <1>1, <1>28 DEF TypeOK, TipoCPU, AtenderConsola
    <2>4. TipoSocket'
        BY <1>1, <1>28 DEF TypeOK, TipoSocket, AtenderConsola
    <2>5. TipoConsolas'
        BY <1>1, <1>28 DEF TypeOK, TipoConsolas, AtenderConsola
    <2>6. TipoHilos'
        BY <1>1, <1>28 DEF TypeOK, TipoHilos, AtenderConsola
    <2>7. TipoSiNo'
        BY <1>1, <1>28, Zenon DEF TypeOK, TipoSiNo, AtenderConsola
    <2> QED BY <2>1, <2>2, <2>3, <2>4, <2>5, <2>6, <2>7 DEF TypeOK
<1>29. ASSUME NEW c \in Consolas, CrearProceso(c) PROVE TypeOK'
    <2>1. TipoKernel'
        BY <1>1, <1>29 DEF TypeOK, TipoKernel, CrearProceso
    <2>2. TipoProcesos'
        BY <1>1, <1>29 DEF TypeOK, TipoProcesos, CrearProceso
    <2>3. TipoCPU'
        BY <1>1, <1>29 DEF TypeOK, TipoCPU, CrearProceso
    <2>4. TipoSocket'
        BY <1>1, <1>29 DEF TypeOK, TipoSocket, CrearProceso
    <2>5. TipoConsolas'
        BY <1>1, <1>29 DEF TypeOK, TipoConsolas, CrearProceso
    <2>6. TipoHilos'
        BY <1>1, <1>29 DEF TypeOK, TipoHilos, CrearProceso
    <2>7. TipoSiNo'
        BY <1>1, <1>29, Zenon DEF TypeOK, TipoSiNo, CrearProceso
    <2> QED BY <2>1, <2>2, <2>3, <2>4, <2>5, <2>6, <2>7 DEF TypeOK
<1>30. CASE PlanificadorLargoPlazo
    <2>1. TipoKernel'
        BY <1>1, <1>30 DEF TypeOK, TipoKernel, PlanificadorLargoPlazo
    <2>2. TipoProcesos'
        <3>1. /\ colaNEW \in Seq(Consolas) /\ despertar \in 0..Len(colaNEW) /\ enMemoria \in Nat
              /\ config \in Configuracion /\ listos \subseteq Consolas
            BY <1>1 DEF TypeOK, TipoProcesos
        <3>2. despertar > 0 /\ despertar' = despertar - 1 /\ UNCHANGED <<config, enviada, devueltos>>
            BY <1>30 DEF PlanificadorLargoPlazo
        <3>3. CASE UNCHANGED <<colaNEW, listos, enMemoria>>
            <4>1. despertar' \in 0..Len(colaNEW')
                BY <3>1, <3>2, <3>3
            <4> QED BY <1>1, <3>1, <3>2, <3>3, <4>1 DEF TypeOK, TipoProcesos
        <3>4. CASE /\ colaNEW' = Tail(colaNEW) /\ listos' = listos \cup {Head(colaNEW)}
                   /\ enMemoria' = enMemoria + 1
            <4>1. colaNEW # <<>> /\ Head(colaNEW) \in Consolas /\ colaNEW' \in Seq(Consolas)
                BY <3>1, <3>2, <3>4
            <4>2. despertar' \in 0..Len(colaNEW')
                BY <3>1, <3>2, <3>4, <4>1
            <4>3. enMemoria' \in Nat /\ listos' \subseteq Consolas
                BY <3>1, <3>4, <4>1
            <4> QED BY <1>1, <3>1, <3>2, <4>1, <4>2, <4>3 DEF TypeOK, TipoProcesos
        <3> QED BY <1>30, <3>3, <3>4 DEF PlanificadorLargoPlazo
    <2>3. TipoCPU'
        BY <1>1, <1>30 DEF TypeOK, TipoCPU, PlanificadorLargoPlazo
    <2>4. TipoSocket'
        BY <1>1, <1>30 DEF TypeOK, TipoSocket, PlanificadorLargoPlazo
    <2>5. TipoConsolas'
        BY <1>1, <1>30 DEF TypeOK, TipoConsolas, PlanificadorLargoPlazo
    <2>6. TipoHilos'
        BY <1>1, <1>30 DEF TypeOK, TipoHilos, PlanificadorLargoPlazo
    <2>7. TipoSiNo'
        BY <1>1, <1>30, Zenon DEF TypeOK, TipoSiNo, PlanificadorLargoPlazo
    <2> QED BY <2>1, <2>2, <2>3, <2>4, <2>5, <2>6, <2>7 DEF TypeOK
<1> QED
    BY <1>5, <1>6, <1>7, <1>8, <1>9, <1>10, <1>11, <1>12,
       <1>13, <1>14, <1>15, <1>16, <1>17, <1>18, <1>19, <1>20,
       <1>21, <1>22, <1>23, <1>24, <1>25, <1>26, <1>27, <1>28,
       <1>29, <1>30
    DEF Next, SiguienteCPU, SiguienteKernel, SiguienteHilo, SiguienteConsola, Operador

-----------------------------------------------------------------------------
(* The connection *)

\* A step of the consoles and their threads touches nothing of the handshake.
LEMMA SinNucleo ==
    ASSUME IInv, UNCHANGED nucleo
    PROVE  Red_Inv'
<1> USE DEF IInv, Red_Inv, nucleo
<1>1. Vidas_Inv'
    BY DEF Vidas_Inv
<1>2. CPU_Inv'
    BY DEF CPU_Inv, VivoKernel
<1>3. Conexion_Inv'
    BY DEF Conexion_Inv, Esta, VivaCPU
<1>4. Apagado_Inv' /\ Pregunta_Inv' /\ Respuesta_Inv' /\ Servicio_Inv'
    BY DEF Apagado_Inv, Pregunta_Inv, Respuesta_Inv, Servicio_Inv, VivaCPU
<1>5. Basura_Inv'
    BY DEF Basura_Inv, VivaCPU
<1> QED BY <1>1, <1>2, <1>3, <1>4, <1>5

\* Every step keeps what is known of the connection and its messages.
LEMMA RedPaso ==
    ASSUME IInv, Next
    PROVE  Red_Inv'
<1> USE DEF vars, kernel, procesos, admision, despacho, cpu, socket, consolas, hilos
<1>1. /\ Red_Inv /\ MaxVidas \in Nat
      /\ pcKernel # "apagado" => vidaKernel \in Vidas
      /\ pcCPU # "apagada" => vidaCPU \in Vidas
    BY VidasNaturales DEF IInv, Red_Inv
<1>2. TipoKernel /\ TipoCPU /\ TipoSocket
    BY DEF IInv, TypeOK
<1>3. vidaKernel \in Nat /\ vidaCPU \in Nat /\ servidor \in Nat /\ cliente \in Nat
    BY <1>1, <1>2 DEF TipoKernel, TipoCPU
<1>0. pcKernel # "apagado" => vidaKernel # Nadie
    BY <1>1 DEF Vidas, Nadie
<1>4. CASE CaerKernel
    <2>0. /\ pcKernel' # "apagado" => vidaKernel' \in Vidas
          /\ pcCPU' # "apagada" => vidaCPU' \in Vidas
        BY <1>1, <1>4 DEF CaerKernel, MuereKernel
    <2>1. Vidas_Inv'
        BY <1>1, <1>2, <1>3, <1>4 DEF Red_Inv, Vidas_Inv, CaerKernel, MuereKernel, Nadie
    <2>2. CPU_Inv'
        BY <1>1, <1>2, <1>3, <1>4 DEF Red_Inv, CPU_Inv, VivoKernel, Nadie, CaerKernel, MuereKernel
    <2>3. Conexion_Inv'
        BY <1>1, <1>2, <1>3, <1>4 DEF Red_Inv, Conexion_Inv, VivaCPU, Nadie, Esta, CaerKernel, MuereKernel
    <2>4. Pregunta_Inv'
        BY <1>1, <1>2, <1>3, <1>4 DEF Red_Inv, Pregunta_Inv, CaerKernel, MuereKernel
    <2>5. Respuesta_Inv'
        BY <1>1, <1>2, <1>3, <1>4 DEF Red_Inv, Respuesta_Inv, VivaCPU, Nadie, CaerKernel, MuereKernel
    <2>6. Servicio_Inv'
        BY <1>1, <1>2, <1>3, <1>4 DEF Red_Inv, Servicio_Inv, VivaCPU, Nadie, CaerKernel, MuereKernel
    <2>7. Basura_Inv'
        BY <1>1, <1>2, <1>3, <1>4 DEF Red_Inv, Basura_Inv, VivaCPU, Nadie, CaerKernel, MuereKernel
    <2>8. Apagado_Inv'
        BY <1>4 DEF Apagado_Inv, CaerKernel, MuereKernel
    <2> QED BY <2>0, <2>1, <2>2, <2>3, <2>4, <2>5, <2>6, <2>7, <2>8 DEF Red_Inv
<1>5. CASE CaerCPU
    <2>a. /\ pcCPU' = "apagada" /\ pendientes' = <<>> /\ cliente' = Nadie
          /\ aCPU' = [k \in Vidas |-> <<>>]
          /\ UNCHANGED <<pcKernel, vidaKernel, servidor, resultado, basura, vidaCPU, aKernel>>
        BY <1>5 DEF CaerCPU, MuereCPU
    <2>d. ~basuraCPU'
        BY <1>5, Zenon DEF CaerCPU, MuereCPU
    <2>b. ~VivoKernel(cliente)' /\ ~VivaCPU(servidor)' /\ ~Esta(vidaKernel, pendientes)'
        BY <2>a DEF VivoKernel, VivaCPU, Esta, Nadie
    <2>c. pcKernel' # "apagado" => cliente' # vidaKernel'
        BY <1>0, <2>a
    <2>0. /\ pcKernel' # "apagado" => vidaKernel' \in Vidas
          /\ pcCPU' # "apagada" => vidaCPU' \in Vidas
        BY <1>1, <2>a
    <2>1. Vidas_Inv'
        BY <1>1, <1>3, <2>a DEF Red_Inv, Vidas_Inv, Nadie
    <2>2. CPU_Inv'
        BY <2>a, <2>d, Zenon DEF CPU_Inv
    <2>3. Conexion_Inv'
        BY <1>1, <2>a, <2>b, <2>c DEF Red_Inv, Conexion_Inv
    <2>4. Pregunta_Inv'
        BY <1>1, <2>a, <2>c DEF Red_Inv, Pregunta_Inv
    <2>5. Respuesta_Inv'
        BY <1>1, <2>a, <2>b, <2>c DEF Red_Inv, Respuesta_Inv
    <2>6. Servicio_Inv'
        BY <1>1, <1>2, <1>3, <2>a DEF Red_Inv, Servicio_Inv, VivaCPU, Nadie
    <2>7. Basura_Inv'
        BY <1>1, <1>2, <1>3, <2>a DEF Red_Inv, Basura_Inv, VivaCPU, Nadie
    <2>8. Apagado_Inv'
        BY <1>1, <1>5 DEF Red_Inv, Apagado_Inv, CaerCPU, MuereCPU
    <2> QED BY <2>0, <2>1, <2>2, <2>3, <2>4, <2>5, <2>6, <2>7, <2>8 DEF Red_Inv
<1>6. CASE LevantarKernel
    <2>a. /\ pcKernel = "apagado" /\ pcKernel' = "iniciar" /\ vidaKernel < MaxVidas
          /\ vidaKernel' = vidaKernel + 1 /\ servidor' = Nadie /\ aKernel' = <<>>
          /\ UNCHANGED <<pcCPU, vidaCPU, pendientes, cliente, basuraCPU, aCPU>>
        BY <1>1, <1>6 DEF Red_Inv, Apagado_Inv, LevantarKernel
    <2>b. ~basura'
        <3>1. ~basura
            BY <1>1, <2>a DEF Red_Inv, Basura_Inv
        <3> QED BY <1>6, <3>1, Zenon DEF LevantarKernel
    <2>c. vidaKernel' \in Vidas
        BY <1>1, <1>3, <2>a DEF Vidas
    <2>d. \A i \in 1..Len(pendientes) : pendientes[i] \in Nat /\ pendientes[i] <= vidaKernel
        BY <1>1, <1>2 DEF Red_Inv, Vidas_Inv, TipoCPU, Vidas
    <2>e. ~Esta(vidaKernel, pendientes)'
        BY <1>3, <2>a, <2>d DEF Esta
    <2>f. cliente' # vidaKernel'
        BY <1>1, <1>3, <2>a DEF Red_Inv, Vidas_Inv
    <2>g. ~VivoKernel(cliente)'
        BY <2>f DEF VivoKernel
    <2>0. /\ pcKernel' # "apagado" => vidaKernel' \in Vidas
          /\ pcCPU' # "apagada" => vidaCPU' \in Vidas
        BY <1>1, <2>a, <2>c
    <2>1. Vidas_Inv'
        <3>1. \A k \in Vidas : k > vidaKernel + 1 => k > vidaKernel
            BY <1>1, <1>3 DEF Vidas
        <3>2. \A i \in 1..Len(pendientes') : pendientes'[i] <= vidaKernel'
            BY <1>3, <2>a, <2>d
        <3>3. servidor' <= vidaCPU' /\ cliente' <= vidaKernel'
            BY <1>1, <1>3, <2>a DEF Red_Inv, Vidas_Inv, Nadie
        <3> QED BY <1>1, <2>a, <3>1, <3>2, <3>3 DEF Red_Inv, Vidas_Inv
    <2>2. CPU_Inv'
        BY <1>1, <2>a, <2>g DEF Red_Inv, CPU_Inv
    <2>3. Conexion_Inv'
        BY <2>a, <2>e, <2>f DEF Conexion_Inv
    <2>4. Pregunta_Inv'
        <3>1. aCPU[vidaKernel + 1] = <<>>
            BY <1>1, <1>3, <2>a, <2>c DEF Red_Inv, Vidas_Inv
        <3> QED BY <2>a, <2>f, <3>1 DEF Pregunta_Inv
    <2>5. Respuesta_Inv'
        BY <1>1, <1>2, <1>3, <2>a DEF Red_Inv, Respuesta_Inv, VivaCPU, Nadie
    <2>6. Servicio_Inv'
        BY <1>1, <1>2, <1>3, <2>a DEF Red_Inv, Servicio_Inv, VivaCPU, Nadie
    <2>7. Basura_Inv'
        BY <2>a, <2>b DEF Basura_Inv
    <2>8. Apagado_Inv'
        BY <1>1, <1>6 DEF Red_Inv, Apagado_Inv, LevantarKernel
    <2> QED BY <2>0, <2>1, <2>2, <2>3, <2>4, <2>5, <2>6, <2>7, <2>8 DEF Red_Inv
<1>7. CASE LevantarCPU
    <2>a. /\ pcCPU = "apagada" /\ pcCPU' = "iniciar" /\ vidaCPU' = vidaCPU + 1 /\ vidaCPU < MaxVidas
          /\ UNCHANGED <<pcKernel, vidaKernel, servidor, resultado, basura, pendientes, cliente, aKernel, aCPU>>
        BY <1>7 DEF LevantarCPU
    <2>d. ~basuraCPU' /\ pendientes' = <<>> /\ cliente' = Nadie
        <3>0. ~basuraCPU
            BY <1>1, <2>a DEF Red_Inv, CPU_Inv
        <3>1. ~basuraCPU'
            BY <1>7, <3>0, Zenon DEF LevantarCPU
        <3> QED BY <1>1, <2>a, <3>1 DEF Red_Inv, CPU_Inv
    <2>e. vidaCPU' \in Vidas
        BY <1>1, <1>3, <2>a DEF Vidas
    <2>b. ~VivaCPU(servidor)'
        BY <1>1, <1>2, <1>3, <2>a DEF Red_Inv, Vidas_Inv, VivaCPU
    <2>c. UNCHANGED <<pcKernel, basura>>
        BY <2>a
    <2>0. /\ pcKernel' # "apagado" => vidaKernel' \in Vidas
          /\ pcCPU' # "apagada" => vidaCPU' \in Vidas
        BY <1>1, <2>a, <2>e
    <2>1. Vidas_Inv'
        BY <1>1, <1>2, <1>3, <2>a DEF Red_Inv, Vidas_Inv
    <2>2. CPU_Inv'
        BY <2>a, <2>d DEF CPU_Inv
    <2>3. Conexion_Inv'
        <3>1. ~Esta(vidaKernel, pendientes)'
            BY <2>d DEF Esta
        <3>2. pcKernel' # "apagado" => cliente' # vidaKernel'
            BY <1>0, <2>a, <2>d
        <3> QED BY <1>1, <2>a, <2>b, <3>1, <3>2 DEF Red_Inv, Conexion_Inv
    <2>4. Pregunta_Inv'
        BY <1>0, <1>1, <2>a, <2>d DEF Red_Inv, Pregunta_Inv
    <2>5. Respuesta_Inv'
        BY <1>0, <1>1, <2>a, <2>b, <2>d DEF Red_Inv, Respuesta_Inv
    <2>6. Servicio_Inv'
        BY <2>b DEF Servicio_Inv
    <2>7. Basura_Inv'
        BY <1>1, <2>b, <2>c, Zenon DEF Red_Inv, Basura_Inv
    <2>8. Apagado_Inv'
        BY <1>1, <1>7 DEF Red_Inv, Apagado_Inv, LevantarCPU
    <2> QED BY <2>0, <2>1, <2>2, <2>3, <2>4, <2>5, <2>6, <2>7, <2>8 DEF Red_Inv
<1>8. CASE IniciarCPU
    <2>0. /\ pcKernel' # "apagado" => vidaKernel' \in Vidas
          /\ pcCPU' # "apagada" => vidaCPU' \in Vidas
        BY <1>1, <1>8 DEF IniciarCPU
    <2>1. Vidas_Inv'
        BY <1>1, <1>2, <1>3, <1>8 DEF Red_Inv, Vidas_Inv, IniciarCPU
    <2>2. CPU_Inv'
        BY <1>1, <1>2, <1>3, <1>8 DEF Red_Inv, CPU_Inv, VivoKernel, Nadie, IniciarCPU
    <2>3. Conexion_Inv'
        BY <1>1, <1>2, <1>3, <1>8 DEF Red_Inv, Conexion_Inv, VivaCPU, Nadie, Esta, IniciarCPU
    <2>4. Pregunta_Inv'
        BY <1>1, <1>2, <1>3, <1>8 DEF Red_Inv, Pregunta_Inv, IniciarCPU
    <2>5. Respuesta_Inv'
        BY <1>1, <1>2, <1>3, <1>8 DEF Red_Inv, Respuesta_Inv, VivaCPU, Nadie, IniciarCPU
    <2>6. Servicio_Inv'
        BY <1>1, <1>2, <1>3, <1>8 DEF Red_Inv, Servicio_Inv, VivaCPU, Nadie, IniciarCPU
    <2>7. Basura_Inv'
        BY <1>1, <1>2, <1>3, <1>8 DEF Red_Inv, Basura_Inv, VivaCPU, Nadie, IniciarCPU
    <2>8. Apagado_Inv'
        BY <1>1, <1>8 DEF Red_Inv, Apagado_Inv, IniciarCPU
    <2> QED BY <2>0, <2>1, <2>2, <2>3, <2>4, <2>5, <2>6, <2>7, <2>8 DEF Red_Inv
<1>9. CASE Aceptar
    <2>a. /\ pcCPU = "aceptar" /\ pendientes # <<>> /\ cliente' = Head(pendientes)
          /\ pendientes' = Tail(pendientes) /\ pcCPU' = "saludar"
          /\ UNCHANGED <<pcKernel, vidaKernel, servidor, resultado, basura, vidaCPU, basuraCPU, aKernel, aCPU>>
        BY <1>9 DEF Aceptar
    <2>b. pendientes \in Seq(Nat)
        BY <1>1, <1>2 DEF TipoCPU, Vidas
    <2>c. Esta(vidaKernel, pendientes) <=>
              vidaKernel = Head(pendientes) \/ Esta(vidaKernel, Tail(pendientes))
        BY <1>3, <2>a, <2>b, EstaEnCola
    <2>d. cliente = Nadie
        BY <1>1, <2>a DEF Red_Inv, CPU_Inv
    <2>e. pcKernel # "apagado" => cliente # vidaKernel
        BY <1>1, <2>d DEF Vidas, Nadie
    <2>f. Esta(vidaKernel, pendientes)' <=> Esta(vidaKernel, Tail(pendientes))
        BY <2>a DEF Esta
    <2>g. VivaCPU(servidor)' <=> VivaCPU(servidor)
        BY <2>a DEF VivaCPU
    <2>0. /\ pcKernel' # "apagado" => vidaKernel' \in Vidas
          /\ pcCPU' # "apagada" => vidaCPU' \in Vidas
        BY <1>1, <2>a
    <2>1. Vidas_Inv'
        BY <1>1, <1>2, <1>3, <2>a DEF Red_Inv, Vidas_Inv
    <2>2. CPU_Inv'
        BY <1>1, <1>2, <1>3, <2>a DEF Red_Inv, CPU_Inv, VivoKernel, Nadie
    <2>3. Conexion_Inv'
        BY <1>1, <2>a, <2>c, <2>e, <2>f, <2>g DEF Red_Inv, Conexion_Inv
    <2>4. Pregunta_Inv'
        BY <1>1, <1>2, <1>3, <2>a DEF Red_Inv, Pregunta_Inv
    <2>5. Respuesta_Inv'
        BY <1>1, <1>2, <1>3, <2>a DEF Red_Inv, Respuesta_Inv, VivaCPU, Nadie
    <2>6. Servicio_Inv'
        BY <1>1, <1>2, <1>3, <2>a DEF Red_Inv, Servicio_Inv, VivaCPU, Nadie
    <2>7. Basura_Inv'
        BY <1>1, <1>2, <1>3, <2>a DEF Red_Inv, Basura_Inv, VivaCPU, Nadie
    <2>8. Apagado_Inv'
        BY <1>1, <1>9 DEF Red_Inv, Apagado_Inv, Aceptar
    <2> QED BY <2>0, <2>1, <2>2, <2>3, <2>4, <2>5, <2>6, <2>7, <2>8 DEF Red_Inv
<1>10. CASE AtenderSaludo
    <2>a. /\ pcCPU = "saludar" /\ pcCPU' = "recibir" /\ aCPU' = [aCPU EXCEPT ![cliente] = SinPrimero(@)]
          /\ UNCHANGED <<pcKernel, vidaKernel, servidor, resultado, basura, vidaCPU, pendientes, cliente, basuraCPU>>
        BY <1>10 DEF AtenderSaludo
    <2>b0. PICK identidad \in Encuentra(aCPU[cliente], VivoKernel(cliente)) :
              \E r \in Compara(identidad) : EnviarAlKernel(r)
        BY <1>10 DEF AtenderSaludo
    <2>b. PICK r \in Compara(identidad) : EnviarAlKernel(r)
        BY <2>b0
    <2>c. ASSUME VivoKernel(cliente)
          PROVE  pcKernel = "esperarSaludo" /\ aKernel' = <<"OK">> /\ aCPU'[vidaKernel] = <<>>
        <3>1. cliente = vidaKernel /\ pcKernel # "apagado" /\ vidaKernel \in Vidas
            BY <1>1, <2>c DEF VivoKernel
        <3>2. aCPU[vidaKernel] # <<>> /\ identidad = Head(aCPU[vidaKernel])
            BY <2>b0, <2>c, <3>1 DEF Encuentra
        <3>3. pcKernel \in {"esperarSaludo", "planificar", "despachar", "esperarPCB", "detenido"}
            BY <1>1, <1>2, <3>1, <3>2 DEF Red_Inv, Conexion_Inv, Pregunta_Inv, TipoKernel
        <3>4. VivaCPU(servidor)
            BY <1>1, <3>1, <3>3 DEF Red_Inv, Conexion_Inv
        <3>5. pcKernel = "esperarSaludo"
            BY <1>1, <2>a, <3>3, <3>4 DEF Red_Inv, Servicio_Inv
        <3>6. aKernel = <<>> /\ aCPU[vidaKernel] = <<"KERNEL">>
            BY <1>1, <2>a, <3>4, <3>5 DEF Red_Inv, Respuesta_Inv
        <3>7. r = "OK"
            BY <2>b, <3>2, <3>6 DEF Compara, Esperado
        <3>8. aKernel' = <<"OK">>
            BY <2>b, <2>c, <3>6, <3>7 DEF EnviarAlKernel
        <3>9. SinPrimero(aCPU[vidaKernel]) = <<>>
            BY <3>6 DEF SinPrimero
        <3> QED BY <1>2, <2>a, <3>1, <3>5, <3>8, <3>9 DEF TipoSocket
    <2>d. ASSUME ~VivoKernel(cliente), pcKernel # "apagado"
          PROVE  cliente # vidaKernel /\ UNCHANGED aKernel /\ aCPU'[vidaKernel] = aCPU[vidaKernel]
        <3>1. cliente # vidaKernel
            BY <1>1, <2>d DEF VivoKernel, Vidas, Nadie
        <3> QED BY <1>1, <1>2, <2>a, <2>b, <2>d, <3>1 DEF EnviarAlKernel, TipoSocket
    <2>e. VivoKernel(cliente) => cliente = vidaKernel
        BY DEF VivoKernel
    <2>f. VivaCPU(servidor)' <=> VivaCPU(servidor)
        BY <2>a DEF VivaCPU
    <2>0. /\ pcKernel' # "apagado" => vidaKernel' \in Vidas
          /\ pcCPU' # "apagada" => vidaCPU' \in Vidas
        BY <1>1, <2>a DEF SinPrimero
    <2>1. Vidas_Inv'
        BY <1>1, <1>2, <1>3, <2>a DEF Red_Inv, Vidas_Inv, SinPrimero
    <2>2. CPU_Inv'
        BY <1>1, <1>2, <1>3, <2>a DEF Red_Inv, CPU_Inv, VivoKernel, Nadie, SinPrimero
    <2>3. Conexion_Inv'
        BY <1>1, <1>2, <1>3, <2>a DEF Red_Inv, Conexion_Inv, VivaCPU, Nadie, Esta, SinPrimero
    <2>4. Pregunta_Inv'
        BY <1>1, <2>a, <2>c, <2>d DEF Red_Inv, Pregunta_Inv
    <2>5. Respuesta_Inv'
        <3>1. CASE VivoKernel(cliente)
            BY <2>a, <2>c, <2>e, <3>1 DEF Respuesta_Inv
        <3>2. CASE ~VivoKernel(cliente)
            BY <1>1, <2>a, <2>d, <2>f, <3>2 DEF Red_Inv, Respuesta_Inv
        <3> QED BY <3>1, <3>2
    <2>6. Servicio_Inv'
        BY <1>1, <1>2, <1>3, <2>a DEF Red_Inv, Servicio_Inv, VivaCPU, Nadie, SinPrimero
    <2>7. Basura_Inv'
        BY <1>1, <1>2, <1>3, <2>a DEF Red_Inv, Basura_Inv, VivaCPU, Nadie, SinPrimero
    <2>8. Apagado_Inv'
        BY <1>1, <1>10 DEF Red_Inv, Apagado_Inv, AtenderSaludo, EnviarAlKernel, VivoKernel
    <2> QED BY <2>0, <2>1, <2>2, <2>3, <2>4, <2>5, <2>6, <2>7, <2>8 DEF Red_Inv
<1>11. CASE RecibirDelKernel
    <2>a. /\ pcCPU = "recibir" /\ pcCPU' = "responder" /\ aCPU' = [aCPU EXCEPT ![cliente] = SinPrimero(@)]
          /\ UNCHANGED <<pcKernel, vidaKernel, servidor, resultado, basura, vidaCPU, pendientes, cliente, aKernel>>
        BY <1>11 DEF RecibirDelKernel
    <2>b. PICK m \in Encuentra(aCPU[cliente], VivoKernel(cliente)) : basuraCPU' = (basuraCPU \/ m = Basura)
        BY <1>11 DEF RecibirDelKernel
    <2>c. ASSUME VivoKernel(cliente)
          PROVE  m # Basura /\ aCPU[vidaKernel] # <<>>
        <3>1. cliente = vidaKernel /\ aCPU[vidaKernel] \in Seq(DelKernel)
            BY <1>1, <1>2, <2>c DEF VivoKernel, TipoSocket
        <3>2. Basura \notin DelKernel
            BY DEF Basura, DelKernel
        <3>3. aCPU[vidaKernel] # <<>>
            BY <2>b, <2>c, <3>1 DEF Encuentra
        <3>4. m = Head(aCPU[vidaKernel])
            BY <2>b, <3>1, <3>3 DEF Encuentra
        <3> QED BY <3>1, <3>2, <3>3, <3>4
    <2>d. VivoKernel(cliente)' <=> VivoKernel(cliente)
        BY <2>a DEF VivoKernel
    <2>e. pcKernel # "apagado" /\ ~VivoKernel(cliente) => cliente # vidaKernel
        BY <1>1 DEF VivoKernel, Vidas, Nadie
    <2>f. pcKernel # "apagado" /\ cliente # vidaKernel => aCPU'[vidaKernel] = aCPU[vidaKernel]
        BY <1>1, <1>2, <2>a DEF TipoSocket
    <2>g. VivaCPU(servidor)' <=> VivaCPU(servidor)
        BY <2>a DEF VivaCPU
    <2>0. /\ pcKernel' # "apagado" => vidaKernel' \in Vidas
          /\ pcCPU' # "apagada" => vidaCPU' \in Vidas
        BY <1>1, <2>a DEF SinPrimero
    <2>1. Vidas_Inv'
        BY <1>1, <1>2, <1>3, <2>a DEF Red_Inv, Vidas_Inv, SinPrimero
    <2>2. CPU_Inv'
        <3>1. basuraCPU' => ~VivoKernel(cliente)'
            <4>1. basuraCPU => ~VivoKernel(cliente)
                BY <1>1 DEF Red_Inv, CPU_Inv
            <4> QED BY <2>b, <2>c, <2>d, <4>1, Zenon
        <3> QED BY <2>a, <3>1 DEF CPU_Inv
    <2>3. Conexion_Inv'
        BY <1>1, <1>2, <1>3, <2>a DEF Red_Inv, Conexion_Inv, VivaCPU, Nadie, Esta, SinPrimero
    <2>4. Pregunta_Inv'
        BY <1>1, <1>2, <1>3, <2>a DEF Red_Inv, Pregunta_Inv, SinPrimero
    <2>5. Respuesta_Inv'
        <3>1. SUFFICES ASSUME pcKernel = "esperarSaludo" PROVE Respuesta_Inv'
            BY <2>a DEF Respuesta_Inv
        <3>2. VivaCPU(servidor) <=> Esta(vidaKernel, pendientes) \/ cliente = vidaKernel
            BY <1>1, <3>1 DEF Red_Inv, Conexion_Inv
        <3>3. cliente # vidaKernel
            BY <1>1, <2>a, <2>c, <2>e, <3>1, <3>2 DEF Red_Inv, Respuesta_Inv
        <3> QED BY <1>1, <2>a, <2>f, <2>g, <3>1, <3>3 DEF Red_Inv, Respuesta_Inv
    <2>6. Servicio_Inv'
        BY <1>1, <1>2, <1>3, <2>a DEF Red_Inv, Servicio_Inv, VivaCPU, Nadie, SinPrimero
    <2>7. Basura_Inv'
        BY <1>1, <1>2, <1>3, <2>a DEF Red_Inv, Basura_Inv, VivaCPU, Nadie, SinPrimero
    <2>8. Apagado_Inv'
        BY <1>1, <1>11 DEF Red_Inv, Apagado_Inv, RecibirDelKernel
    <2> QED BY <2>0, <2>1, <2>2, <2>3, <2>4, <2>5, <2>6, <2>7, <2>8 DEF Red_Inv
<1>12. CASE ResponderAlKernel
    <2>a. /\ pcCPU = "responder" /\ pcCPU' = "recibir" /\ EnviarAlKernel("PCB")
          /\ UNCHANGED <<pcKernel, vidaKernel, servidor, resultado, basura, vidaCPU, pendientes, cliente, basuraCPU, aCPU>>
        BY <1>12 DEF ResponderAlKernel
    <2>b. ASSUME VivoKernel(cliente)
          PROVE  pcKernel \in {"planificar", "despachar", "esperarPCB", "detenido"}
        <3>1. cliente = vidaKernel /\ pcKernel # "apagado"
            BY <2>b DEF VivoKernel
        <3>2. pcKernel \notin {"iniciar", "conectar", "saludar"}
            BY <1>1, <2>a, <3>1 DEF Red_Inv, Conexion_Inv, Pregunta_Inv
        <3>3. VivaCPU(servidor)
            BY <1>1, <3>1, <3>2 DEF Red_Inv, Conexion_Inv
        <3>4. pcKernel # "esperarSaludo"
            BY <1>1, <2>a, <3>1, <3>3 DEF Red_Inv, Respuesta_Inv
        <3> QED BY <1>2, <3>1, <3>2, <3>4 DEF TipoKernel
    <2>c. ~VivoKernel(cliente) => UNCHANGED aKernel
        BY <2>a DEF EnviarAlKernel
    <2>d. pcKernel # "apagado" /\ ~VivoKernel(cliente) => cliente # vidaKernel
        BY <1>1 DEF VivoKernel, Vidas, Nadie
    <2>e. VivaCPU(servidor)' <=> VivaCPU(servidor)
        BY <2>a DEF VivaCPU
    <2>0. /\ pcKernel' # "apagado" => vidaKernel' \in Vidas
          /\ pcCPU' # "apagada" => vidaCPU' \in Vidas
        BY <1>1, <2>a DEF EnviarAlKernel
    <2>1. Vidas_Inv'
        BY <1>1, <1>2, <1>3, <2>a DEF Red_Inv, Vidas_Inv, EnviarAlKernel
    <2>2. CPU_Inv'
        BY <1>1, <1>2, <1>3, <2>a DEF Red_Inv, CPU_Inv, VivoKernel, Nadie, EnviarAlKernel
    <2>3. Conexion_Inv'
        BY <1>1, <2>a, <2>e DEF Red_Inv, Conexion_Inv, Esta
    <2>4. Pregunta_Inv'
        BY <1>1, <2>a, <2>b, <2>c, <2>d DEF Red_Inv, Pregunta_Inv
    <2>5. Respuesta_Inv'
        BY <1>1, <2>a, <2>b, <2>c, <2>d, <2>e DEF Red_Inv, Respuesta_Inv
    <2>6. Servicio_Inv'
        BY <1>1, <1>2, <1>3, <2>a DEF Red_Inv, Servicio_Inv, VivaCPU, Nadie, EnviarAlKernel
    <2>7. Basura_Inv'
        BY <1>1, <1>2, <1>3, <2>a DEF Red_Inv, Basura_Inv, VivaCPU, Nadie, EnviarAlKernel
    <2>8. Apagado_Inv'
        BY <1>1, <1>12 DEF Red_Inv, Apagado_Inv, ResponderAlKernel, EnviarAlKernel, VivoKernel
    <2> QED BY <2>0, <2>1, <2>2, <2>3, <2>4, <2>5, <2>6, <2>7, <2>8 DEF Red_Inv
<1>13. CASE MatarCPU
    <2>a. /\ pcCPU' = "apagada" /\ pendientes' = <<>> /\ cliente' = Nadie
          /\ aCPU' = [k \in Vidas |-> <<>>]
          /\ UNCHANGED <<pcKernel, vidaKernel, servidor, resultado, basura, vidaCPU, aKernel>>
        BY <1>13 DEF MatarCPU, MuereCPU
    <2>d. ~basuraCPU'
        BY <1>13, Zenon DEF MatarCPU, MuereCPU
    <2>b. ~VivoKernel(cliente)' /\ ~VivaCPU(servidor)' /\ ~Esta(vidaKernel, pendientes)'
        BY <2>a DEF VivoKernel, VivaCPU, Esta, Nadie
    <2>c. pcKernel' # "apagado" => cliente' # vidaKernel'
        BY <1>0, <2>a
    <2>0. /\ pcKernel' # "apagado" => vidaKernel' \in Vidas
          /\ pcCPU' # "apagada" => vidaCPU' \in Vidas
        BY <1>1, <2>a
    <2>1. Vidas_Inv'
        BY <1>1, <1>3, <2>a DEF Red_Inv, Vidas_Inv, Nadie
    <2>2. CPU_Inv'
        BY <2>a, <2>d, Zenon DEF CPU_Inv
    <2>3. Conexion_Inv'
        BY <1>1, <2>a, <2>b, <2>c DEF Red_Inv, Conexion_Inv
    <2>4. Pregunta_Inv'
        BY <1>1, <2>a, <2>c DEF Red_Inv, Pregunta_Inv
    <2>5. Respuesta_Inv'
        BY <1>1, <2>a, <2>b, <2>c DEF Red_Inv, Respuesta_Inv
    <2>6. Servicio_Inv'
        BY <1>1, <1>2, <1>3, <2>a DEF Red_Inv, Servicio_Inv, VivaCPU, Nadie
    <2>7. Basura_Inv'
        BY <1>1, <1>2, <1>3, <2>a DEF Red_Inv, Basura_Inv, VivaCPU, Nadie
    <2>8. Apagado_Inv'
        BY <1>1, <1>13 DEF Red_Inv, Apagado_Inv, MatarCPU, MuereCPU
    <2> QED BY <2>0, <2>1, <2>2, <2>3, <2>4, <2>5, <2>6, <2>7, <2>8 DEF Red_Inv
<1>14. CASE IniciarKernel
    <2>0. /\ pcKernel' # "apagado" => vidaKernel' \in Vidas
          /\ pcCPU' # "apagada" => vidaCPU' \in Vidas
        BY <1>1, <1>14 DEF IniciarKernel
    <2>1. Vidas_Inv'
        BY <1>1, <1>2, <1>3, <1>14 DEF Red_Inv, Vidas_Inv, IniciarKernel
    <2>2. CPU_Inv'
        BY <1>1, <1>2, <1>3, <1>14 DEF Red_Inv, CPU_Inv, VivoKernel, Nadie, IniciarKernel
    <2>3. Conexion_Inv'
        BY <1>1, <1>2, <1>3, <1>14 DEF Red_Inv, Conexion_Inv, VivaCPU, Nadie, Esta, IniciarKernel
    <2>4. Pregunta_Inv'
        BY <1>1, <1>2, <1>3, <1>14 DEF Red_Inv, Pregunta_Inv, IniciarKernel
    <2>5. Respuesta_Inv'
        BY <1>1, <1>2, <1>3, <1>14 DEF Red_Inv, Respuesta_Inv, VivaCPU, Nadie, IniciarKernel
    <2>6. Servicio_Inv'
        BY <1>1, <1>2, <1>3, <1>14 DEF Red_Inv, Servicio_Inv, VivaCPU, Nadie, IniciarKernel
    <2>7. Basura_Inv'
        BY <1>1, <1>2, <1>3, <1>14 DEF Red_Inv, Basura_Inv, VivaCPU, Nadie, IniciarKernel
    <2>8. Apagado_Inv'
        BY <1>1, <1>14 DEF Red_Inv, Apagado_Inv, IniciarKernel
    <2> QED BY <2>0, <2>1, <2>2, <2>3, <2>4, <2>5, <2>6, <2>7, <2>8 DEF Red_Inv
<1>15. CASE ConectarDispatch
    <2>a. /\ pcKernel = "conectar" /\ pcKernel' = "saludar"
          /\ UNCHANGED <<vidaKernel, resultado, basura, pcCPU, vidaCPU, cliente, basuraCPU, aKernel, aCPU>>
        BY <1>15 DEF ConectarDispatch
    <2>b. \/ Escucha /\ servidor' = vidaCPU /\ pendientes' = Append(pendientes, vidaKernel)
          \/ ~Escucha /\ servidor' = Nadie /\ UNCHANGED pendientes
        BY <1>15 DEF ConectarDispatch
    <2>c. pendientes \in Seq(Nat) /\ vidaKernel \in Vidas
        BY <1>1, <1>2, <2>a DEF TipoCPU, Vidas
    <2>d. ~basura /\ ~Esta(vidaKernel, pendientes) /\ cliente # vidaKernel
        BY <1>1, <2>a DEF Red_Inv, Basura_Inv, Conexion_Inv
    <2>0. /\ pcKernel' # "apagado" => vidaKernel' \in Vidas
          /\ pcCPU' # "apagada" => vidaCPU' \in Vidas
        BY <1>1, <2>a, <2>c
    <2>1. Vidas_Inv'
        <3>1. \A i \in 1..Len(pendientes') : pendientes'[i] <= vidaKernel
            <4>1. \A i \in 1..Len(pendientes) : pendientes[i] <= vidaKernel
                BY <1>1 DEF Red_Inv, Vidas_Inv
            <4> QED BY <1>3, <2>b, <2>c, <4>1
        <3> QED BY <1>1, <1>3, <2>a, <2>b, <3>1 DEF Red_Inv, Vidas_Inv, Nadie
    <2>2. CPU_Inv'
        BY <1>1, <2>a, <2>b DEF Red_Inv, CPU_Inv, VivoKernel, Escucha
    <2>3. Conexion_Inv'
        <3>1. CASE Escucha
            <4>1. Esta(vidaKernel, Append(pendientes, vidaKernel))
                BY <1>3, <2>c, EstaEnCola
            <4>2. Esta(vidaKernel, pendientes)'
                BY <2>a, <2>b, <3>1, <4>1 DEF Esta
            <4>3. VivaCPU(servidor)'
                BY <1>1, <2>a, <2>b, <3>1 DEF Red_Inv, VivaCPU, Escucha, Vidas, Nadie
            <4> QED BY <2>a, <4>2, <4>3 DEF Conexion_Inv
        <3>2. CASE ~Escucha
            <4>1. ~VivaCPU(servidor)'
                BY <2>b, <3>2 DEF VivaCPU
            <4>2. ~Esta(vidaKernel, pendientes)'
                BY <2>a, <2>b, <2>d, <3>2 DEF Esta
            <4> QED BY <2>a, <2>d, <4>1, <4>2 DEF Conexion_Inv
        <3> QED BY <3>1, <3>2
    <2>4. Pregunta_Inv'
        BY <1>1, <1>2, <1>3, <2>a, <2>b DEF Red_Inv, Pregunta_Inv, Escucha
    <2>5. Respuesta_Inv'
        BY <1>1, <1>2, <1>3, <2>a, <2>b DEF Red_Inv, Respuesta_Inv, VivaCPU, Nadie, Escucha
    <2>6. Servicio_Inv'
        BY <1>1, <1>2, <1>3, <2>a, <2>b DEF Red_Inv, Servicio_Inv, VivaCPU, Nadie, Escucha
    <2>7. Basura_Inv'
        BY <2>a, <2>d DEF Basura_Inv
    <2>8. Apagado_Inv'
        BY <1>1, <1>15 DEF Red_Inv, Apagado_Inv, ConectarDispatch
    <2> QED BY <2>0, <2>1, <2>2, <2>3, <2>4, <2>5, <2>6, <2>7, <2>8 DEF Red_Inv
<1>16. CASE SaludarCPU
    <2>a. /\ pcKernel = "saludar" /\ pcKernel' = "esperarSaludo"
          /\ UNCHANGED <<vidaKernel, servidor, resultado, basura, aKernel, pcCPU, vidaCPU,
                         pendientes, cliente, basuraCPU>>
        BY <1>16 DEF SaludarCPU
    <2>b. \/ VivaCPU(servidor) /\ aCPU' = [aCPU EXCEPT ![vidaKernel] = Append(@, "KERNEL")]
          \/ ~VivaCPU(servidor) /\ UNCHANGED aCPU
        BY <1>16 DEF SaludarCPU, EnviarAlCPU
    <2>c. vidaKernel \in Vidas
        BY <1>1, <2>a
    <2>d. VivaCPU(servidor)' <=> VivaCPU(servidor)
        BY <2>a DEF VivaCPU
    <2>0. /\ pcKernel' # "apagado" => vidaKernel' \in Vidas
          /\ pcCPU' # "apagada" => vidaCPU' \in Vidas
        BY <1>1, <2>a, <2>c
    <2>1. Vidas_Inv'
        <3>1. \A k \in Vidas : k > vidaKernel => aCPU'[k] = aCPU[k]
            <4>1. \A k \in Vidas : k > vidaKernel => k # vidaKernel
                BY <1>1, <1>3 DEF Vidas
            <4>2. aCPU \in [Vidas -> Seq(DelKernel)]
                BY <1>2 DEF TipoSocket
            <4> QED BY <2>b, <4>1, <4>2
        <3> QED BY <1>1, <2>a, <3>1 DEF Red_Inv, Vidas_Inv
    <2>2. CPU_Inv'
        BY <1>1, <1>2, <1>3, <2>a, <2>b DEF Red_Inv, CPU_Inv, VivoKernel, Nadie
    <2>3. Conexion_Inv'
        BY <1>1, <1>2, <1>3, <2>a, <2>b DEF Red_Inv, Conexion_Inv, VivaCPU, Nadie, Esta
    <2>4. Pregunta_Inv'
        BY <1>1, <1>2, <1>3, <2>a, <2>b DEF Red_Inv, Pregunta_Inv
    <2>5. Respuesta_Inv'
        <3>1. aKernel = <<>> /\ aCPU[vidaKernel] = <<>> /\ (cliente = vidaKernel => pcCPU = "saludar")
            BY <1>1, <2>a DEF Red_Inv, Pregunta_Inv
        <3>2. VivaCPU(servidor) => aCPU'[vidaKernel] = <<"KERNEL">>
            BY <1>2, <2>b, <2>c, <3>1 DEF TipoSocket
        <3> QED BY <2>a, <2>d, <3>1, <3>2 DEF Respuesta_Inv
    <2>6. Servicio_Inv'
        BY <1>1, <1>2, <1>3, <2>a, <2>b DEF Red_Inv, Servicio_Inv, VivaCPU, Nadie
    <2>7. Basura_Inv'
        BY <1>1, <1>2, <1>3, <2>a, <2>b DEF Red_Inv, Basura_Inv, VivaCPU, Nadie
    <2>8. Apagado_Inv'
        BY <1>1, <1>16 DEF Red_Inv, Apagado_Inv, SaludarCPU
    <2> QED BY <2>0, <2>1, <2>2, <2>3, <2>4, <2>5, <2>6, <2>7, <2>8 DEF Red_Inv
<1>17. CASE RecibirSaludo
    <2>a. /\ pcKernel = "esperarSaludo" /\ pcKernel' = "planificar"
          /\ UNCHANGED <<vidaKernel, servidor, basura, pcCPU, vidaCPU, pendientes, cliente, basuraCPU, aCPU>>
        BY <1>17 DEF RecibirSaludo
    <2>b. PICK r \in Encuentra(aKernel, VivaCPU(servidor)) : resultado' = IF r = Basura THEN "ERROR" ELSE r
        BY <1>17 DEF RecibirSaludo
    <2>d. VivaCPU(servidor)' <=> VivaCPU(servidor)
        BY <2>a DEF VivaCPU
    <2>0. /\ pcKernel' # "apagado" => vidaKernel' \in Vidas
          /\ pcCPU' # "apagada" => vidaCPU' \in Vidas
        BY <1>1, <2>a
    <2>1. Vidas_Inv'
        BY <1>1, <1>2, <1>3, <2>a DEF Red_Inv, Vidas_Inv
    <2>2. CPU_Inv'
        BY <1>1, <1>2, <1>3, <2>a DEF Red_Inv, CPU_Inv, VivoKernel, Nadie
    <2>3. Conexion_Inv'
        BY <1>1, <1>2, <1>3, <2>a DEF Red_Inv, Conexion_Inv, VivaCPU, Nadie, Esta
    <2>4. Pregunta_Inv'
        BY <1>1, <1>2, <1>3, <2>a DEF Red_Inv, Pregunta_Inv
    <2>5. Respuesta_Inv'
        BY <1>1, <1>2, <1>3, <2>a DEF Red_Inv, Respuesta_Inv, VivaCPU, Nadie
    <2>6. Servicio_Inv'
        <3>1. SUFFICES ASSUME VivaCPU(servidor)
                       PROVE  resultado' = "OK" /\ cliente = vidaKernel /\ pcCPU = "recibir"
            BY <2>a, <2>d DEF Servicio_Inv
        <3>2. aKernel # <<>> /\ r = Head(aKernel)
            BY <2>b, <3>1 DEF Encuentra
        <3>3. aKernel = <<"OK">> /\ cliente = vidaKernel /\ pcCPU = "recibir"
            BY <1>1, <2>a, <3>1, <3>2 DEF Red_Inv, Respuesta_Inv
        <3> QED BY <2>b, <3>2, <3>3 DEF Basura
    <2>7. Basura_Inv'
        BY <1>1, <1>2, <1>3, <2>a DEF Red_Inv, Basura_Inv, VivaCPU, Nadie
    <2>8. Apagado_Inv'
        BY <1>1, <1>17 DEF Red_Inv, Apagado_Inv, RecibirSaludo
    <2> QED BY <2>0, <2>1, <2>2, <2>3, <2>4, <2>5, <2>6, <2>7, <2>8 DEF Red_Inv
<1>18. CASE IniciarPlanificadores
    <2>0. /\ pcKernel' # "apagado" => vidaKernel' \in Vidas
          /\ pcCPU' # "apagada" => vidaCPU' \in Vidas
        BY <1>1, <1>18 DEF IniciarPlanificadores
    <2>1. Vidas_Inv'
        BY <1>1, <1>2, <1>3, <1>18 DEF Red_Inv, Vidas_Inv, IniciarPlanificadores
    <2>2. CPU_Inv'
        BY <1>1, <1>2, <1>3, <1>18 DEF Red_Inv, CPU_Inv, VivoKernel, Nadie, IniciarPlanificadores
    <2>3. Conexion_Inv'
        BY <1>1, <1>2, <1>3, <1>18 DEF Red_Inv, Conexion_Inv, VivaCPU, Nadie, Esta, IniciarPlanificadores
    <2>4. Pregunta_Inv'
        BY <1>1, <1>2, <1>3, <1>18 DEF Red_Inv, Pregunta_Inv, IniciarPlanificadores
    <2>5. Respuesta_Inv'
        BY <1>1, <1>2, <1>3, <1>18 DEF Red_Inv, Respuesta_Inv, VivaCPU, Nadie, IniciarPlanificadores
    <2>6. Servicio_Inv'
        BY <1>1, <1>2, <1>3, <1>18 DEF Red_Inv, Servicio_Inv, VivaCPU, Nadie, IniciarPlanificadores
    <2>7. Basura_Inv'
        BY <1>1, <1>2, <1>3, <1>18 DEF Red_Inv, Basura_Inv, VivaCPU, Nadie, IniciarPlanificadores
    <2>8. Apagado_Inv'
        BY <1>1, <1>18 DEF Red_Inv, Apagado_Inv, IniciarPlanificadores
    <2> QED BY <2>0, <2>1, <2>2, <2>3, <2>4, <2>5, <2>6, <2>7, <2>8 DEF Red_Inv
<1>19. ASSUME NEW c \in Consolas, Despachar(c) PROVE Red_Inv'
    <2>a. /\ pcKernel = "despachar" /\ pcKernel' \in {"esperarPCB", "detenido"}
          /\ UNCHANGED <<vidaKernel, servidor, resultado, basura, aKernel, pcCPU, vidaCPU,
                         pendientes, cliente, basuraCPU>>
        BY <1>19 DEF Despachar, TrasDespachar
    <2>b. \/ VivaCPU(servidor) /\ aCPU' = [aCPU EXCEPT ![vidaKernel] = Append(@, "PCB")]
          \/ ~VivaCPU(servidor) /\ UNCHANGED aCPU
        BY <1>19 DEF Despachar, EnviarAlCPU
    <2>c. vidaKernel \in Vidas
        BY <1>1, <2>a
    <2>d. VivaCPU(servidor)' <=> VivaCPU(servidor)
        BY <2>a DEF VivaCPU
    <2>0. /\ pcKernel' # "apagado" => vidaKernel' \in Vidas
          /\ pcCPU' # "apagada" => vidaCPU' \in Vidas
        BY <1>1, <2>a, <2>c
    <2>1. Vidas_Inv'
        <3>1. \A k \in Vidas : k > vidaKernel => aCPU'[k] = aCPU[k]
            <4>1. \A k \in Vidas : k > vidaKernel => k # vidaKernel
                BY <1>1, <1>3 DEF Vidas
            <4>2. aCPU \in [Vidas -> Seq(DelKernel)]
                BY <1>2 DEF TipoSocket
            <4> QED BY <2>b, <4>1, <4>2
        <3> QED BY <1>1, <2>a, <3>1 DEF Red_Inv, Vidas_Inv
    <2>2. CPU_Inv'
        BY <1>1, <1>2, <1>3, <2>a, <2>b DEF Red_Inv, CPU_Inv, VivoKernel, Nadie
    <2>3. Conexion_Inv'
        BY <1>1, <1>2, <1>3, <2>a, <2>b DEF Red_Inv, Conexion_Inv, VivaCPU, Nadie, Esta
    <2>4. Pregunta_Inv'
        BY <1>1, <1>2, <1>3, <2>a, <2>b DEF Red_Inv, Pregunta_Inv
    <2>5. Respuesta_Inv'
        BY <1>1, <1>2, <1>3, <2>a, <2>b DEF Red_Inv, Respuesta_Inv, VivaCPU, Nadie
    <2>6. Servicio_Inv'
        BY <1>1, <1>2, <1>3, <2>a, <2>b DEF Red_Inv, Servicio_Inv, VivaCPU, Nadie
    <2>7. Basura_Inv'
        BY <1>1, <1>2, <1>3, <2>a, <2>b DEF Red_Inv, Basura_Inv, VivaCPU, Nadie
    <2>8. Apagado_Inv'
        BY <2>a DEF Apagado_Inv
    <2> QED BY <2>0, <2>1, <2>2, <2>3, <2>4, <2>5, <2>6, <2>7, <2>8 DEF Red_Inv
<1>20. CASE RecibirPCB
    <2>a. /\ pcKernel = "esperarPCB" /\ pcKernel' = "despachar"
          /\ UNCHANGED <<vidaKernel, servidor, resultado, pcCPU, vidaCPU, pendientes, cliente, basuraCPU, aCPU>>
        BY <1>20 DEF RecibirPCB
    <2>b. PICK m \in Encuentra(aKernel, VivaCPU(servidor)) : basura' = (basura \/ m = Basura)
        BY <1>20 DEF RecibirPCB
    <2>c. m = Basura => ~VivaCPU(servidor)
        <3>1. Basura \notin DelCPU /\ aKernel \in Seq(DelCPU)
            BY <1>2 DEF Basura, DelCPU, TipoSocket
        <3>2. ASSUME aKernel # <<>> PROVE m # Basura
            BY <2>b, <3>1, <3>2 DEF Encuentra
        <3>3. ASSUME aKernel = <<>>, VivaCPU(servidor) PROVE FALSE
            BY <2>b, <3>3 DEF Encuentra
        <3> QED BY <3>2, <3>3
    <2>d. VivaCPU(servidor)' <=> VivaCPU(servidor)
        BY <2>a DEF VivaCPU
    <2>0. /\ pcKernel' # "apagado" => vidaKernel' \in Vidas
          /\ pcCPU' # "apagada" => vidaCPU' \in Vidas
        BY <1>1, <2>a
    <2>1. Vidas_Inv'
        BY <1>1, <1>2, <1>3, <2>a DEF Red_Inv, Vidas_Inv
    <2>2. CPU_Inv'
        BY <1>1, <1>2, <1>3, <2>a DEF Red_Inv, CPU_Inv, VivoKernel, Nadie
    <2>3. Conexion_Inv'
        BY <1>1, <1>2, <1>3, <2>a DEF Red_Inv, Conexion_Inv, VivaCPU, Nadie, Esta
    <2>4. Pregunta_Inv'
        BY <1>1, <1>2, <1>3, <2>a DEF Red_Inv, Pregunta_Inv
    <2>5. Respuesta_Inv'
        BY <1>1, <1>2, <1>3, <2>a DEF Red_Inv, Respuesta_Inv, VivaCPU, Nadie
    <2>6. Servicio_Inv'
        BY <1>1, <1>2, <1>3, <2>a DEF Red_Inv, Servicio_Inv, VivaCPU, Nadie
    <2>7. Basura_Inv'
        <3>1. basura => ~VivaCPU(servidor)
            BY <1>1 DEF Red_Inv, Basura_Inv
        <3>2. basura' => ~VivaCPU(servidor)'
            BY <2>b, <2>c, <2>d, <3>1, Zenon
        <3> QED BY <2>a, <3>2 DEF Basura_Inv
    <2>8. Apagado_Inv'
        BY <1>1, <1>20 DEF Red_Inv, Apagado_Inv, RecibirPCB
    <2> QED BY <2>0, <2>1, <2>2, <2>3, <2>4, <2>5, <2>6, <2>7, <2>8 DEF Red_Inv
<1>21. CASE MatarKernel
    <2>0. /\ pcKernel' # "apagado" => vidaKernel' \in Vidas
          /\ pcCPU' # "apagada" => vidaCPU' \in Vidas
        BY <1>1, <1>21 DEF MatarKernel, MuereKernel
    <2>1. Vidas_Inv'
        BY <1>1, <1>2, <1>3, <1>21 DEF Red_Inv, Vidas_Inv, MatarKernel, MuereKernel, Nadie
    <2>2. CPU_Inv'
        BY <1>1, <1>2, <1>3, <1>21 DEF Red_Inv, CPU_Inv, VivoKernel, Nadie, MatarKernel, MuereKernel
    <2>3. Conexion_Inv'
        BY <1>1, <1>2, <1>3, <1>21 DEF Red_Inv, Conexion_Inv, VivaCPU, Nadie, Esta, MatarKernel, MuereKernel
    <2>4. Pregunta_Inv'
        BY <1>1, <1>2, <1>3, <1>21 DEF Red_Inv, Pregunta_Inv, MatarKernel, MuereKernel
    <2>5. Respuesta_Inv'
        BY <1>1, <1>2, <1>3, <1>21 DEF Red_Inv, Respuesta_Inv, VivaCPU, Nadie, MatarKernel, MuereKernel
    <2>6. Servicio_Inv'
        BY <1>1, <1>2, <1>3, <1>21 DEF Red_Inv, Servicio_Inv, VivaCPU, Nadie, MatarKernel, MuereKernel
    <2>7. Basura_Inv'
        BY <1>1, <1>2, <1>3, <1>21 DEF Red_Inv, Basura_Inv, VivaCPU, Nadie, MatarKernel, MuereKernel
    <2>8. Apagado_Inv'
        BY <1>21 DEF Apagado_Inv, MatarKernel, MuereKernel
    <2> QED BY <2>0, <2>1, <2>2, <2>3, <2>4, <2>5, <2>6, <2>7, <2>8 DEF Red_Inv
<1>22. CASE AceptarConsola
    BY <1>22, SinNucleo DEF nucleo, AceptarConsola
<1>23. ASSUME NEW c \in Consolas, Conectar(c) PROVE Red_Inv'
    BY <1>23, SinNucleo DEF nucleo, Conectar
<1>24. ASSUME NEW c \in Consolas, SaludarKernel(c) PROVE Red_Inv'
    BY <1>24, SinNucleo DEF nucleo, SaludarKernel
<1>25. ASSUME NEW c \in Consolas, EsperarSaludo(c) PROVE Red_Inv'
    BY <1>25, SinNucleo DEF nucleo, EsperarSaludo
<1>26. ASSUME NEW c \in Consolas, EnviarPrograma(c) PROVE Red_Inv'
    BY <1>26, SinNucleo DEF nucleo, EnviarPrograma
<1>27. ASSUME NEW c \in Consolas, AtenderConsola(c) PROVE Red_Inv'
    BY <1>27, SinNucleo DEF nucleo, AtenderConsola
<1>28. ASSUME NEW c \in Consolas, CrearProceso(c) PROVE Red_Inv'
    BY <1>28, SinNucleo DEF nucleo, CrearProceso
<1>29. CASE PlanificadorLargoPlazo
    BY <1>29, SinNucleo DEF nucleo, PlanificadorLargoPlazo
<1> QED
    BY <1>4, <1>5, <1>6, <1>7, <1>8, <1>9, <1>10, <1>11,
       <1>12, <1>13, <1>14, <1>15, <1>16, <1>17, <1>18, <1>19,
       <1>20, <1>21, <1>22, <1>23, <1>24, <1>25, <1>26, <1>27,
       <1>28, <1>29
    DEF Next, SiguienteCPU, SiguienteKernel, SiguienteHilo, SiguienteConsola, Operador

-----------------------------------------------------------------------------
(* For every number of consoles and of lives *)

\* Every step keeps the invariant.
LEMMA InvPaso == IInv /\ [Next]_vars => IInv'
<1>1. CASE Next
    BY <1>1, TipoPaso, RedPaso DEF IInv
<1>2. CASE UNCHANGED vars
    <2>1. UNCHANGED <<nucleo, kernel, procesos, cpu, socket, consolas, hilos>>
        BY <1>2 DEF vars, kernel, procesos, cpu, socket, consolas, hilos, nucleo
    <2>2. IInv => TipoKernel' /\ TipoProcesos' /\ TipoCPU'
        BY <2>1 DEF IInv, TypeOK, TipoKernel, TipoProcesos, TipoCPU, kernel, procesos, admision,
           despacho, cpu
    <2>3. IInv => TipoSocket' /\ TipoConsolas' /\ TipoHilos'
        BY <2>1 DEF IInv, TypeOK, TipoSocket, TipoConsolas, TipoHilos, socket, consolas, hilos
    <2>4. IInv => TipoSiNo'
        BY <2>1, Zenon DEF IInv, TypeOK, TipoSiNo, kernel, cpu, hilos
    <2> QED BY <2>1, <2>2, <2>3, <2>4, SinNucleo DEF IInv, TypeOK
<1> QED BY <1>1, <1>2

\* The invariant that the theorems below rest on.
THEOREM InvSiempre == Spec => []IInv
BY InvInicial, InvPaso, PTL DEF Spec

\* What main of Kernel and of CPU leave on their connection is of the types the
\* other side reads: the kernel never takes a PCB for the answer to its handshake.
THEOREM TipoCorrectoArranque == Spec => []TypeOK
<1>1. IInv => TypeOK
    BY DEF IInv
<1> QED BY <1>1, InvSiempre, PTL

\* deserializarPCB builds a PCB of uninitialized memory only when the process at
\* the other end is gone, however often kernel and CPU are started.
THEOREM SinBasuraSiempre == Spec => []SinBasura
<1>1. IInv => SinBasura
    BY DEF IInv, Red_Inv, CPU_Inv, Basura_Inv, SinBasura
<1> QED BY <1>1, InvSiempre, PTL

\* A kernel that schedules with a living CPU is the one that CPU accepted and
\* answered OK, although handshakeCliente's result is never looked at.
THEOREM SaludoFielSiempre == Spec => []SaludoFiel
<1>1. IInv => SaludoFiel
    BY DEF IInv, Red_Inv, Servicio_Inv, SaludoFiel, Planificando
<1> QED BY <1>1, InvSiempre, PTL
====
