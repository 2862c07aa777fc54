# 100porcientofe: verification project

TLA+ models of the operating-system simulator of this repository, the TLC runs
that check them on small instances and the TLAPS proofs about them. Everything
is written from the C sources under `src/`; names of actions, lists and
semaphores are those of the code (Spanish), so a definition can be found in the
source by searching for its name.

## 1. The system

Four processes, each its own program:

| process | sources | state it keeps | operations | talks to |
|---|---|---|---|---|
| **Consola** | `src/Consola/src/consola.c` | a program (list of lines) and a segment list, both read from files | read, connect, handshake, `enviar_instr`, end | Kernel |
| **Kernel** | `src/Kernel/src/kernel.c`, `kernel_hilos.c` | PCBs; `colaNEW`, `colaREADY`, `colaEXEC`; four semaphores; `contadorIDProcesos`, `contadorProcesosEnMemoria` | one thread per console that makes a PCB; long-term scheduler; short-term scheduler (FIFO, RR or Feedback); quantum counter | Consola, CPU (dispatch), Memoria (connects only) |
| **CPU** | `src/CPU/src/cpu.c` | `pcbActual`, registers | `atender_cliente_dispatch`: receive a PCB, send it back | Kernel |
| **Memoria** | `src/Memoria/src/memoria.c` | none | accepts connections | - |

`src/shared/src/shared_utils.c` is linked into all of them: sockets, handshake,
and the serializers of programs and PCBs.

The kernel's files hold unresolved merge conflicts. The side `d3dc53a` is the
one modelled: it is the only one whose calls exist (`serializarPCB(pcb, socket)`,
`recibirPCB_Dispatch`, `actualizarPCB`), and the log kept in
`src/Kernel/cfg/kernelPlanificadores.log` was written by it (a PCB that comes
back with pid 23, motivo 4, "Disco", 10).

What is hard about it:

* **Concurrency in the kernel.** N + 3 threads share three lists, two counters
  and the PCBs. Every mutex protects one short section, so the mutexes alone
  keep the lists whole; what has to be right is the protocol *between* sections:
  each list is paired with a semaphore, the degree of multiprogramming is read,
  used and updated in different sections, and a PCB is announced to the next
  scheduler before the previous one has finished with it.
* **No check of NULL.** `queue_pop` and `list_get` return NULL on an empty list
  and the next line dereferences it. The kernel is alive only as long as lists
  and semaphores agree.
* **Answers are paired by position.** A PCB that comes back from the CPU
  overwrites the PCB at the head of `colaEXEC`, whichever it is.
* **A stream without messages.** Programs and PCBs cross TCP streams with no
  framing: every `recv` has to ask for exactly the bytes of the field it is
  about. PCBs are read with `MSG_WAITALL`; programs are not, and what is sent of
  a program is the number of bytes reserved, not the number written.
* **Results nobody looks at.** `bind`, `listen`, `connect`, `send`, `recv` and
  the handshake all return a result, and the code at most logs it. What a
  process makes of the end of another is therefore indirect: a lost send, then
  `SIGPIPE`; or a `recv` that leaves a variable as it was.
* **A library that keeps state.** All the console threads cut their segments with
  `strtok`, which has one position for the whole process.
* **Things that must eventually happen.** A process is admitted, dispatched and
  returned; each is a semaphore someone must post.

## 2. Modules

| module | what it is | code |
|---|---|---|
| `Planificador` | the scheduler: console threads from `crearPCB` on, long-term, short-term (a constant chooses the algorithm), quantum counter, and the CPU as an environment that answers in order | `kernel.c`, `kernel_hilos.c` |
| `CicloDeVida` | abstract specification: the life of a process (outside, new, ready, executing, returned), admission in order of arrival under the degree, one execution at a time | - |
| `CpuDispatch` | the CPU's dispatch thread | `cpu.c` |
| `Sistema` | `Planificador` composed with `CpuDispatch` over the socket | both |
| `Flujo` | a PCB as bytes: the four serializers and `deserializarPCB` as a sequence of `recv` | `shared_utils.c` |
| `FlujoDispatch` | kernel and CPU exchanging PCBs byte by byte | `kernel.c`, `cpu.c` |
| `Dispatch` | abstract specification: whole PCBs go and come back | - |
| `Envio` | a program from the console's file to the process the kernel makes: `readFile`, the reserve and the writes of the serializer, what is sent, how the network cuts it, and the kernel's thread that reads it | `consola.c`, `shared_utils.c`, `kernel.c`, `kernel_hilos.c` |
| `Segmentos` | the kernel's threads cutting their segments with one `strtok` | `kernel_hilos.c` |
| `Arranque` | start, stop and restart of Kernel, CPU and consoles: servers, connections, handshakes, what each makes of the end of another | `shared_utils.c` and the `main` of the three |
| `CicloInstruccion` | fetch, decode, execute and the loop around them | `cpu.c` |
| `PlanificadorHallazgos` | what log lines and comments of the kernel say and the code does not do | `kernel.c` |
| `PlanificadorProofs` | the invariants of `Planificador`, proved | - |
| `Feedback` | the refinement mapping from the scheduler called Feedback to the one called FIFO | `kernel.c` |
| `RefinamientoProofs` | `Planificador` implements `CicloDeVida`, Feedback implements FIFO, `Sistema` implements `Planificador`, proved | - |
| `FlujoProofs` | the safety of `FlujoDispatch`, and that it implements `Dispatch`, proved | - |
| `CicloInstruccionProofs` | the safety of `CicloInstruccion`, proved | - |
| `EnvioProofs`, `SegmentosProofs`, `ArranqueProofs` | the safety of those modules, proved | - |
| `Induccion` | lemmas the proofs share: induction over sets of naturals, recursion, `FlattenSeq`, cutting sequences | - |
| `MC*` | model values, symmetry and bounds for TLC | - |

**How the modules fit.** They follow a program through the system: `Arranque`
says when a console reaches a living kernel and a kernel a living CPU; `Envio`
what arrives at the console's thread, and `Segmentos` what that thread makes of
the last string; `Planificador` takes the process from there, and sees the CPU
as something that returns what it gets, in order; `Sistema` puts the CPU's own
loop in that place; `FlujoDispatch` puts bytes under the exchange. Each module
abstracts what the others have: `Arranque` has whole messages, and of the
kernel's scheduling only what decides whether a program is served at all;
`Planificador` has programs that are one value.

### How the state corresponds

`Planificador`: a C variable is a TLA+ variable of the same name. A PCB is
named by the console it was made for: `pcb[p]` is the struct in the heap, and
lists and local pointers (`pcbLP`, `pcbCP`) hold `p`. Of a PCB's fields the
scheduler can tell apart the pid, the state and "its program"; the program is
the name of the console it came from, so a mix-up of two programs is visible.
Each thread has a program counter (`consola[p]`, `pcLP`, `pcCP`, `pcCQ`). A
step is one critical section, one semaphore operation, one write to a shared
PCB, or one send/recv; mutexes protect leaf sections only, and so are the steps
themselves. `kernelCaido` becomes true when a NULL PCB is dereferenced, and
then no thread of the kernel moves again.

What is left out of `Planificador` and why: log lines (except the NULL
dereference inside them); sleeps, which only delay a thread and so are already
among the interleavings; the reason of a return and its operands, on which the
kernel does nothing but log (`FlujoDispatch` reads them); `contadorBloqueados`
and the other semaphores and lists that nothing uses.

`FlujoDispatch`: a byte is a pair: a value and the byte's place in its field, 0
for the last. A chunk that is not all the bytes of one field, and only those,
reads as `Basura`, so being one byte out of step is visible at once. For each direction there are the bytes sent and not delivered
and the bytes delivered and not read; delivering one byte at a time covers
every way of cutting the stream, and a `recv` with `MSG_WAITALL` is enabled
when all its bytes are there. `leidosKernel` and `leidosCPU` are the `recv`s
done so far of the current message: how many bytes the next one asks for is a
function of them (`BytesDelProximo`), which is what the loops of
`deserializarPCB` compute.

`Envio`: bytes are counted and not represented. The message is the sequence of
its fields with the place each was written at; the reserve (`Reserva`) is the
sum the code adds up before it writes; `enviado` is the reserve, whatever was
written. A `recv` gives the field's value when it takes exactly one field, and
otherwise some value an int nobody wrote may hold (`Restos`), or a string nobody
wrote. A string is a piece of a line: where it begins and how long it is, which
is what `fgets` with 30 characters and `strtok` decide. The console may die in
the serializer (`strlen(NULL)`, or the heap after a write past the reserve), the
kernel's thread in `separarSegmentoDeInstrucciones`; both are states.

`Segmentos`: a position is a token of a string, or its final zero. A call of
`strtok` is load, search and write of the zero, store: three steps of one thread,
with the others in between. `solapado[h]` is a history variable: some other
thread was between its first call and its last while `h` was.

`Arranque`: each start of the Kernel or of the CPU is a *life*, numbered, and a
connection is the life that made it. `pendientes` is the backlog of the CPU's
socket: a connect succeeds from the `listen` on, accepted or not, and the CPU
accepts once in its life. A send to a process that ended is lost the first time
and kills the second (`perdidos`); a `recv` from it gives `Basura`. A server
that is started again may fail its `bind`, which nobody looks at, and then
listens where nobody finds it. Every start of the kernel reads a configuration
(`config`): the degree and which of the three schedulers runs. A process goes
through `colaNEW` (`CrearProceso`), is admitted while the degree allows it
(`PlanificadorLargoPlazo`; a wake-up it consumes without room is gone) and is
dispatched (`Despachar`); with RR the short-term thread then waits for the answer
(`RecibirPCB`), with FIFO or Feedback it never moves again (`TrasDespachar`). The
steps are coarser than those of `Planificador`: a turn of the long-term scheduler
is one, and so is a turn of the short-term one up to its `send`. Every PCB of a
kernel ends with it.

`CicloInstruccion`: a line is the sequence of its words, a word is a string
compared whole (case is left out). `instruccion` begins as `SinIniciar`, because
the loop's first test reads a pointer that was not given a value.

## 3. Runs

| run | question | bounds | result |
|---|---|---|---|
| `rr_ciclo` | every safety invariant of the scheduler; does round robin implement `CicloDeVida` with its liveness? | 3 consoles, degree 2, fairness | holds |
| `feedback` | what is left of Feedback: does it implement FIFO, and the safety of `CicloDeVida`? | 3 consoles, degree 3 | holds |
| `sistema_rr` | do kernel and CPU together implement `Planificador`, fairness included? | 2 consoles, degree 2 | holds |
| `flujo_dispatch` | do bytes implement the exchange of whole PCBs, however TCP cuts them? | 3 programs (0 to 2 instructions and segments), the four returns | holds |
| `envio` | which files become the process they describe, and does the kernel's thread end with all of them? | 14 programs of 0 to 4 lines of 0 to 59 characters, with and without a last newline | holds |
| `segmentos` | what do the tables hold when threads share `strtok`? | 3 threads, with 3, 2 and 1 segments | holds |
| `arranque` | does anybody wait for ever, or take garbage from the living, when processes start and stop in any order? | 2 consoles, 2 lives of Kernel and of CPU; each life of the Kernel reads RR with degree 2, RR with degree 1, or FIFO with degree 2 | holds |
| `ciclo_instruccion` | does the cycle do to the registers what the lines say, and end? | 2 PCBs; programs of up to 2 of 12 lines and EXIT; two longer ones; `Tope` = 8, registers of 3 bits | holds |
| `rr_estado` | the PCB marked READY was NEW until then | 2 consoles | refuted |
| `rr_espera_new` | every process leaves NEW | 2 consoles, degree 1 | refuted |
| `envio_perdido` | a process has the instructions its console sent | one line of 3 characters, cut anywhere | refuted |
| `segmentos_cruzados` | each thread's table is its console's | 2 threads, 2 segments each | refuted |

**Why these bounds are enough to be interesting.** In the scheduler's runs, more
consoles than places make all of these happen: two wake-ups pending at once, a
wake-up thrown away, one process ready while another is at the CPU and a third
in NEW. A console makes one process, so the number of consoles bounds every
counter and no other bound is needed. Feedback dispatches once, so three
admissions (degree 3) are what fills its lists. FIFO has no run of its own: its
actions are those of round robin, Feedback is shown to implement it, and the
theorems are about the three. In `flujo_dispatch`
instruction lengths are shorter than, equal to and longer than an int, the
fields have different values, and PCBs go on being exchanged for ever, so a
surplus byte of one message meets the next.

In `envio` the lengths are those around which the code changes what it does: 0
(a line that is only a newline), 11 to 14 (where the 16 bytes reserved for an
instruction stop being enough), 28 to 30 (where `fgets` cuts), 58 and 59 (twice,
and once more). Two short programs are also cut inside their fields; the others
only between them, since cuts inside a field already break the shortest message.
In `segmentos` three threads are what it takes for one to overlap with two
others, one of which was alone before. In `arranque` two lives make a process
meet the former life of another, `MaxVidas` being the only bound, and two
consoles queue on one kernel, where with degree 1 the second may find no room and
with FIFO nothing comes back. In `ciclo_instruccion` the second PCB finds the
registers of the first, and sums pass the width: `Tope`, the number of values of
a register, is 2^32 in the code and 8 here (the theorems are for any).

**The properties**, in the order of the hazards they are for.
Scheduler: `AvisosDeNEW` (the wake-ups pending, wherever they are, never exceed
`colaNEW`, and equal it while there is room), `AvisosDeREADY` (the same for
`semaforoProcesoREADY` and `colaREADY`, exactly), `SinCaida` (hence no NULL),
`GradoRespetado`, `UnSoloEnCPU`, `CadaProcesoEnUnLugar`, `ProgramaConservado`,
`PidsDistintos` (from `crearPCB` until it comes back from the CPU, which writes a
pid of its own, a process has a pid the counter gave and no other such process
has); `SoloRRDevuelve` says that FIFO and Feedback never see a process
return: neither posts `semaforoProcesoEXECUTING` again, so the first process they
dispatch is the last one. `ComoFIFO` is a refinement: with the test of its lists
and its quantum hidden, what Feedback does is what FIFO does, so its second list,
which nothing fills, is never asked for a process. Streams: `CamposEnteros` and `SinSobrantes` (no `recv`
returns parts of two fields, and nothing is left over between messages).

`Envio`: `ProgramaFiel` and `KernelVivo` (a message that fits its reserve and is
delivered in whole fields becomes the console's program, surplus bytes or not),
`ReservaAlcanza` (11 characters per instruction are always enough),
`PCBCabe` (the same question for the buffer the PCB is sent from: what fitted in
the console's reserve may pass the PCB's by 3 bytes, never more),
`RenglonesFieles` (exactly which files are read as one instruction per line),
`SeCrea` and `HiloTermina` (no `recv` waits for ever, even for a truncated or cut
message). `Segmentos`: `TablaSinSolape`, `SinRepetidos`, `Terminan`. `Arranque`:
`SinBasura`, `SaludoFiel`, `ArranqueTermina`, `CPUNoSobrevive`, `ConsolaTermina`,
`ProgramaServido`. The last one is conditional, as the code is: with round robin,
a program that reached a living kernel executes and comes back, unless the kernel
or the CPU ends, or the degree was filled before it and it stays in `colaNEW`
(`SinLugar`); with the other two schedulers nothing is claimed, since no process
comes back from them (`SoloRRDevuelve`). `CicloInstruccion`: `RegistrosFieles`,
`UnaRespuesta` (a program of known instructions with an EXIT is answered at most
once, by its first EXIT and not before; once an instruction was taken the CPU
survives and the answer is sent before the cycle is left; the loop's first test,
which reads a pointer nobody wrote, may instead skip the whole program or kill
the CPU, and then there is no answer and no register changed), `CicloTermina`.

**Fairness.** Weak fairness of each kernel thread (the operating system
schedules them; a `sem_wait` that can proceed does) and of the CPU's loop.
Nothing obliges a console to connect, so `CrearPCB` has none. For the streams:
TCP delivers what was sent, and both ends go on reading. The kernel is not
obliged to dispatch. In `Arranque`: weak fairness of the CPU, of the kernel's
main and short-term scheduler, of the long-term one, of the thread that accepts, of each console's thread and of each console
once it connected; none for whoever starts, stops or connects them, so a property
there may not count on a restart. In `CicloInstruccion`: of the cycle, not of the
arrival of a PCB. No strong fairness is used anywhere: no two threads wait on the
same semaphore.

**Deadlock** is not checked (`CHECK_DEADLOCK FALSE`) in the scheduler's runs,
`arranque` and `ciclo_instruccion`: once every process is served, threads wait
on their semaphores for ever; once everything is stopped and the lives are spent,
nobody has to start anything; a CPU may be dead. It is checked in
`flujo_dispatch`, `envio` and `segmentos` (the last two end in a step of their
own, `Fin`).

**What the refuted runs show** is under "findings" in `PROJECT.json`, with the
lines. In short: the long-term scheduler may overwrite EXEC with READY, since
it announces the PCB before it marks it (`kernel.c:398`, `480`); the place of a
process that came back is not given again, so with a full degree whoever
arrives stays in NEW (`kernel.c:473`, `522` has no caller); a field of a
console's message that arrives in two pieces makes a process of something no
console sent (`kernel.c:327`); and two consoles that arrive together may exchange
segments (`kernel_hilos.c:130`).

**What the models say without a run of its own.** The three schedulers take the
*last* element of `colaREADY` (`kernel.c:407`), also the one called FIFO, and
`SacarREADY` does the same; a console's message that is longer than its reserve is
sent truncated (`Enviar`), and `ProgramaFiel` asks for `Cabe`; lines of 29
characters or more are cut, and `RenglonesFieles` is the exact condition.

## 4. Proofs

Every invariant the runs check is also a theorem, for every value of the
constants, and so is the safety half of each refinement.

### The scheduler

`PlanificadorProofs` and `RefinamientoProofs` prove, for every finite set of
consoles, every degree, each of the three algorithms and every set of pids the
CPU may write:

| theorem | property | argument |
|---|---|---|
| `TipoCorrecto` | `TypeOK` | inductive with `PunterosValidos` |
| `READYExacto`, `NoSePierdenAvisos`, `KernelNoCae` | `AvisosDeREADY`, `AvisosDeNEW`, `SinCaida` | together, as `Turnos` |
| `ExclusionDeCPU` | `UnSoloEnCPU` | from `Exclusion` |
| `ProgramaPropio` | `ProgramaConservado` | with `MensajePropio` |
| `UnLugarPorProceso` | `CadaProcesoEnUnLugar` | with `SoloLlegados` |
| `GradoNuncaExcedido` | `GradoRespetado` | with `CuentaAlDia` |
| `PidsUnicos` | `PidsDistintos` | the counter only grows, and `RecibirPCB`, the one step that writes another pid, writes it on the process that comes back (`PasoDePids`) |
| `CicloImplementado` | `CicloSeguro` | step by step, from `Tipos`, `Turnos`, `Lugares` and `CuentaAlDia` |
| `SoloRRDevuelveSiempre` | `SoloRRDevuelve` | of the steps that implement the life cycle, only `RecibirPCB` returns a process (`PasoSinDevolver`), and `SinRecibir` keeps the other two algorithms away from it |
| `FeedbackComoFIFO` | `ComoFIFO` | step by step, with the test and the quantum hidden (`PasoVisto`) |
| `SistemaImplementado` | `SistemaSeguro` | step by step, with the PCB the CPU holds at the head of what is on its way to it |

The inductive invariant is `Inductivo`, built in layers, each proved from those
before it. `SinCaida` is not inductive: that no list is empty when it is taken
from is known only from the number of tokens, so `AvisosDeREADY` and
`AvisosDeNEW` are carried along; those need to know that the short-term
scheduler is the only one inside (`Exclusion`, which says for each of its
program points what `semaforoProcesoEXECUTING`, `colaEXEC` and the socket
hold). `ProgramaConservado` needs `MensajePropio`: while round robin waits,
whatever is in the socket is the program it dispatched. `GradoRespetado` needs
to count: `CuentaAlDia` says that the counter is one behind the admitted exactly
while the long-term scheduler is admitting, and that the one it is admitting was
checked for; the step that matters, removing the head of `colaNEW`, adds one
element to the set of the admitted because the lists are injective.

`CicloImplementado` is the refinement of `CicloDeVida`, its safety half. Four
steps of the kernel move a process in its life: `AgregarNEW` is the arrival,
`SacarNEW` the admission, `SacarREADY` the execution, `RecibirPCB` the return;
all the others move nobody. The invariants do the work: the phases exclude one
another because no process is in two places (`FasesAparte`); the admission is
within the degree because the counter, read two steps before, still counts the
admitted (`CuentaAlDia`); the execution finds nobody executing because the token
of `semaforoProcesoEXECUTING` says that `colaEXEC` is empty (`Exclusion`).

`FeedbackComoFIFO` needs two invariants beside the steps: the test of Feedback
finds `colaREADY` not empty because `AvisosDeREADY` says that the token just
taken stands for a process in it, and `SinRecibir` says that neither algorithm
reaches the program points FIFO does not have.

`PidsUnicos` is proved from the phases of the life cycle and not from a layer of
its own: who came back does not leave that phase (`NadieVuelveDosVeces`), so the
process that `RecibirPCB` gives the CPU's pid to, which is the one executing, is
out of the property from then on; every other step leaves the pids alone or
gives one the counter.

`SistemaImplementado` is why the other theorems hold of the kernel with the CPU
of this repository: `Sistema` has a CPU that holds the PCB between its `recv` and
its `send`, `Planificador` one that answers what is at the head of the queue. The
PCB in the CPU's hand is put back at that head (`EnCaminoACPU`); the receive is
then no step, and the send is the answer. The theorem is the safety half of
`ImplementaPlanificador`.

The assumptions are those of `Planificador`: the consoles are finitely many, the
degree is a natural number (`atoi` of the configuration), the algorithm is one
of three, the pids of the CPU are integers, and NULL is no process; and, of
`Sistema`, that the pid the CPU writes (23, `cpu.c:369`) is one of those the
environment of `Planificador` may write (`PidConocido`).

### The bytes of a PCB

`FlujoProofs` proves, for any strings, any PCBs with lists of any length, any
reasons and any way the bytes are delivered:

| theorem | property | argument |
|---|---|---|
| `InvarianteDelFlujo` | - | five phases, see below |
| `TipoDelFlujo` | `TypeOK` | from the invariant |
| `CamposSiempreEnteros` | `CamposEnteros` | the same |
| `NuncaSobra` | `SinSobrantes` | the same |
| `FlujoImplementaDispatch` | `DispatchSeguro`, the safety half of `ImplementaDispatch` | each phase seen by `Dispatch` |

A message is a list of fields, each a value and a width (`EsMensaje`). On the
writer's side, `MensajePCB` and `MensajeDevuelta` say which fields `serializarPCB`
and the three serializers of a return write, the loops over the two lists by
induction. On the reader's side, everything rests on one fact: a reader that has
the first fields of a PCB knows the width of the next one, and whether there is
one (`PCBAMedias`, `PCBEntero`; `MotivoAMedias`, `MotivoEntero` for the reason).
That is what `deserializarPCB` computes from the counts and lengths it has read,
and it is where an instruction list, a segment list or a string of some other
length would show. `UnRecv` joins both sides: a `recv` of that width takes that
field.

The invariant `IInv` is a disjunction of five phases: the kernel has nothing in
the CPU (`Libre`), a process goes (`Yendo`), the CPU has it (`Ejecutando`), the
answer returns (`Volviendo`), the kernel has it (`Recibida`). In the two that
move bytes, what was read, what was delivered and what is on its way are together
one message, cut after some number of fields (`Viaja`). Each step stays in its
phase or goes to the next. For the refinement the messages have to be told apart
by their bytes: `PedidoUnico` and `DevueltaUnica` say that serializing loses
nothing, since the fields before each field tell its width (`MismosCampos`).

The assumptions, all of `Flujo` and `FlujoDispatch`: a string is at least its
final zero, programs are PCBs (`ProgramasSonPCBs`), a reason comes with its
operands (`RespuestasSonRetornos`), the pid the CPU writes is a natural, and
`Nulo` is neither a PCB nor an answer.

### From the file to the process, segments, start-up

`EnvioProofs`, `SegmentosProofs` and `ArranqueProofs`:

| theorem | property | argument |
|---|---|---|
| `ProgramaFielSiempre`, `KernelVivoSiempre` | `ProgramaFiel`, `KernelVivo` | for every set of programs, length of the segments and reading of uninitialized ints |
| `ReservaAlcanzaSiempre` | `ReservaAlcanza` | for any number of instructions |
| `TipoDelEnvio` | `TypeOK` | with `TipoInv`, for every cut of the network |
| `RenglonesFielesSiempre` | `RenglonesFieles` | with `LecturaInv`, for every file |
| `PCBCabeSiempre` | `PCBCabe` | by induction over the list of instructions |
| `SinRepetidosSiempre` | `SinRepetidos` | for any number of threads and any strings |
| `TablaSinSolapeSiempre` | `TablaSinSolape` | the same |
| `TipoCorrectoArranque`, `SinBasuraSiempre`, `SaludoFielSiempre` | `TypeOK`, `SinBasura`, `SaludoFiel` | for any number of consoles and of lives |

*Envio.* The invariant `IInv` is only inductive while the network does not cut
inside fields, so what is proved to be preserved is `~Cortes => IInv`. It has the
console (`ConsolaInv`), the shape of its message (`BufferInv`: the fields lie one
after the other up to `escritos`), the network (`RedInv`: what was delivered ends
at the end of a field), and the thread (`EnFase`: it is at the end of a field,
`Leidos` says of which, and holds the values of those before). `RecvExacto` is
the heart of it: a `recv` that asks for the width of the field at its place takes
that field. `ReservaAlcanza` needs another bound, `CotaInv`: with 12 bytes per
string each field written is covered by the terms of the reserve before it; it
holds whatever the network does, being about the console only.

`TipoDelEnvio` holds with cuts inside fields as well: a `recv` takes no more than
was delivered (`RecibidosAcotados`), a length it leaves is one of the message or
what the variable held (`LargoPosible`), and a string has what one `fgets` takes
(`TrozoTipo`). `RenglonesFieles` is an equivalence, so its invariant has both
directions: while every line so far fitted, the list is those lines (`Enteros`);
from the first that did not, something in the list shows it and goes on showing
it (`Rota`), because nothing is ever taken out of the list. `PCBCabe` compares
two sums over the list of instructions: the partial sums exist (`SumasExisten`),
the recursive `EscritosPCB` is the last of them (`EscritosEs`), and the console's
message is that sum and two fields more (`EscritosDelMensaje`).

*Segmentos.* That no token is taken twice rests on the zero a call writes: a
token other than the first is reached only after the zero before it was written
(`Alcanzado`), by exactly one call, and until that call stores the position
nobody else has it (`UnSoloPendiente`); once in a table it is out of that
thread's reach (`FueraDeAlcance`). The table of a thread that was alone needs
more: from its first call on, the one position is its own and its string has
zeros only behind it (`SInv`).

*Arranque.* The invariant says, for each step of the kernel's `main`, where its
connection is (`Conexion_Inv`: the CPU it reached lives exactly while the
connection is in the backlog or accepted), and which messages are on it
(`Pregunta_Inv`, `Respuesta_Inv`, `Servicio_Inv`). `Vidas_Inv` says that nothing
is sent on a connection before its kernel is started, which is why a CPU that
accepts a former kernel answers nobody else. Steps that touch none of these
variables are one lemma, `SinNucleo`; the long-term scheduler's is one of them,
so these theorems hold for whatever the degree and the algorithm of each start
are. `Apagado_Inv`: a kernel that is not running has no connection.

The assumptions are those the modules declare: programs are sequences of naturals
and the network cuts only some of them; each thread has its own string of sizes;
`MaxVidas` is a natural number, the consoles are finitely many, and a
configuration is a degree and one of the three algorithms
(`ConfiguracionesConocidas`).

### The instruction cycle

`CicloInstruccionProofs` proves, for programs of any length, any words for
numbers, registers of any width and any number of PCBs:

| theorem | property |
|---|---|
| `InvarianteDelCiclo` | the invariant, `TypeOK /\ Curso /\ FielesEnCurso /\ Contestada /\ Intacto` |
| `TipoDelCiclo` | `TypeOK` |
| `LosRegistrosSonFieles` | `RegistrosFieles` |
| `RespondeUnaVez` | `UnaRespuesta` |

`TypeOK` is not inductive: an instruction may advance the counter only because
there is a line under it, which `Curso` says (`instruccion` is what `decode` made
of the line of the counter, or nobody wrote it). `RegistrosFieles` speaks of the
loop's test only, and `FielesEnCurso` of every stage. `UnaRespuesta` needs
`Contestada`: while nothing was answered no EXIT is behind the counter, and the
cycle of a program one of whose instructions was taken is left only after the
answer; and `Intacto`: while no instruction was taken, nothing was done. A
finished cycle without an answer is therefore exactly the one that the test of
`cpu.c:157` skipped; the theorem does not say that there is none. The reference
`Resultado` is recursive; `ResultadoPasoAPaso` unfolds one line of it, and
`EjecucionFiel` says that a turn of the cycle does just that, the chained
comparison of `executeADD` included.

The assumptions: programs are sequences of lines of words, a word of digits has a
natural value and is not the name of a register (`NombresNoSonNumeros`; the code
asks `isNumber` first), and a register has at least one value (`Cotas`).

### Induction

The library's induction theorems have an operator for a parameter, which the
provers here cannot instantiate. `Induccion` derives from well-foundedness
(`WFMin`) the same fact about a *set* of naturals, `InduccionNat`, which is a term
like any other; then, that definitions by recursion have a value (`Recursion`),
what `FlattenSeq` does with one sequence more (`ConcatenarAgregar`), and what is
where when a sequence is cut (`Partir`, `Recibido`). Every theorem about a list
of any length goes through it, and no module a theorem reaches has a `RECURSIVE`
operator.

### Only model-checked

Liveness, which is out of the prover's reach: `CicloJusto`, the fairness in
`ImplementaPlanificador` and `ImplementaDispatch` (their safety is proved),
`SeCrea`, `HiloTermina`, `Terminan`, `CicloTermina`, and `ArranqueTermina`,
`CPUNoSobrevive`, `ConsolaTermina` and `ProgramaServido`.

## 5. Not modelled

* **Memoria**: it accepts connections and keeps no state, nothing is ever sent
  to it, and the file does not compile as it is (a comment closed twice, line
  143).
* **Interrupts and IO devices** (`enviarInterrupcion`, `simularIO`,
  `atender_cliente_interrupt`) and **keyboard input** (`pedirInputTeclado`,
  `responderPorTeclado`): no live caller. For the same reason nothing in
  `Planificador` depends on the reason a process returned.
* **The HEAD side of the merge**: it calls functions with signatures that no
  longer exist.
* **Configuration, logging and tests**: pure input and output; the tests check
  nothing of the system.
* **A console stopped midway**: consoles of `Arranque` run to their end or die at
  a send. `Envio` has the death of a console inside its serializer.
* **Memory layout**: `malloc(sizeof(t_segmento *))` reserves 8 bytes for 12
  (`kernel_hilos.c:124`), which the C library rounds up; and the values an
  overflowed heap would give. A write past a reserve is in `Envio`, its only
  effects being that the process may die.
* **What follows an undefined read**: in `Envio` a garbage `cant` or `largo`
  takes the values of `Restos`; in `Arranque` a garbage PCB is only known to be
  one.

`CicloInstruccion` models code that is there and is not reached: the call of
`cicloInstruccion` is commented out (`cpu.c:367`). It is not composed with
`CpuDispatch`, which is what the CPU does today. If the call came back, EXIT
would answer with `estado_proceso` 4, which the kernel reads as the motive IO.

## 6. Plan

All the components with state and a live caller are modelled, and their safety
is proved. What would add most next:

1. The composition of `Envio` with `Planificador`, so that the program of a
   process is what arrived and no longer a name; and lemmas that relate
   `Flujo`'s PCBs to the ones of `Sistema`.
2. If the merge is resolved and the cycle is called: `CicloInstruccion` in the
   place of `CpuDispatch`'s answer, with the quantum's interrupts.
