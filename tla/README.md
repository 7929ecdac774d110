# dirtyNet: TLA+ specifications and proofs

dirtyNet is a C++ network library in an early revision (`src/lib`) and a set of small programs, the
*sandboxes* (`src/sandbox`), that exercise POSIX sockets and prepare its interface. This directory holds
TLA+ modules of both, the TLC configurations that check them on small instances, and TLAPS proofs of the
results that hold for every size.

## 1. Inventory

| Part | State it keeps | Operations | Talks to |
|---|---|---|---|
| Packet format (`sandbox/tcp-packet/posix/shared`) | none | `encode`, `parse_packet`, constructors | called by client and server |
| `get_packets` (in each `main.cc` of tcp-packet) | `incomingBuffer`, the packets of the call | read, parse loop, return | the kernel's byte stream |
| tcp-packet client and server | position in `main`, `allPackets`, exit code | connect/accept, write, read until enough, close | each other over TCP; killed by `run.py` |
| `udp_socket` (`lib/dirtynet/detail/posix`) and its facade | `_fd` | `open`, `bind`, moves, destructor, `send_to`, `receive`, `get_port`; `kill` does nothing yet | the process's descriptor table |
| `port`, `ip`, `endpoint` | value; `endpoint` has a lazy string cache | parsing, conversions, comparison, copy, move, print | used by `udp_socket`; shared by threads |
| udp-ping, udp-many, tcp-ping | position in `main`, the socket's port, options and queue | bind, join, send, receive; connect, write, read | each other over UDP or TCP; stopped by the runner |
| runners (`sandbox/*/run.py`) | `processes`, the answer of `main` | check the arguments, start, wait, time out, interrupt, stop, collect | the operating system's processes |
| `exec`, `perf`, the `dirtynet` variants of tcp-packet, tcp-ping and udp-many | none | empty `main` | - |
| `archive/legacy-dirtynet` | - | replaced code that is not built | - |

What is hard here, and hard to test: a TCP stream has no packet boundaries, so a read may give a part
of a packet or several; the conversation depends on nobody sending before its turn; blocking writes on
both sides can wait for each other; either process may die at any step; the kernel gives a closed
descriptor's number out again at once, so an object that keeps it uses somebody else's file; length
arithmetic is 32 bits wide; a `const` function of `endpoint` writes, so that two threads that only print race. `PROJECT.json` lists these hazards at their lines, with the properties that
cover them.

What makes each part correct:

* packet format: what is parsed is what was encoded, and a verdict does not depend on how many bytes
  happened to be there already;
* `get_packets`: it turns the byte stream into a queue of packets;
* client and server: no failure without a cause, no deadlock, the last packet is not lost, both end;
* `udp_socket`: each descriptor has one owner, and objects behave as values;
* `endpoint`: it prints the address it has, whatever it was copied or moved from, equal means same, and
  threads may share it where the lazy text allows;
* udp-ping, udp-many: a program that waits in vain has missed a datagram; nobody gets another's;
* tcp-ping: the two programs never wait for each other, however TCP cuts their messages;
* runners: no child left running, none killed without being asked to stop, an exit code that tells what
  happened, and what accepted arguments can lead to.

## 2. Modules

| Module | What it is |
|---|---|
| `PacketCodec` | the wire format: operators only |
| `PacketBuffer` | `parse_packet` asked about a buffer that grows byte by byte |
| `MCPacketCodec` | instance for TLC |
| `PacketQueue` | abstract: a queue of packets per stream |
| `PacketStream` | writers, kernel and `get_packets` over byte streams; implements `PacketQueue` |
| `MCPacketStream`, `PacketStream_proofs` | instance for TLC; proofs of the format, the buffer and the streams |
| `TcpPacket` | client and server as scripts over the two streams of a connection; implements `PacketStream` |
| `TcpPacketRun` | `TcpPacket` composed with the runner that starts and stops the two; implements `Runner` |
| `MCTcpPacket`, `MCTcpPacketRun`, `TcpPacket_proofs` | instances for TLC; proofs |
| `UdpHandle` | abstract: sockets with a value of their own, without descriptors |
| `UdpSocket` | `udp_socket` objects and the kernel's descriptors; implements `UdpHandle` |
| `MCUdpSocket`, `UdpSocket_proofs` | instance for TLC; proofs |
| `Runner` | the four `run.py`, with programs that may do anything |
| `Runner_proofs` | proofs; TLC checks the runners with the programs they run |
| `UdpScript` | the instructions of programs that exchange datagrams |
| `UdpSandbox` | extends `Runner`: programs with a script and a socket, and the kernel's datagrams |
| `UdpPing` | extends `UdpSandbox`: the scripts of udp-ping |
| `UdpManyScripts` | the scripts of udp-many for given clients and ports |
| `UdpManyRun` | udp-many with the arguments of its runner, as an instance of `UdpSandbox` for each of them |
| `MCUdpPing`, `MCUdpManyRun` | instances for TLC |
| `UdpSandbox_proofs`, `UdpManyRun_proofs` | proofs for arbitrary scripts and for those of the sandboxes; for any arguments |
| `TcpPing` | extends `Runner`: the two programs of tcp-ping over unframed bytes |
| `MCTcpPing`, `TcpPing_proofs` | instance for TLC; proofs |
| `Endpoint` | `port`, `ip` and `endpoint` values |
| `EndpointThreads` | extends `Endpoint`: a program whose threads share an endpoint |
| `MCEndpointThreads`, `Endpoint_proofs` | instance for TLC; proofs |

### PacketCodec

A byte is a digit in base `Base`, which is 256 in the program; a `uint32_t` is a number below `Base^4`
and overflows modulo `Base^4`. With `Base = 2` a word is below 16, so TLC meets every case of
`parse_packet`, the wrap of `totalLen` included, in buffers of a dozen bytes. `parse_packet` keeps the
order of the tests in the code. When `totalLen` has wrapped, the code copies bytes from past the end of
the buffer: their values are not specified, and the model's message holds only those in the buffer; the
properties of `PacketBuffer` leave the lengths that wrap to the run `packet_codec_wrap`.

### PacketStream

For each stream: `encoded` is the writer's vector of bytes handed to `write()`, `wire` what the kernel
holds (at most `Capacity` bytes), `incomingBuffer` and `retval` the variables of the code, `status` the
`ReadReturnStatus` of the last call, `delivered` every packet returned so far. `write()` is `Transfer`:
the kernel takes any number of bytes it has room for. `read()` is `ReadBytes`: any number of bytes up to
`sizeof(inBuffer)`; the loop of `get_packets` is `ParseComplete`, once for each packet, and it ends with
`ReturnPackets` or `ReturnInvalid`. The loop of one reader interleaves with everything else. The ends
of a stream are the end of file (`ReadClosed`), a reset (`ReadError`, reported once) and the end of
either process at any moment (`EndProcess`). `sent`, `stream`, `start` and `taken` are history.

The two `main.cc` have a copy of `get_packets` each, equal except for the log; one set of actions
stands for both.

### TcpPacket

`ServerScript` and `ClientScript` list what each `main()` does, in order: the packets encoded, the
writes, and for each read how many packets it waits for, which types it accepts, whether more are an
error, and whether the result of the first call is looked at (it is not in three of the server's reads).
`Got` is the code after each call of `get_packets`, and `Sends` all that a program encodes, in order. A client that connects before the server listens is
refused. The kernel makes the connection before `accept()` returns. A process that ends closes its
connection, with a reset if it left bytes unread; bytes sent to a process that is gone cause a reset
(`Refuse`), after which a write may kill its process by SIGPIPE (`BrokenPipe`). `SetupFails` is a call before
the conversation that fails: the port is in use, or `connect()` or `accept()` gives up. The runner, or a user, may
kill either process at any moment (`Killed`).

### TcpPacketRun

The runner of tcp-packet sees of its programs only that they run and how they ended: `Child` computes that
from `TcpPacket`, and `Runner` is instantiated with it, so that its proved properties hold of the composition.
A program that has decided to return an error runs until its connection is closed. A program steps only
while the runner has it running, so a client may be started before the server listens, and is killed only
by a signal that the runner or the terminal has sent, or by SIGPIPE.

### UdpSocket

The kernel is a set of open descriptors with a port and a queue each; `socket()` returns the smallest
free number, so that a closed one is reused at once, also by the other code of the process
(`OtherOpens`, `OtherCloses`). `bind` takes two steps, between which another object may take the port;
its failure destroys the local object. Move construction, move assignment (to itself too), destruction,
`send_to`, `receive` and `get_port` are one action each: an object is used by one thread at a time, which is
what the library asks of its users. `get_port` asks the kernel for the port of the descriptor that the object
has now (`Nullopt` for an object without one), and `UdpHandle` says that this is the port of the value. A failed `socket()`, `sendto()` or `recvfrom()` changes nothing and has no action, nor
has `kill()`, whose body is empty in this revision. Datagrams are abstracted to their sender's port, and may be lost.

### Runner

`pc` is the place in `main()`: `check` the arguments, `launch` the programs and `append` each to
`processes`, `wait`, `collect` the exit codes; or `stop`, `grace`, `kill` and `reap`, in the order of
`stop_process` and `stop_processes`. `Polling` and `Together` tell the four runners apart: udp-ping and
udp-many poll until a deadline, the other two sleep and look once; udp-many stops all programs together,
the others one after the other. Time is abstracted: a deadline passes, and a startup delay ends, at any
moment. `KeyboardInterrupt` may come anywhere: in the `try` it goes to the handler, elsewhere and inside
the handler nobody catches it (`answer = "traceback"`); from a terminal it also reaches the running
programs. `Popen` starts a program before the runner has it in its list. A program may end at any moment
with any exit code; a signal ends it at some time, `SIGKILL` for sure.
The code does leave programs running: when `Popen` fails, when a second interrupt meets the handler of the first, and the last
one when an interrupt comes between `Popen` and `append`. `LeftBehind` says that there is no other case.

### UdpSandbox, UdpPing

A program is a script of instructions: `open`, `bind` (with `SO_REUSEADDR` or not), `join`, `send`, `reply`
(to the sender of the last datagram), `receive`, `exit`. The kernel puts a datagram into the queues of
those who are bound to its port when it is sent, or drops it; a sender without a port gets one. A group's
datagrams reach every socket bound to the port once anybody has joined (Linux, `IP_MULTICAST_ALL`); any other
datagram reaches one of the sockets that share its port, the kernel's choice. A program whose argument is no
port (`NoPort`) fails where it would bind. `UdpPing` has the scripts of the two variants of udp-ping, `posix` and
`dirtynet`, which look at the result of a send or do not (`Checked`). Others may hold a port (`MayBeTaken`), like a
program that an earlier runner left behind. `missed` is history: whom a datagram was for and did not reach.

### UdpManyScripts, UdpManyRun

The host has a send for each of its ports, and each client the port that the runner passes to it.
`UdpManyRun` first chooses the arguments of `run.py` (how many clients of each kind, the first unicast port, the
multicast port), accepts or refuses them as `validate_port` and `main` do, and then runs the instance of
`UdpSandbox` for them. The host takes no arguments: its ports are in its source, so the runner accepts arguments
with which the sandbox cannot end well. A port is named by its text (`str`, which is all that a program sees of it),
and each client has a name of its own. What a client does with a port that it refuses is modelled too, so that
a range that ends too high shows.

### TcpPing

The bytes to the server are a sequence, cut by reads anywhere; of those to the client only the number
matters. The server answers whatever it has read until that is exactly `QUIT`. A program that ends
closes its side, with a reset if it left bytes unread; a first write to a program that is gone resets the
connection, a later one fails if no call has reported the reset yet and kills by SIGPIPE otherwise, which is how
a server whose client has gone ends, as `read()` returns 0 for ever. Nobody looks at the result of a write
(`NotSent`). Of the two messages `PingAssumption` asks only what is true of the texts in the source: `QUIT` is no part of
the greeting, and the greeting is not how `QUIT` begins. A read that fails returns -1, and `buffer[n] = 0` then writes the byte before the buffer: in the server that
may be the flag `running` of the loop, so `ServerReadNothing` leaves the loop or goes on.

### Endpoint

A `port` keeps its number in both byte orders (`htons` in base `Base`); an `ip` is an IPv4 address or an IPv6
one without a value, as in the code; texts are parsed as `inet_pton` does; `localhost` and `any` are the bytes of a
number in memory. An `endpoint` keeps the socket address and, once printed, its text. It is made from an address
and a port, or from what the kernel filled in (`from_socket`, which checks the length and not the family, and keeps
the padding). The moves that the compiler generates leave the source's address and an unspecified text (`MovedText`), as
`std::optional` stays engaged. `meant` is history: the address and port that the value was made from. Comparison is that of the
bytes in memory, so two endpoints with one address and port are equal only where their socket addresses are valid (`Valid`);
the notes promise more, see section 6.

### EndpointThreads

`to_string()` is `const` and fills the cache, without a lock. While the program is `alone` it does any step of
`Endpoint`; then it creates threads that share one endpoint, which it may have printed before (`warm`), and around
which it may hold a mutex (`guarded`). In the threads each access to the shared cache is a step: the test, the
assignment, the return; a copy of the shared endpoint reads the cache too. Two accesses of two threads, one of
them a write, with no mutex, are a data race (`undefined`): from there on a thread may find any text, or the process
may end (`Crash`). This is C++'s definition of a race over the accesses that have happened, not their timing.

## 3. What TLC checks

| Run | Bounds | Shows |
|---|---|---|
| `packet_codec` | every buffer of up to 12 bytes, base 2 | `ParsedIsEncoded`, `VerdictIsFinal` |
| `packet_codec_wrap` | the same | **violation** of `CompleteHasPayload`, see section 6 |
| `packet_stream` | one stream, 4 kinds of packets (an invalid one too), 3 packets, reads of up to 5 bytes, 6 bytes in the kernel | framing, `QueueSpec`, nothing left behind, everything arrives |
| `tcp_packet` | the whole conversation, payloads of 0 to 7 bytes, reads of up to 7 and 9 bytes, 12 bytes in the kernel, both processes may be killed | no failure without cause, half duplex, both end |
| `tcp_packet_disconnect` | the same | **violation** of `DisconnectIsCleanExit` |
| `tcp_packet_run` | the conversation with payloads of 0 to 2 bytes, 6 bytes in the kernel, 1 interrupt of the runner | 0 means that every packet was delivered, an exit code blames the server's setup, the runner returns; refinement of `Runner` |
| `udp_socket` | 3 objects, 3 descriptors, 2 ports, queues of 2 | one owner for each descriptor; refinement of `UdpHandle` |
| `udp_ping` | 1 dropped datagram, 1 failing call, 2 interrupts, a port that may be taken | a standstill has a cause, 0 means a complete exchange, the answer follows the question |
| `udp_many` | ports 0 to 5 with a largest port of 4, host with 2 unicast ports and the group, up to 2 clients of each kind, 1 dropped datagram; 2 interrupts, polling, stopped together | which arguments make clients fail, which can end with 0, who waits in vain, who gets which greeting; whom the runner kills, and that it returns |
| `tcp_ping` | two messages of 2 bytes, 2 interrupts, sleeping, stopped one by one | no mutual wait, SIGPIPE at the server has a cause, 0 means the whole conversation, exit codes, whom a runner leaves behind |
| `endpoint_family` | the same as `endpoint` | **violation** of `EndpointIsIpAndPort`, see section 6 |
| `endpoint` | 2 threads and the endpoint that they share, one address and those of `localhost` and `any`, base 2 | the text follows the address, equality, when sharing is a race |

The bounds. Three packets are enough for a packet that is behind one and before another in the same
read; a read of 5 bytes holds one word and a part of the next packet, and less than a greeting with a
byte of payload; 6 bytes in the kernel stop a writer in the middle of a packet. In the conversation the
order of sizes is that of the program: the client's large message is more than one read of the server,
and the last three packets are several reads of the client. Capacity 12 is less than the longest write.
`tcp_packet_run` is about the ends of the programs and not about cuts, so its messages are short; 6 bytes in the
kernel still leave a writer blocked when its reader is killed.
Three objects let a descriptor be handed on twice and let two of them compete for a port; a queue of two has an order.
The named bounds are `MaxLen`, `MaxSent`, `Capacity`, `MaxQueue`, `MaxInterrupts`, `MaxFaults`, `MaxDrops` and `Followed`;
`Capacity` and `MaxQueue` are also facts of a kernel.
A second interrupt is the one that meets the handler of the first. In udp-many one client of each kind meets every pair of ports, those
just outside the range included; two of each meet a range that ends too high, one that contains the multicast
port, and multicast clients that share a port of the host that is not the group's. All runs are followed up to their
time limit, and one (`Followed`: a client of each kind, with ports of the host) beyond it and with interrupts: stopping is
the same for all arguments, and its three programs have one behind and one before another in each loop of the runner.
Messages of two bytes can be cut, and the end of one read together with the beginning of the next; `Greeting` and
`QUIT` differ. In base 2 a port has two bits, so that the byte order of two of the four ports matters. Two threads are
what a race needs.

Deadlock checking is off (`CHECK_DEADLOCK FALSE`) where the system really stops: a full buffer in
`MCPacketCodec`, a stream of `MaxSent` packets, a conversation whose processes have ended, a runner that has
returned, sockets and threads that have nothing to do or have crashed; that nobody stops before the end is
`EverybodyExits`, `EverythingArrives` and `RunnerReturns`.

Every property of a passing run has a mutant in `PROJECT.json`, a plausible bug of the code under which
TLC refutes the property; the mutants are definitions next to the ones they replace, marked as such.

### Fairness

`FairStreamSpec` and `FairSpec` ask for weak fairness of each process: the operating system runs a
process that can run, and a kernel with room takes bytes. Nothing is asked of kills, of failures, of a
reset, or of which bytes a read returns. Weak fairness is enough because no other process can disable
such a step for good except by an event that the properties name. Setup that fails (`SetupFails`) is outside
of the fair steps: no port has to be in use. `RunFairness`, in `UdpManyRun` and in `TcpPacketRun`, asks that the runner
is scheduled, that its deadlines pass, and that `SIGKILL` ends a program; nothing of the programs, which may wait for
ever and ignore `SIGTERM`, and nothing of the user. In `UdpManyRun` it is enough that of the killed programs one after
the other ends, as their number is finite.

## 4. What is proved

All for every value of the constants allowed by the modules' assumptions.

### The packet format and the streams: `PacketStream_proofs`

* `ParseIsInverse`: of a buffer that begins with the encoding of a packet `parse_packet` returns that packet and the
  length of its encoding; of a proper prefix of an encoding it says "incomplete". It rests on the arithmetic of
  `htonl`/`ntohl` in base `Base` (lemmas on quotients and remainders). The other direction is
  `ParsedIsWhatItsBytesSay` (`ParsedIsEncoded`), and `VerdictsAreFinal` is `VerdictIsFinal`, for buffers whose declared
  length `totalLen` can hold.
* `StreamInvariant`, the inductive invariant `StreamInv`: type correctness; the bytes of packets already taken, of
  `incomingBuffer`, of `wire` and of `encoded`, in this order, are the bytes written (up to what an ended process lost);
  the history `start` gives where each packet begins; `incomingBuffer` begins where packet `taken + 1` does.
  `DeliveredInOrder` alone is not inductive: it says nothing of the bytes from which the next packet is parsed. With it
  and `ParseIsInverse`: `Framing`, `Rejection`, `Drained`, and the refinement `ImplementsQueue`.

### tcp-packet: `TcpPacket_proofs`

* Every step of the conversation is a step of the streams or leaves them alone (`ImplementsStreams`), so the theorems
  on streams hold of it (`ConversationInOrder`).
* `Conversation`, the inductive invariant `ConvInv`. None of the properties is inductive: whether a read gets what it
  waits for depends on how far the other program is. Two tables, `SentAt` and `ReadAt`, say how many packets a program
  has sent and read when it is at an instruction of its script, and `StepFits` (checked instruction by instruction)
  that each instruction moves the counts by what it does. `SendingOK` says that what is in a stream is
  what `Sends` has up to there, `ReadingOK` that the reader has, in `delivered` and `allPackets`, the packets that its
  place says; so a packet that arrives is the one that the read accepts. `EndsOK` and `LeavingOK` say what is left in
  the streams when a program ends. Together they give `NeverLeftWaiting`: a program that ended well has
  sent all that the other still waits for, and none of it was lost. From it `TcpTypes`, `OneWayAtATime` (`HalfDuplex`),
  `NobodyGivesUp` (`FailureHasCause`) and `TheEndComesLast` (`EndsAfterAll`), for all messages, payload sizes, buffer
  sizes, capacities and cuts.
* With the runner: every step of the composition is one of the runner, or the end of a program, or neither
  (`RunImplementsRunner`); `RunnerHolds` takes the invariant of `Runner_proofs` over. `RunInvariant` adds `SetupInv`
  (how far setup is in both programs) and `QuietInv` (without a signal a program ends badly only if one of the two setups
  failed), and gives `AnsweredZeroIsDelivered` (`SuccessIsDelivery`) and `TheServerIsBlamed` (`BlamesTheServer`).

### Runners: `Runner_proofs`

* The inductive invariant `RunnerInv`. `LeftBehind` alone is not inductive: it speaks of a runner that has returned,
  and what each loop has done by then is in `Started` (which programs are in the list), `Loops` (those before `next`
  have ended), `Asked` (those before `next` have been asked to stop) and `Answered` (what an answer says of the
  programs and of the interrupts). From it `NobodyLeftBehind`, `AnswerIsTheirsAlways`, `RunnerTypes` and `TermFirstAlways`, for any list of
  programs and for all four forms of the runner.
* `UdpSandbox_proofs` and `TcpPing_proofs` have each an `ImplementsRunner`, which carries these theorems over to the
  other sandboxes, as `RunImplementsRunner` does for tcp-packet; `TermFirstIsKept` says it of udp-many with any arguments.

### udp-ping and udp-many: `UdpSandbox_proofs`, `UdpManyRun_proofs`

These theorems are about all scripts that `ScriptsOK` describes: a program ends with its only `exit`, binds before it
receives, receives at most once, and replies only after that. `PingScriptsOK` and `ManyScriptsOK` show that the scripts
of udp-ping (both variants) and of udp-many (any number of clients, any ports) are of this form. What only some arguments
give is asked where it is needed: `SharesPorts` (a port is shared only with `SO_REUSEADDR`) and `JoinsGroups` (who waits at
a group's port has joined it). The runner of udp-many checks neither, and `ManyScriptsOK` says for which ports they hold.

* `SandboxInv`: which socket has which port and where each datagram that was sent is: missed, in a queue, or received by a
  program that waits no more (`Bound`, `Named`, `Accounted`). `SilenceHasCause` alone is not inductive: it speaks of a program
  that waits, and a datagram may be sent long before. From it `PortsNeverClash` and `SilenceAlwaysHasCause`.
* `DataInv`: what programs hold and have received, against their places. From it `UdpTypes` and
  `SuccessIsAlwaysComplete` (`SuccessIsComplete`).
* `PingInv`, for the two programs of udp-ping: the server's reply is the only source of what the client receives. From
  it `NoPongBeforePing` (`PongAfterPing`), and with `Accounted` `StandstillAlwaysHasCause` (`StandstillHasCause`).
* `OriginInv`, for scripts without replies that send to each port once: whatever is in a queue or was received comes from
  a `send` to the port of its receiver, with the sender's address (`Origin`), and what is sent to a port has one receiver,
  unless it is a group's and they share it (`Sole`). That rests on `Sharing`: the kernel gives a port that somebody has only to programs
  that share it. `RightGreeting` is not inductive without it, as it says nothing of queues. From it `ManyGreets` and
  `ManySucceeds`, for any clients and ports.
* `UdpManyRun_proofs`: the arguments are a variable, and make the programs. A theorem of an instance with a
  parameter cannot be cited, so these theorems fix a constant `Chosen`, of which nothing is assumed, and have the form
  `RunSpec => [](args = Chosen => P)`; as `Chosen` is any value, that is `P` for all arguments. Three cases:
  arguments that are not tried never occur; with those that the runner refuses nothing starts (`RefusedStartsNothing`);
  and with accepted ones a run is one of `UdpSandbox` (`ManyRuns`) with programs that fit the theorems above. `PortsAre`
  shows that a client refuses no port that the runner has accepted. From these `FailureIsAlwaysOverlap`,
  `SilenceAlwaysHasCause`, `GreetingIsAlwaysRight` and `SuccessAlwaysFitsTheHost`. That the assumptions of
  `UdpSandbox` hold of the programs that any arguments make is proved too (`NamesFit`).

### tcp-ping: `TcpPing_proofs`

* `NoDeadlock`: `NeverBothWaiting` for any two messages. It rests on two parts:
  `OwesAnswer` (while the client waits, there is something for the server to read, or it is about to
  answer), which holds with failing writes because a connection is reset only by a side that has gone
  (`ResetByGone`), and `WaitsOnceStarted` (a client that the runner starts does not wait yet).
* `Talk`, the invariant `TalkInv`: `QUIT` comes last among the bytes to the server, so that a server that has read it has read
  all, and `answers` counts what the place of the client says. From it `SuccessIsTheConversation`.
* `SigpipeAlwaysHasCause`, which speaks of the server only, from `StepInv`: as long as no read has cut or merged messages, the client was not killed and the server
  runs (`Calm`), the two programs are in step: for each place of the client there are few of the server, with the bytes that belong to them (`InStep`).

### The library: `UdpSocket_proofs`, `Endpoint_proofs`

* `Ownership`, inductive once the ports of descriptors and the objects inside `bind` are described, `SocketTypes`, and
  the refinement `ImplementsHandle`, `get_port` included.
* `PrintsWhatItIsAlways` and `EqualIsSameAlways` (the parts of endpoints tell addresses and ports apart, endpoints are equal
  only if their parts are, and always if so and both socket addresses are valid), from `EndpointInv` (a cached text is that of the
  address beside it, unless the object was moved from); and for any number of threads `RaceHasCauseAlways`,
  `TextIsRightAlways` and `StepsAreCallsAlways`, from `RaceInv`: until there is a race `EndpointInv` holds and what threads
  have printed is right; an endpoint printed beforehand is never written again; and the addresses, as opposed to the texts,
  are right even after a race (`ValuesAreKept`).

### Only model-checked

Every invariant and every action property that a passing run checks, and both refinements of abstract specifications, have
a theorem. What remains with TLC are the three liveness properties, `EverythingArrives`, `EverybodyExits` and
`RunnerReturns`: liveness under fairness and `ENABLED` are out of the prover's reach here. So is induction over data (no module
here has a recursive operator). The three runs that find a violation are TLC's too.

## 5. Not modelled

* `type_string` and logging, and the text of messages beyond what tells them apart.
* `udp_socket::kill()`, whose body only returns true; the contents of datagrams in `UdpSocket`.
* The orderings `<=>` of `ip`, `port` and `endpoint`, which change nothing, and the native `ip::from_ip_string`, which
  nothing calls; what follows an embedded NUL in a text given to `inet_pton`; IPv6, which the code does not implement.
* Signals that interrupt a system call, and a `recvfrom()` that fails on a bound, blocking socket: the programs of
  udp-ping and udp-many would then index their buffer with -1. Nothing in the sandboxes makes either happen.
* A datagram of the whole size of a buffer, or from a program that is not of the sandbox.
* Paths and times among the arguments of the runners: they are refused or not.
* The archive (replaced, not built), tests and benchmarks, the error enumerations, and the empty programs (`exec`, `perf`, and
  the `dirtynet` variants of tcp-packet, tcp-ping and udp-many).

## 6. Where the code and its notes differ

* `shared.cc:114`: `totalLen` wraps, so a greeting whose declared length is within 8 of 2^32 is reported
  complete without its payload (`last-steps.md:31`); run `packet_codec_wrap`.
* `server/main.cc:195`: the server returns -1 when the peer disconnects (`last-steps.md:51` asks for a
  clean exit); run `tcp_packet_disconnect`.
* `detail/posix/endpoint.hh:41`: `from_socket` checks the length of a socket address only, and keeps the family and the
  padding that it was given, which `==` then compares: two endpoints with the same address and port may be unequal. The notes
  say "endpoint = ip + port" (`rev0-design.md:226`) and that native address data is validated before an endpoint is made of it
  (`rev0-design.md:313-314`), its family and its length (`working-todos.md:157-158`); run `endpoint_family`.
* `udp_socket.hh:135`: `kill()` returns true and does nothing (`rev0-design.md:727` asks for more); its comment defers it
  to a future revision, so no run is made of it.

## 7. Plan

Done: wire format, streams, conversation, `udp_socket`; the runners; udp-ping, udp-many (with its arguments), tcp-ping and
tcp-packet composed with them; `endpoint`, alone and shared by threads; and a proof of each safety property that a run checks.
What is left: (1) state and prove the safety core of the liveness properties, that is, that a conversation in which nothing
failed and both programs still run has always one that can go on, as a state predicate without `ENABLED`, as
`NeverBothWaiting` is for tcp-ping; (2) shorten the longest proofs by lemmas on the scripts. To model
when the code has it: `kill()`, IPv6, and the `dirtynet` variants that are empty today.
