# Formal models of the autodidact programs

The repository collects the programs somebody wrote while learning systems
programming. Several of them are small but real concurrent or stateful systems:
four Linux kernel modules, a user-space router, three TCP servers, and a
circular buffer in three languages. This directory holds TLA+ models of those,
the TLC configurations that check them, and proofs checked by TLAPS.

`PROJECT.json` lists, per definition, the source lines it models (`map`), and the
runs, mutants, findings, hazards and theorems. Paths below are relative to `src/`.

## Inventory

| Component | State | Operations | Interacts with | Hard behaviour |
|---|---|---|---|---|
| Circular buffers: `hello-c/da-basizz/circular-buffer.c`, `hello-rust/circular-buffer.rs`, `hello-python/circular-buffer.py` | array, head, tail, count | init, push, pop | their caller | three redundant counters; masks instead of remainders; what a popped slot keeps |
| xorbox: `hello-linux/practices/xorbox/xorbox.c` | ring of encrypted bytes, head, tail, data_len, key, mutex | open, read, write, ioctl (set key), release | processes (system calls) | chunk loops under one mutex, copies that fail half way, signals, an uninitialised counter |
| crypto-buffer: `hello-linux/practices/crypto-buffer/my_crypto.c` | buffer, data_size, a position per file | read, write, llseek | processes | no lock at all; unsigned arithmetic on a length that changes |
| simple-driver: `.../simple-driver/simple-driver.c` | buffer, data_length, a position per file | read, write | processes | no lock; no module owner |
| vpn-driver: `.../vpn-driver/tun_custom_char.c`, `tun_custom_net.c`, `vpn_app.c` | one packet and its size; a net device | read, write; transmit; read-transform-write loop | application and kernel | a slot overwritten or emptied while it is copied; a copy that fails half way |
| Load and unload of these modules | what each module owns, open files | init, its error labels, exit | kernel, processes | a failing step in the middle; rmmod while files are open |
| Router: `.../network-driver/ipv4-and-icmp.c`, `arp.c` | one frame buffer, the ready set | select loop, ARP handler, IP handler | hosts behind two TAP devices | frames edited in place, stale bytes behind short frames, sums and edits in the right order, fairness between taps |
| Router environment: `.../network-driver/setup.sh`, `cleanup.sh` | two namespaces, a TAP device and a bridge for each, addresses and default routes | create, remove | the router and the hosts | a ping across needs both hosts to look the router up, in any order, while frames are lost |
| Chat server: `hello-linux/networking/beej-guide-networkp/select-server.c` | master set, fdmax, buffer | select, accept, recv, broadcast, close | clients | descriptors reused during a scan; what is sent, to whom, and when; clients that come back; a send that waits for a client |
| Forking servers: `beej-guide-networkp/server.c`, `simple-application/server.c` | the connection being handed over, children | accept, fork, close; greet or echo | clients, children | two processes share a connection; fork fails; zombies |
| Echo session: `simple-application/client.c`, the child of `simple-application/server.c` | a line buffer at either end, two byte streams | fgets, write, read, print; read, write back | user, TCP, signals | streams without message boundaries; end of input nobody looks at; a child that must not outlive its client |
| Sniffers, other clients, notes, assembly, shell, CUDA and console exercises | none that outlives a call | straight-line code | | not modelled, see the end |

What makes each correct:

- **Circular buffer**: it is a bounded FIFO queue; its counters never contradict
  each other; a popped item is released.
- **xorbox**: a pipe with atomic calls; the mutex protects every access and is
  always given back; every call is answered; a read should report what it delivered, and
  does not.
- **crypto-buffer**: a file; no store leaves the buffer; what was written can be read.
- **Load and unload**: everything acquired is released exactly once, and what a
  registered interface, or an open file of xorbox, works on is there.
- **simple-driver and the packet device**: a slot for one packet with atomic calls
  when programs take turns; written bytes only, however they overlap.
- **Router**: what it sends is true of the interface it leaves on and of the frame it
  answers, and a whole packet passes the receiver's checks, sums included; it reads no
  tap that is empty and starves neither. Between two hosts: an answer comes from the
  machine that was asked, and every ping is answered.
- **Chat server**: it watches exactly the open connections, accepts and receives without
  waiting, and serves everybody as long as everybody reads; it should relay what clients
  said, to the others, and does neither.
- **Forking servers**: nobody waits for another client, every stream ends, requests are
  answered.
- **Echo session**: the terminal shows the echoed stream in order, no message waits
  for ever, and the child goes with its client.

## Modules

| Module | Models | Role |
|---|---|---|
| `BoundedFifo` | | what the circular buffers promise |
| `CircularBuffer` | the three implementations; `ClearsOnPop` tells C from Rust and Python | implements `BoundedFifo` |
| `XorPipe` | | what xorbox promises: each call in one step |
| `XorboxDevice` | `dev_read`, `dev_write`, the ioctl | implements `XorPipe` |
| `CryptoFile` | | what my_crypto promises one process: a file with atomic calls |
| `CryptoBuffer` | `dev_read`, `dev_write`, `dev_llseek` | implements `CryptoFile` for one process |
| `DriverLifecycle` | init and exit functions of xorbox, my_crypto, simple-driver, tun_custom_net | |
| `PacketDevice` | | what the one-packet devices promise programs that take turns |
| `PacketSlot` | `dev_read`, `dev_write` of `simple-driver.c` and `tun_custom_char.c`; the loop of `vpn_app.c` | implements `PacketDevice` |
| `Router` | the loop and handlers of `arp.c` and `ipv4-and-icmp.c`; external, the TAP devices | |
| `PingService` | | what a network promises somebody who pings |
| `RouterNetwork` | `Router` and, external, the two hosts of `setup.sh` | extends `Router`, implements `PingService` |
| `InternetChecksum` | `calculate_checksum` and its use by `handle_ip`; external, a receiver | what `Router` takes a checksum to be |
| `SelectServer` | `select-server.c`; external, its clients | |
| `ForkServer` | both forking servers; external, their clients | |
| `EchoStream` | | what a user of the echo service sees: one stream |
| `EchoSession` | `client.c` and the child of the echo server | implements `EchoStream` |
| `MCCircularBuffer`, `MCXorbox`, `MCCrypto`, `MCPacketSlot` | | operators (`&`, `^`) and input sets for TLC |
| `MCRouter` | | `Router`, `RouterNetwork` and `InternetChecksum` for TLC, in three scenes |
| `MCForkServers` | | `ForkServer` and `EchoSession` for TLC, in two scenes |
| `CircularBufferProofs`, `XorboxProofs`, `CryptoProofs`, `PacketSlotProofs`, `RouterProofs`, `SelectServerProofs`, `EchoSessionProofs`, `DriverLifecycleProofs` | | theorems and proofs |

A scene is a behaviour in which only one module of an MC module takes steps, the state of
the others being fixed: nothing in the code connects them, and TLC checks them in one run.

### How state and actions correspond to the code

**CircularBuffer.** The variables are the struct fields plus what the last call
returned. A push or pop is one action, and its refusal another. `BitAnd` stays an
operator constant: the model uses the mask the code uses, and `MaskAssumption`
is what the comment at `circular-buffer.c:37` says of it. The C capacity is a
`#define` of 8; Rust and Python check the power of two in their constructors
(`CapacityAssumption`).

**XorboxDevice.** A process is `idle`, at the mutex (`lock`), in the chunk loop
(`copy`) or has its result (`done`). The mutex is held from the first chunk to
the last, so a whole chunk (copy and byte loop) is one step; other processes
act between chunks. `ReadFault` and `WriteFault` are the copies that fail:
a read has by then taken the chunk out of the ring, and `copy_to_user` may have
delivered part of it. `Interrupted` is `mutex_lock_interruptible` meeting a
signal while the mutex is taken; an uncontended lock does not look at signals.
`bytes_read` of `dev_read` starts at any element of `StackValue`, because the code
does not initialise it; `start` remembers which. With a value of at least the bytes there
are to read the loop does not run and the value is returned; a smaller one makes the loop
pass over that much user memory. `XorPipe` is told the same set (`Skip`), so that the
refinement says what the calls do in either case. The declared type is unsigned, so a value
is a natural number; one that would turn negative on return is not told apart from other
large ones.

**CryptoBuffer.** The code has no lock, so every access to `crypto_buffer` or
`data_size` is a step: the byte loops go byte by byte, and the three uses of
`data_size` in `dev_read` (`ReadStart`, `ReadClip`, `ReadAdjust`), and its comparison and
assignment in `dev_write`, are separate (a compiler may merge loads; then no other process
acts between them, which is one of the interleavings). The difference is unsigned: a
`data_size` that fell below the position gives a huge length, which no read exceeds and
`kmalloc` refuses. A load from beyond the buffer gives `Outside`. Each process has a file,
hence a position, of its own.

**DriverLifecycle.** An init function is a sequence of resources to acquire, an
error path or exit function a sequence of resources to give back; the step that
fails selects the path. `stray` records a release of something not owned: a
second release, or `kvfree` of a log message (`my_crypto.c:97`). `Pinned`: only
xorbox sets an owner, so only there `rmmod` is refused while a file is open.
Three slips of `my_crypto` are exceptions the properties name: the error path of
`device_create` frees a message instead of the buffer and so leaks the buffer
(`my_crypto.c:97`), and the exit function unregisters the class and then destroys
it, which unregisters it again (`my_crypto.c:107-108`). `PublishedBacked` is about the
registered interface, through which new calls come; `XorboxFilesBacked` about files that
are open. Files of simple-driver and my_crypto may be open after `rmmod` (`files` not
empty, nothing `Published`), and what they reach is freed: no property denies it, because
the code does not prevent it.

**PacketSlot.** `program` chooses the device. There is no lock, so a copy goes
byte by byte and each use of the length is a step: its comparison with what was asked
(`ReadClip`) and its assignment (`ReadAdjust`) may meet two lengths, and a read may then
return more than was asked for. `copy_to_user` may fail after
any byte and leaves what it delivered; `copy_from_user` stops after any byte and
clears the rest of the kernel's buffer, byte by byte (`WriteFault`, `WipeByte`),
and the length stays that of the previous packet, whose bytes are by then gone.
simple moves the file position and reads only at its start; tun empties the
slot after a read. `Reinject` is `vpn_app`: it writes back what it read after two
exclusive ors with the key. `turns` is the way the programs are used: when it
holds a call begins only while no other is under way, and the refinement of
`PacketDevice` is claimed (its actions ask for `turns`); when it does not,
anything overlaps and only `OnlyWrittenBytes` is claimed. `vpn_app` opens
`dev/tun_custom`, a path relative to its directory (`vpn_app.c:5`); the model
takes it to have found the device.

**Router.** A frame is its addresses, its type and a body with the fields the
handlers look at. A checksum is a value that changes when the TTL, the protocol
or the addresses change, but not when two addresses are swapped, as the sum the
code computes. The handlers edit in place: where fields of one header are copied into each
other (`ArpReply`) the copies are made in the order of the code. `TrafficAssumption` lets
anything arrive, wrong sums, a TTL that has run out and short frames included, but for one
thing: the lengths an IP header states are those of its packet. A short frame ends behind
its Ethernet header; the body the handlers see (`Seen`) is what the buffer held, or, if that
was of another type, any body those bytes may look like (`AnyBody`), and only the header
goes out again (`Cut`). `arp.c` refuses a short frame (`LongEnough`), `ipv4-and-icmp.c` acts
on the stale bytes. `WriteFails` and `ReadFails` are the calls of `write` and `read` whose
failure nobody looks at. A TAP device hands over no frame that is shorter than the Ethernet
header. `out` is what the last handler wrote. `program` chooses between
`arp.c` and `ipv4-and-icmp.c`, whose ARP handler lacks the length check.

**RouterNetwork.** The hosts are external: they are what Linux does in the
topology `setup.sh` creates, with its addresses and default routes. A frame the
router writes is taken in by the host in the same step (`Delivers`) or lost
(`Loses`: the write fails), and a read may fail (`FailsToRead`), at most `MaxLosses` times
in all; a frame a host sends waits in the tap's queue, and
a full queue makes the host wait. A host looks its gateway up when it has
something to send, forgets it at any moment, repeats a ping until it is answered,
answers each ping it sees once, and ignores frames that are not for it or whose
sums are wrong. Who has asked, been reached and been answered is recorded in
three sets, which are the variables of `PingService`.

**InternetChecksum.** Bytes, words, carries and the complement as the C code has them:
`acc` is a `uint32_t` (`Wrap32`), a word is read high byte first (`ntohs`) and a last odd
byte is the high one. Every turn of either loop is a step. `ClearField` and `StoreSum`
are the two assignments of `handle_ip` around the call. Then the message arrives, whole,
with one word changed or with two words in each other's place, and the receiver, external,
sums it with its checksum; it takes it if the answer is 0. `change` records by how much
the damaged word grew. A swap is what the echo reply does to the addresses; that it
leaves the sum alone is why `Router` may take a checksum of a set of addresses.

**SelectServer.** One pass over the descriptors is one scan; each descriptor is
one step, and so is each `send` of the inner loop (`BeginSends`, `Send`, `EndSends`).
`buf` stands for the contents of the buffer with the length `nbytes`: a message, nothing
(`recv` returned 0) or bytes of the stack: before the first `recv`, or when it returned -1,
which as the length of a `send` is larger than the buffer. `send` blocks: `full` are the
clients into whose connection no more fits, and while such a client neither reads (`Drain`)
nor hangs up (`Blocked`), the server stands in front of it. How much fits is up to the
kernel: any message may be the last that does. A `send` to a client that hung up may raise
SIGPIPE, which ends the server. The server closes a connection after every `recv`; a client
may come back then, and does if it goes on chatting. `Quiet` are clients that only listen, a
bound of the runs; the code knows no such clients, and the proofs do not ask for any.

**ForkServer.** `program` chooses the server. The parent accepts, forks and
closes; the child holds the connection until it exits. Clients may write and hang up
while they are in the backlog. A message is a string or starts with NUL, and the echo server,
which writes back `strlen` bytes, answers the second with nothing. `MaxChildren` bounds the
processes, so `fork` fails in reach of the checker; the greeting server takes
the -1 for the parent's branch, as the code does. It never waits for its children: each
stays a zombie and keeps its place among the processes (`Exited`).

**EchoSession.** `up` and `down` are the bytes under way; a read takes any
non-empty part of what has arrived, up to the buffer. `FgetsAtEnd` is the `fgets`
whose failure nobody looks at: the client sends its old buffer again, or, if
nothing was typed before, the string an uninitialised buffer happens to hold
(`Rubbish`). After one end is gone the other's write is taken, fails or raises
SIGPIPE, and its read returns 0 or fails. The socket buffers of the kernel are
taken not to fill: a client reads after each line it sends.

## Runs

| Run | Instance | Shows |
|---|---|---|
| `circular_buffer` | 4 slots, 3 items | it implements `BoundedFifo`; counters consistent; popped slots vacant |
| `xorbox_pipe` | 2 processes, ring of 3, chunk of 2, writes of 0, 1 and 4 bytes, reads of 1 and 4, one new key, `bytes_read` starting at 0, 2 or 5 | `XorPipe` is implemented; ring, mutex and loop invariants; every call is answered |
| `xorbox_uninit` | the same, `bytes_read` starting at 0 or 5 | **violated**: a read reports bytes it did not deliver (`xorbox.c:58`) |
| `driver_lifecycle` | all four drivers; 3 processes | releases are balanced on every path, memory outlives the registered interface and the open files of xorbox, but for the three slips of `my_crypto` named above |
| `crypto_file` | one process, buffer of 3, every seek | `CryptoFile` is implemented; reads and writes stay within the data and the buffer |
| `crypto_lost` | two processes | **violated**: a write that was answered is cut off by a racing one (`my_crypto.c:191`) |
| `packet_slot` | both devices, 2 processes in turn or overlapping, buffer of 2, packets of 0, 1 and 3 bytes | `PacketDevice` is implemented for programs that take turns; overlapping reads hand out written bytes only |
| `router` | three scenes: both programs, one frame queued per tap, 10 frames that may arrive; two hosts, one ping across and one to the router's far address, one frame lost; one message of 6 or 7 bytes, four values of a damaged word | what leaves is true of its tap and of the frame it answers, sums are right and TTLs alive, no read of an empty tap, no starvation; `PingService` is implemented, hosts know their gateways, every ping is answered; the sum tells damage |
| `select_server` | 3 clients, one of which only listens, 2 descriptors | watched = open connections; accept and recv do not wait; while everybody reads, everybody is accepted and every descriptor given back |
| `select_garbage` | 2 clients | **violated**: what is broadcast need not be what a client said (`select-server.c:84`) |
| `select_own_message` | 2 clients | **violated**: a client that comes back is sent its own message (`select-server.c:89`) |
| `fork_servers` | two scenes: both servers, 3 clients, 2 children; one session with 2 characters, lines of 1 and 2, 5 characters in all, reads of up to 3 | nobody waits for another, streams end, requests are answered; `EchoStream` is implemented however the streams are cut, messages are answered, the child ends with its client |

Every property of a passing run has a mutant: the definition named `X_Something`
in front of `X` is `X` with a plausible mistake in it, under which the property
fails.

**Bounds.** The xorbox ring of 3 with chunks of 2 is the smallest in which a
transfer needs more than one chunk, ends in a partial chunk, and wraps in the
middle of a chunk; writes of 4 exceed the ring. Two processes already give every
order of two calls; the theorems cover the other sizes. The circular buffer of 4
wraps at every offset. In `packet_slot` a buffer of 2 and packets of 0, 1 and 3
bytes give an empty packet, one that leaves bytes of its predecessor behind it and
one that is cut; the four byte values tell the packets and a cleared byte apart. In `crypto_file` seeks reach before, into, at and past
the end of the data and of the buffer. A router queue of one frame is enough
because a round handles at most one frame of a tap: more frames only make it
ready again. In `select_server` three clients for two descriptors force `accept`
to fail and descriptors to be reused within a scan; the client that only listens may still
stop reading, and the two others do everything; the proofs have no such client. The two
violated runs need no more than two clients. In `fork_servers` three
clients for two children force `fork` to fail. In `router` the traffic has every kind of
frame the handlers tell apart, and on one tap or the other a short one of either type and
wrong sums; one loss loses any frame of the exchange, an ARP answer, a ping or its answer (the
proof has any number); the two pings make one host both
ask and answer, and one address is the router's own. There the bytes of a message give
words like 0, 1, 255, 256 and 65535, among them sums whose carry carries again; the message is summed in
behaviours of their own, because nothing but what a checksum means connects the two
modules. In the session of `fork_servers` five
characters are three lines, so that two replies can be under way in pieces when a
third line is typed.

`CHECK_DEADLOCK FALSE` appears where the program stops by itself (the router and
the chat server exit on an error), runs out of clients (the forking servers) or of
pings, waits for a client that does not read (the chat server), or ends with its session (the echo client and its child).

**Fairness.** Weak fairness of the one process (`Router`, `SelectServer`) or of
each process (`ForkServer`, `EchoSession`) says that the scheduler runs it.
`XorboxDevice` takes weak fairness of the chunk loop, which nothing blocks, and strong
fairness of taking the mutex: the kernel mutex hands itself over to a waiter it has
passed by. `ForkServer` takes strong fairness of accepting each client, because the
backlog is a queue. In `RouterNetwork` the hosts get strong fairness of looking the
gateway up, sending a ping and sending an answer: they retry on a timer, and the
gateway may be forgotten and the queue full in between; losses are bounded, so they
do not go on for ever. MC modules state the same fairness of the steps of each scene. The
liveness of the chat server is claimed under a hypothesis, `EverybodyReads`: no client stops
reading for good while it stays connected; without it one such client holds the server
for ever (`select-server.c:91`). The echo client gets fairness for its writes and reads, not
for `fgets`, which waits for a user. Users, clients, signals, forgetting and failures
have no fairness.

**Disagreements with the repository's own words** are the four runs marked
violated; `PROJECT.json` quotes the lines. The slips of `my_crypto` contradict no words of
the repository and have no run: they are the named exceptions of `DriverLifecycle`, and
without them TLC finds `NothingLeaked` and `OnlyOwnedReleased` violated. Met while modelling
and not given a run: the chat server closes a connection after every `recv` although the
comment at `select-server.c:75` explains the close as a hang-up; the greeting server
prepares a `struct sigaction` "reap all dead process" (`server.c:55`) and never
installs it, so its children stay zombies (`NobodyWaitsForAnother` and `StreamEnds` hold all
the same, because a `fork` that fails is survived); `tun_custom_char.c:53` registers its
exit function with `module_init`.

## Proofs

For every value of the constants that satisfies the named assumptions:

- `CircularBufferProofs`: `RingConsistent` (`IndicesConsistent`), the refinement
  `Spec => FifoSpec` (`ImplementsFifo`) and `FreedSlotsVacant`
  (`PoppedItemsReleased`). `RingConsistent` alone is not inductive: that a push
  lands behind the window needs the ranges of the indices (`TypeOK`), and the
  refinement of a pop needs every occupied slot to hold an item. The inductive
  invariant is the conjunction. Both kinds of buffer (`ClearsOnPop`) are covered;
  TLC runs the clearing one.
- `XorboxProofs`: `RingConsistent`, `LockHeldInLoop`, `LoopWithinRing`, for any
  number of processes, any ring, chunk, data and start of `bytes_read`. The
  inductive invariant adds `TypeOK` and the fact that a process in the loop is
  in a read or a write: the loop bound holds until the last chunk because the
  mutex keeps every other process from changing `data_len`, and the ring stays
  consistent because a chunk is never larger than that bound.
  `ImplementsPipe` proves the refinement `Spec => PipeSpec`, whatever `bytes_read` starts at. A
  turn of a loop leaves the pipe and its clients as they are, and the step that ends the call is
  the pipe's: the invariant (`Loading`) says that a read has copied the first bytes of
  the pipe, which are still where they were in the ring, and that a write has appended the
  first bytes of its own. The mutex is what keeps this true between two chunks.
- `CryptoProofs`: `WritesInBounds` and `TypeOK` for any number of processes
  without a lock. A position and a length belong to the call that checked them,
  so no other process can make the check stale, and `data_size` is only ever set
  to a position so checked. The run has one process; the theorem has any number.
  `ReadsWithinData` and `CompletedWritesReadable` are proved for a process alone
  (`Proc = {p}`), which is all that is true of them: there the inductive invariant
  adds what the call has compared with `data_size` (`Kept`), which nobody else changes.
  For such a process `AloneImplementsFile` is the refinement `Spec => FileSpec`: a read is a
  step of the file when its copy ends, a write as soon as it has passed its checks, because it
  cannot fail any more; the file then shows bytes the loop has still to store.
- `PacketSlotProofs`: `OnlyWrittenBytes` and `TypeOK` for any number of overlapping
  processes, any packets and any size of the buffer. That a read returns written bytes is
  not inductive: it works with a length it took earlier, while others store and set
  lengths. The inductive invariant says that the bytes below the length, below every
  length a read has taken (`Reading`) and below what every write has stored
  (`Writing`) have been written; nobody ever un-writes a byte, a failing copy
  included, because it clears with a byte of its own.
  `ImplementsDevice` is the refinement `Spec => DeviceSpec`. Its invariant (`TurnInv`) speaks
  of programs that take turns (`turns`): one call is under way; the bytes it has not come to
  are those of the slot as it was when the call began (`SlotKept`); a read has copied that slot's first
  bytes, and a write has stored its caller's first bytes, and behind them the zeros
  of a copy that stopped.
- `RouterProofs`: `SpeaksForItsTap`, `LeavesVerifiable` and `ReadNeverBlocks`, for both
  programs, queues of any length and any traffic that satisfies `TrafficAssumption`: frames
  of the types the code tells apart, whole or short, with any sums and any TTL, that state
  the lengths they have. What is true of a frame that goes out follows from the frame just
  read, whatever the buffer held before it: the body of a short frame is the buffer's, but it
  is cut off again. That the copies of `ArpReply` lose nothing is a lemma of its own. That a
  read does not block needs that every tap still to be handled in a
  round has a frame, which only the tap's own turn takes out of its queue.
  For the network, the refinement `NetworkSpec => PingSpec` and
  `GatewayKnownRightly`, for any pings, any number of losses and queues of any
  length. The inductive invariant says what may be waiting in a queue
  (`Sendable`): only requests for the gateway, pings, and answers to pings that have
  reached the host; so an answer that comes out belongs to a ping that went in.
  `Handled` says what the handlers write for a frame of each kind; the rest is about
  the hosts.
  For the checksum, `SumTellsDamage` (`DamageTold`), for any message to `BUFFER_SIZE`, any field and any damage. The sum of all words cannot be
  written down without recursion, so the invariant (`ChecksumInv`) says that partial sums
  of the words exist, grown by one with each turn of the loop, and that `acc` is equal to
  them up to multiples of 65535 and is 0 only if they are; a store, a damaged word and a
  swap each move all partial sums behind them. That `acc` never overflows is part of it.
- `SelectServerProofs`: `WatchesOpenConnections` (`WatchSetExact`) and `ReadNeverBlocks`
  (`AcceptAndRecvReady`), for any number of clients and descriptors, whether clients come
  back and whether they read. They are inductive together with a fact about
  descriptors: a client is in one place, the backlog or one descriptor (`OnePlaceEach`), so
  that a `recv` makes no other descriptor of the scan unready.
- `DriverLifecycleProofs`: `OnlyOwnedReleased`, `NothingLeaked`, `PublishedBacked` and
  `XorboxFilesBacked`, for any number of processes and of loads. What is held is never
  arbitrary (`IInv`): it is what the init function has acquired so far, or what it had when a
  list of releases began, less what that list has released. Each list is
  then judged once, for what is held when it begins (`Laid`): it gives back what is
  owned, once, interfaces first, and leaves nothing; the slips of `my_crypto`
  are where its lists fail this. An open file of xorbox pins the module, so no list runs.
- `EchoSessionProofs`: the refinement `Spec => StreamSpec` (`OneStream`), for any
  characters, lengths of lines and buffers, amount typed and cutting of the streams. The
  invariant is the types of the four places bytes may be in; the argument is that each
  step takes bytes off the front of one and puts them at the back of the next.

Remainders are kept behind `Wrap`, with two lemmas about one turn around the
ring, because the arithmetic of `%` by a symbolic size is out of the solver's reach.

Only model-checked: the liveness properties, which need fairness: `EveryCallAnswered`,
`NoTapStarves`, `PingsAnswered`, `EveryoneAccepted`, `HungUpReleased`, `MessagesAnswered`,
`ChildEnds`, and `ForkServer` altogether, whose properties are all of that kind. Every
invariant and every refinement of a passing run is a theorem; those about `my_crypto` that
need a process alone say so in their hypotheses, which the run shares.

## Not modelled

- `tap.c` does not compile. The load and unload of `tun_custom_char.c` are left out
  because it declares two init functions and does not build either.
- The sniffers, `getip.c`, `select.c` and `beej-guide-networkp/client.c` are
  straight-line I/O; `draft.c` is a sheet of notes.
- `merge-sort.c` is a recursive function on one fixed array, `mutex-lock.c` two identical
  jobs under one mutex whose order nothing depends on; assembly, shell, CUDA and
  the other console exercises keep no state.
- The environment scripts drive `ip(8)`. `RouterNetwork` takes the topology they
  create; a command of theirs that fails is not modelled (`setup.sh:22`: `log_step` reports
  the first command of an `&&` list, and one in its middle that fails ends the list,
  not the script).
- `dev_open` and `dev_release` of the drivers change no state of theirs beyond what
  `DriverLifecycle` records. The transmit handler of `tun_custom_net.c` frees the
  packet it is given and keeps nothing.
- Both ends of an echo session blocked in `write` on full socket buffers (the chat server's
  `send` does block, see `SelectServer`).
- IP packets whose header states other lengths than they have: `handle_ip` checks none, and
  sums whatever bytes the lengths reach.

## Plan

Done, in this order: `CircularBuffer`; `XorboxDevice`; `DriverLifecycle` and
`CryptoBuffer`; `Router`, `SelectServer`, `ForkServer`; `PacketSlot`; `RouterNetwork`;
`EchoSession`; `InternetChecksum`; and the proofs listed above.

Left:

1. What the forking servers keep at every moment, as invariants and then theorems: the
   parent holds no connection but the one it is handing over, and children stay within
   their limit.
2. What a reader of `my_crypto` may see while another process writes: a statement
   between the file of one process and the bounds of any number.
