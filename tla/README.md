# A TLA+ model of U-Boot's network loading and environment storage

The repository is a U-Boot tree (2015.07, built for `mx6sabresd`). U-Boot is a
boot loader: single-threaded, polled, without interrupts. What is hard to test
in it is not parallel threads but what happens *around* it: packets that are
lost, repeated or late, timers that expire in the turn in which a packet
arrives, globals that outlive the command that set them, and power that fails
between two writes to flash. This project models the parts in which that
decides whether the code is right.

Paths below are relative to `src/u-boot`. Variables, actions and operators keep
the names of the C code. An action that stands for part of a function is named
for that part (`RecvOack` is the case `TFTP_OACK` of `tftp_handler`).
Definitions marked "Mutant" in the modules are deliberate bugs, used to see
that each property would notice one; the specifications do not use them.

## 1. The system

| Part | State | Operations | What is hard |
|---|---|---|---|
| TFTP (`net/tftp.c`) | state, ports, block counters, time-out counters, put flags, memory | request, OACK, data, ack, error, time-out, start, server start | loss, repetition, reordering, the 16-bit block number, several sessions, globals shared by commands |
| Network loop (`net/net.c`) | `net_state`, handlers, try counter, wrap flag | `net_loop`, `net_start_again`, time-outs, ctrl-C | handlers and the loop both set `net_state`; several packets per `eth_rx` |
| Interfaces (`net/eth.c`) | ring of devices, current one, `first_failed` | init, halt, rotate, select | init fails half way through a rotation; state survives a call |
| Environment in RAM (`common/env_common.c`, `cmd_nvedit.c`) | hash table | import, export, default, set | what RAM holds after a failed save or boot |
| Environment storage (`common/env_sf.c`, `env_flash.c`, `env_mmc.c`, `env_nand.c`) | two copies with CRC and flags or serial, copy in use | boot, `saveenv` | power failure and device errors between any two steps; the 8-bit serial |
| ARP and ping (`net/arp.c`, `ping.c`, the sending half of `net.c`) | the packet that waits, whom it waits for, tries | send, reply, time-out, abort | one transmit buffer; a wait outlives its command |
| NFS (`net/nfs.c`) | state of the dialogue, ports and handles, offset | one handler per reply, time-out | late and repeated replies, links, what an earlier command left |
| DHCP (`net/bootp.c`) | state, ids of the requests, server | offer, acknowledgement, time-out, loading after it | several servers, answers to an earlier request, the id cache when full |
| Link-local addresses (`net/link_local.c`) | state, probes and claims sent | probe, announce, end | another host answers |
| Reassembly of IP fragments (`net/net.c`) | a list of holes inside the packet | `__net_defragment` | order, repetition, two datagrams |
| Hash table of the environment (`lib/hashtable.c`) | open addressing with deletion marks | search, enter, delete, import | marks, refused changes, a table without a free slot |
| Memory blocks of bootm (`lib/lmb.c`) | sorted table of regions | reserve, free, allocate | merging, splitting, a full table |
| Drivers, file systems, shell, console, SPL, tools | devices and formats | | not modelled, see section 8 |

`PROJECT.json` lists every part with its sources under "components", and under
"hazards" what can go wrong in it, each at its line.

The parts meet in `net_loop`: a command calls it, it selects and starts an
interface, starts the protocol, and polls. Handlers report through `net_state`;
a failure goes through `net_start_again`, which counts tries and rotates the
interfaces. The environment supplies the settings (`netretry`, `ethrotate`,
`ethact`) and is saved by `saveenv`.

## 2. Modules

| Module | Models |
|---|---|
| `Tftp` | `net/tftp.c` with the polling loop of `net_loop`; TFTP servers, a remote client and the UDP network are external |
| `TftpGetInv` | the inductive invariant of `tftpboot` |
| `TftpProofs` | its proof, the peers first and then our side, and what follows |
| `TftpPutInv` | the inductive invariants of `tftpput` and `tftpsrv` |
| `TftpTypeProofs` | type correctness of `Tftp`, all commands; the proofs about `tftpput` and `tftpsrv` |
| `NetRetry` | `net_loop`, `net_start_again` and the rotation of `net/eth.c` (without driver model), for any protocol |
| `NetRetryProofs` | types, one running interface, the pause after a full rotation |
| `EnvStore` | abstract: what `saveenv` and the boot promise together |
| `EnvBase` | what the four backends share: two copies, RAM, `saveenv`'s beginning and end, power failure |
| `EnvFlags` | the choice of a copy by a flag byte (SPI and NOR flash) |
| `EnvSerial` | the choice of a copy by a serial number (MMC and NAND) |
| `EnvSf`, `EnvFlash`, `EnvMmc`, `EnvNand` | the backends with a redundant copy |
| `EnvBoard` | the constants and variables of a board, new or worn |
| `EnvStores` | a board with one of the last three backends |
| `EnvBoardProofs` | what the steps of the three do, in common terms, and the invariants they keep |
| `EnvStoresProofs` | `EnvStores` takes no other steps, so it keeps the promise of `EnvStore` |
| `NetCmd` | what `net_loop` gives every protocol, for `Nfs`, `Dhcp` and `LinkLocal` |
| `Nfs`, `Dhcp`, `LinkLocal` | the three clients; NFS and DHCP servers and the other hosts are external |
| `NetClients` | a session: commands of the three in any order |
| `NetClientsProofs` | what an NFS load has loaded, why one fails, what a DHCP lease rests on |
| `Arp` | sending through ARP |
| `ComponentProofs` | `EnvSf` implements `EnvStore`; the proofs about `Arp` |
| `Defragment` | `__net_defragment` |
| `Hashtable` | `lib/hashtable.c` |
| `Lmb` | `lib/lmb.c`, the reserved regions |
| `LmbProofs` | what callers have reserved stays reserved |
| `NetLoop` | for TLC: `NetRetry` and two instances of `Tftp` |
| `Parts` | for TLC: `EnvStores`, `Hashtable`, `Lmb`, `Defragment`, `Arp` |

`NetLoop` and `Parts` put specifications without common state side by side: a
behaviour chooses one at its start and stays with it. Nothing is claimed about
two of them together.

### Tftp

A byte of the file is identified with its position, so memory is right when
address `a` holds `a`. Packets are records; `num` is the block number without
the 16-bit cut, which no handler reads. `Receive` has one action per case of
`tftp_handler`; `Timer` is the time-out check of `net_loop`; `Switch` its
`switch (net_state)`. With `Batch` one `eth_rx` hands over several packets
before the switch. `net_start_again` is kept to what `tftp.c` sees of it: give
up, restart, or pause. The models meet there, `NetRetry` having the detail.

The network is given by constants. `Wild` lets every packet be lost or
repeated and every timer expire at any time. `Reorder` says how many newer
packets of a session may overtake one: 0 is a network that keeps each session
in order (a single Ethernet segment), a large value one that does not.
In a wild network `Lose` and `PeerTimeout` are never enabled, and
`WildSpec`, which the runs of such a network use, leaves them out. `FreshPorts` excludes that two attempts draw the same port: `tftp_start` takes
it from the timer, and a collision needs a restart exactly a multiple of 3072
ticks later. ARP is left out here, and is in `Arp`: its retries end in
`net_start_again`, as `RecvIcmp` does.

### NetRetry

The place in `net_loop` is `pc`. The protocol is external: on a packet or a
time-out it succeeds, fails or calls `net_start_again`. `eth_init` gives the set
of outcomes of walking the ring while interfaces in `Broken` fail. `SetEnv`
changes `netretry` and `ethrotate` between calls, as `setenv` does. `visited`
and `faulted` are history.

### The environment

A copy is a record: whether its CRC is good, the flags byte, the environment.
An environment is a model value. A device call in `SaveFaults` or `BootFaults`
may report an error, with all, part or none of its effect. `PowerFail` may come
between any two steps. Erasing and overwriting spoil the CRC first, so a cut in
the middle is a state of its own.

`EnvStore` says: a boot loads the environment saved last, or one whose save
failed or was cut off since, and the next boot loads the same. The history
variables `saved` and `maybe` of `EnvBase` are the refinement mapping. They
record what was returned to the user, never what the storage holds.
A boot that could not read the storage (`clean` is FALSE) runs on some
environment; a save on top of it voids the promise.

`EnvStores` takes each backend as an instance whose faults and largest serial
depend on the board. On a worn board erases and writes fail too. There the promise of
`EnvStore` does not hold (section 4), and weaker properties are stated.

### NFS, DHCP, link-local

`NetCmd` has the state the protocols share: `net_state`, the handlers, the try
counter, and the order within a turn of the loop: packets, then a time-out,
then the switch (`timed_out`). A protocol is its handler and its timer. The
network is good, lossy or late, and stays so; `NetCmd` says what each means.
The statics of one command are what the next one finds.

In `Nfs` only the latest call is kept, since only a reply with its RPC id
counts; `RecvOld` stands for all others. A file handle is the path it was got
for, and path `h + 1` is what the link at path `h` points to. The server may cut
a reply short at any length. Its replies have a null verifier: one with another
verifier and no error would count as the end of the file (`nfs.c:547-550`,
`683-684`), and is not modelled.

In `Dhcp` a server is the number of the address it gives, and `wire` the replies
on their way. Those in `NextServers` name a server to load from (`siaddr`),
themselves; after a reply of another `net_server_ip` is what it was, at first
the setting `serverip`. The file is the same on all of them. In a good network the first DISCOVERs may come before the link is
up (`FirstHeard`), and an offer takes `Delay` retransmissions, so that the
client must still know an id that is not its latest. `LongWords` is the size of
`ulong` in ids: `bootp_add_id` uses it for the size of a 32-bit array.

In `LinkLocal` the answer of the host that has the address changes nothing, as
`link_local_receive_arp` has no caller in the tree.

### ARP

A host is its hardware address. There is one buffer (`net_tx_packet`) and one
wait; `out` says that the packet in the buffer has left. The protocols above are
"udp", which forgets `net_server_ethaddr` when it starts, "ping", and "dhcp",
which broadcasts. `net_start_again` is again what a protocol sees of it.

### Defragmentation, hash table, memory blocks

`Defragment` keeps the hole descriptors where the code does, in the packet, so
that data may overwrite one. A datagram is cut in one way by its sender; its
fragments come in any order, again, or not at all.

`Hashtable` has the probe sequence of `hsearch_r` with the primes and marks of
the code, and `himport_r` with `H_NOCLEAR` and with a selection of variables.
Whether a change is refused is a choice.

`Lmb` has `lmb_reserve`, `lmb_alloc_base`, the free-and-reserve of
`image_setup_libfdt`, and `boot_start_lmb` for another `bootm`, over a memory of
a few bytes; `blocks`, what the callers hold, is the reference that the table is
compared with. Addresses and sizes are words of `Bits` bits, and sums and
differences wrap. `lmb_align_down` masks bits, also for the alignment 0xf of
`image.c`, which is no power of two; `Lmb` writes the mask as arithmetic, for
the proofs, and `AlignMasks` of `Parts` compares it with `&` for every address.
Once a region has gone over the top of the address space (`over`) only another
`bootm` follows: this one writes where there is no memory.

## 3. Runs that pass

| Run | Properties | Shows | Bounds |
|---|---|---|---|
| `TftpGet` | `TypeOK`, `GetInv`, `LoadIntegrity`, `StoreExtent`, `AckedIsStored`, `SessionLock` | a `tftpboot` that reports success has the file in memory, whole and in place | 3 bytes in blocks of 1 or 2, counter modulo 3, 2 attempts, 2 sessions, sessions in order; refusals, ICMP, ctrl-C |
| `TftpReorder` | `LoadIntegrity`, `StoreExtent`, `PutPrefix`, `SrvSendsAcks` | `tftpboot` and `tftpsrv` load the file, and a server has a prefix of a file put, when packets overtake without limit | 3 bytes, 1 command, 2 attempts, no wrap, one packet per `eth_rx` |
| `NetLoop` | `TypeOK`, `OneInterface`, `PauseAfterAll`, `Ends`, `Terminates`, `Recovers` | no interface but the current one is left running; the pause comes after all interfaces; a bounded `netretry` ends; a `tftpboot` ends whatever the server and network do, and survives `TIMEOUT_COUNT` losses | 3 interfaces, 2 of which may fail, 1 without an address; `netretry` 0, 1, 3 and "yes"; files of 2 and 4 bytes, 2 attempts, 3 losses |
| `EnvSf` | `TypeOK`, `Durable`, `Refines`, `BackupKept` | SPI flash keeps the promise and a good copy, all calls failing | 3 environments |
| `NetClients` | `NfsLoaded`, `NfsFailure`, `DhcpLease`, `DhcpParams`, `CommandEnds`, `GoodSucceeds` | a loaded file is the file and a failure has a reason; a lease is one its server holds, and what goes with it comes from that server; every command ends; in a good network it succeeds, whatever came before | 2 commands, 2 bytes behind one link, 2 tries, 2 servers, 2 ids in the cache and 3 DISCOVERs |
| `Parts` | `StoresTypeOK`, `StoresRefine`, `StoresBackupKept`, `SerialSavedIsLoaded`, `StaysStored` | NOR flash, MMC and NAND keep the promise, through the repair at boot and the wrap of the serial; on a worn board a save on MMC or NAND that succeeds is the one loaded next, and NOR flash and MMC keep a good copy | new board: no erase fails, on MMC and NAND no write, serial modulo 4; worn board: boots can read the storage, serials up to 4 |
| | `TableFound`, `TableWalked` | after any sets, deletions, refusals and imports a search finds what was last set, and a walk sees just that | 4 names, two that collide at once and two later, in 5 slots, 6 creations |
| | `Kept`, `HighestFree` | no reservation is forgotten; an allocation gets free memory below its limit, the highest aligned place if the alignment is a power of two | 10 bytes, addresses of 5 bits, 3 regions, 4 blocks of up to 4 bytes, alignments 1, 2, 4, 7, limits above and below the size of a block |
| | `Reassembled` | a packet is returned exactly when its last fragment has come, and is the datagram | 6 and 3 fragments of one or two blocks, the first of a datagram first |
| | `FrameRight`, `PacketKept` | a packet for a host goes to it or the gateway, whole; a protocol that waits has its packet out or waiting | 3 hosts, one behind the gateway, any number of commands |

Bounds. The block counter is a few values wide, so that a file of four blocks
(the last one empty) wraps it, which 16 bits would need 32 MB for; the code uses the width only
through `TFTP_SEQUENCE_SIZE` and the 16-bit field. Two sessions are what a
repeated request can open, two attempts what a restart needs. Three interfaces
are the fewest with an order and a way round. Three environments are the
default, an old one and a new one. Serials modulo 4 tell the pair (last, 0)
from any other; away from the wrap `Horizon` stops saves before it.
`TftpReorder` with `FileLen = 4` and `DefBlk = 3`, three blocks with options,
passes too (474,018 states); the smaller file keeps the run to a minute.
`net_try_count` under `netretry=yes` is capped by `MaxTry`, which no guard reads
then. Two commands show what one leaves to the next. With faults a session of
`NetClients` is one command, or one of `Faulty` twice; in a good network it is
any two. Five slots and six creations let the marks of deleted entries fill the
table; three regions fill the table of blocks. `MaxCmds` and `MaxCommands` bound
the number of commands, so the runs of the network stop when the user does:
deadlock is not checked there, and is in `EnvSf` and `Parts`.

Fairness. `LoopSpec` of `Tftp` (for `Terminates`): an armed timer expires and
`net_state` is acted on, because the loop polls; no packet need arrive.
`PromptSpec` (for `Recovers`) adds that the network delivers what it does not
lose and that peers answer; strong fairness of the timer stands for a clock
that runs on while packets arrive. `LoopSpec` of `NetRetry`: the loop goes on,
`eth_rx` returns, and each protocol's time-outs end a try. `NetLoop` takes
these over, each for its instance. `LoopSpec` of `NetClients`: an armed timer
expires and `net_state` is acted on; in a good network, and only there, what is
sent is answered.

## 4. Where the code breaks a property

Six runs each check one property that a comment or a document states, and TLC
shows the steps by which the code breaks it. "findings" in `PROJECT.json`
quotes the text.

| Run | Property | The code |
|---|---|---|
| `TftpPutDelivered` | `PutDelivered` | takes any ACK after the last block for its ACK |
| `TftpPutNoOptions` | `Recovers` | repeats the write request to a server without options |
| `NetRetryReturn` | `NoErrorIsSuccess` | returns 0 after a failure with one interface and `netretry=yes` |
| `EnvFlashErase` | `SavedIsLoaded` | returns 0 when the erase fails |
| `DefragReorder` | `Reassembled` | reads hole index 0 as "none": a fragment from the middle, then the last one, make a packet without its beginning |
| `LinkLocalClaimed` | `Negotiated` | never calls `link_local_receive_arp`: an address that another host claims is taken |

The bounds of section 3 mark where other properties stop holding. Each of these
changes to a configuration makes TLC show the case; the line in the code is in
"hazards".

| Change | Broken | The code |
|---|---|---|
| `TftpGet` with `Reorder = 1` | `LoadIntegrity` | counts a late copy of block 0 as another wrap |
| `TftpReorder` with `FileLen = 4`, `DefBlk = 3` and `Batch = TRUE` | `LoadIntegrity` | lets a success overwrite a failure within one `eth_rx` |
| `TftpReorder` with `FileLen = 4`, `SeqSize = 3` and `TFTPPUT` only | `PutPrefix` | never notices the wrap when sending |
| `TftpReorder` with `MaxCmds = 2` | `SrvSendsAcks` | keeps `tftp_put_active` from a `tftpput` for `tftpsrv` |
| `NetLoop`, `Prompt` with `TFTPPUT`, `ServerOpts <- {TRUE}`, `MaxLoss <- 1` | `Recovers` | skips block 1 when an OACK is repeated |
| `Parts` with "rest" in `FlashFaults` | `StoresBackupKept`, `StoresRefine` | NOR: returns 0 with its pointers unmoved |
| `Parts` with "erase" or "write" in `SaveFaults` | `StoresBackupKept` | NAND: erases the copy in use when the other cannot be written |
| `Parts` with `WornMaxSerial = 3` | `SerialSavedIsLoaded` | a failed save makes the serial skip the wrap |
| `Parts` with "init" in `WornBootFaults` | `SerialSavedIsLoaded` | the serial restarts at 0 after a failed boot |
| `NetClients` with `LongWords = 2` | `GoodSucceeds` | moves too little of the id cache when `ulong` has 64 bits |

More are exceptions in the statement of a property, which fails without them. `PauseAfterAll`
excepts an interface that has failed to come up, because `net_restart_wrap` and
`first_failed` survive a call. `BackupKept` and `EnvStore` except a boot that
could not read the storage: `env_sf.c` then takes copy 1 for the one in use and
`saveenv` erases copy 2. And with `netretry=once` (`Retries = {1}`) only one
interface is ever tried, where `README:5449-5451` has all of them tried.

* `DhcpLease` excepts the late network: an ACK the client has given up waiting
  for is taken for the answer of the server it has asked since.
* `NfsFailure` allows that a late reply ends a transfer: in the state READ, and
  only there, a reply to an earlier call counts as an error.
* `TableFound` and `TableWalked` need a slot that was never used. Without one,
  ENTER of a new name overwrites the live variable where its search began.
* `Kept` excepts calls after the table was full, as `lmb_free` has already
  shortened the region then; and calls that add an overlapping region, which the
  rounding in `lmb_alloc_base` may do (to see it break takes 12 bytes of memory
  and 5 regions).
* `Kept` and `HighestFree` except a limit smaller than the block. `base - size`
  (`lmb.c:301-302`) then wraps, and an address near the top of the address space
  is returned and reserved.
* `FrameRight` is about packets for a host. A failed command leaves its wait
  behind, and in a later `dhcp` the answer sends the broadcast in the buffer to
  that one host, with the size of the earlier packet.
* `GoodSucceeds` takes a good network to be one where nothing comes in the turn
  its time-out expires: `bootp_timeout_handler` may then take a success back.
  Nor is ctrl-C pressed there: `do_link_local` stores `net_ip` as `llipaddr` all
  the same, and the next `linklocal` refuses it.

## 5. What is proved

The proofs hold for all values of the constants allowed by the named
assumptions: `TftpAssumption`, `NetRetryAssumption`, `EnvAssumption`,
`SerialAssumption`, `WornAssumption`, `NetCmdAssumption`, `NfsAssumption`,
`ArpAssumption` and `LmbAssumption`. Six hypotheses are stated in the theorems
that need them: `InOrder`, `SrvAlone`, `OneCommand`, `FewBlocks`, `Healthy` and
`SerialSeen`. The runs satisfy them, and section 4 shows what breaks without
them.

* **Type correctness of TFTP** (`TftpTypeProofs!TypeCorrect`): all commands,
  networks and faults. `TypeOK` bounds the time-out counter, which is not
  inductive alone: `TimeoutBound` adds that a counter over its limit has no
  timer that could count again, and the packets and sessions need types too.
* **`tftpboot` loads the file** (`TftpProofs`): `LoadIntegrity`, `StoreExtent`,
  `AckedIsStored` and `SessionLock`, assuming `InOrder` (only `tftpboot` runs,
  sessions stay in order, ports are fresh). Reordering is excluded because the
  claim is false with it (section 4). The invariant
  `GetInv` links three views of a transfer: the server is at most one block
  ahead of what has reached us (`SessInv`), packets in flight agree with their
  session (`PacketInv`), and the wrap offset makes up exactly for what the
  counter has dropped (`DataInv`). The heart is `WrapExact`: a new block is the
  successor of the last one, so it has number 0 exactly when the counter wraps.
* **`tftpput` stores a prefix of the file** (`TftpTypeProofs!PutPrefixHolds`),
  on any network: packets may be lost, doubled and reordered, and servers may
  answer from several ports. It assumes `OneCommand` (one command in the session,
  or all of them `tftpput`) and `FewBlocks`: the file has fewer blocks than there
  are block numbers, and no more OACKs come than that, as each moves
  `tftp_cur_block` on. Otherwise an old block passes for a new one (section 4).
  `PutInv` says that the number of every block on its way tells which part of the
  file it is, and that a server has stored just the blocks before the one it
  expects.
* **`tftpsrv` answers only with ACKs** (`TftpTypeProofs!SrvSendsAcksHolds`),
  assuming `SrvAlone`: one command, or a session without `tftpput`, whose
  `tftp_put_active` stays behind (section 4), and with fresh ports. `SrvInv` says
  that only offers come to the well-known port and nothing leaves from it, so
  `tftpsrv` has moved to a port of its own before it acknowledges anything.
* **The rotation of interfaces** (`NetRetryProofs`), for any number of them and
  whichever fail: `NetLoopTypes`, `OneInterfaceRuns`, and `PausesAfterAll`: unless
  an interface has failed to come up, the pause comes only after the rotation has
  been all the way round. `PauseAfterAll` says nothing of how far a rotation has
  come, so `RetryInv` carries an arc: from `first_failed` up to the current
  interface every one has been tried (`ArcVisited`). The lemmas about `Plus` do
  the arithmetic of the ring.
* **SPI flash keeps the promise** (`ComponentProofs`): `SfTypeCorrect`,
  `SfDurable`, `SfBackupKept`, and `SfRefinesStore`, `EnvSf` implements
  `EnvStore`. What a boot would load
  (`Pick`) changes in the middle of a save, so the invariant `SfInv` also says
  what the copy in use holds and that the spare one is complete once written.
* **NOR flash, MMC and NAND keep the promise** (`EnvStoresProofs`), for all
  environments, up to any serial and around its wrap. `StoresTypes` and
  `StoredStays` hold whichever calls fail. `StoresKeepPromise` (`EnvStores`
  implements `EnvStore`) and `StoresBackup` are about boards that are not worn
  and assume `Healthy`: there erases do not fail, nor the allocation and the
  restoring of a shared sector in NOR flash, nor the offset and the write on MMC
  and NAND. All reads and all else may fail. `SerialSavesAreLoaded` is about worn
  boards, with any erase and write failing, and assumes `SerialSeen`: the serial
  has not gone round, and boots can read both copies.

  The argument has two halves. `BoardSpec` of `EnvBoardProofs` states the steps of
  the three backends without instances, as cases the invariants can be proved on:
  what a step writes to which copy, and what it returns. `StoresInv` is inductive
  with all faults; `PromiseInv` adds, for a board that is not worn, that what a boot would load
  is a settled environment at every moment, and that on a clean boot the serial in
  RAM is that of the copy in use, one more while saving; so the copy written is
  chosen next, also at the wrap. `SerialInv` replaces this on a worn board, where a
  failed save leaves the serial ahead of both copies: no good copy has a larger
  one. `Visible` lists what a step can show to a user, and each case is a step of
  `EnvStore` or none. `BoardImplemented` then shows that every step of
  `EnvStores` is one of `BoardSpec`.
* **An NFS load that succeeds is the file** (`NetClientsProofs!NfsLoadsFile`), in
  any session of `nfs`, `dhcp` and `linklocal` commands and any network. The
  invariant `NfsInv` says, while NFS has the packet handler: nothing counts as
  loaded before the state READ; there the latest call asks for the byte at
  `nfs_offset`, and all bytes before it are in memory; and the download counts as
  a success only with the whole file. `HandlerInv` adds that a success of DHCP or
  of an earlier command is never taken for one of NFS. One lemma per reply.
* **One that fails has a reason** (`NfsFailsForAReason`). `FailureInv` says that
  NFS unmounts without the file only after a refusal or a late reply, and that it
  never takes over a command that has failed already.
* **A DHCP lease is held by its server** (`DhcpHasLease`), and what goes with it
  comes from that server (`DhcpParamsAgree`): the gateway and the server to load
  from if it names them, else the latter is an earlier one, and never anything
  but the setting or a server that was named. This is for any set of servers. The
  invariant `DhcpInv` is about the packets on their way: unless they come late, no ACK is left from
  an earlier request when the client selects, and an ACK on its way comes from a
  server that holds the lease.
* **Packets go where they should** (`ComponentProofs`): `FramesRight` and
  `PacketsKept`, for any hosts, gateway and number of commands. The invariant
  `ArpInv` ties the wait to the buffer: a wait is for the packet in the buffer,
  unless that is a broadcast, and a "udp" protocol knows the next hop of its own
  host or none.
* **What is reserved stays reserved** (`LmbProofs!KeptHolds`), for any memory,
  sizes, alignments and size of the table. `Kept` says nothing of the order of
  the table or of what two callers hold, and freeing a block keeps the others
  only if they share no byte with it. `LmbInv` adds both: the table is sorted and
  its regions are apart, and so are the blocks. The lemmas view the table as a set
  of bytes (`Covers`): merging two neighbours, inserting a region and splitting
  one change it by exactly the bytes of the call. Where `lmb_alloc_base` places a
  block does not matter here, only that it overlaps no region, which `sound` says,
  and ends below the top of the address space, unless `over`. `LmbAssumption` has
  the memory end an alignment or more below that top, so that no sum of a region
  in memory wraps (`SmallSum`, `SmallDifference`).

Only model-checked:

* all liveness (`Terminates`, `Recovers`, `Ends`, `CommandEnds`, `GoodSucceeds`):
  the proof system has no fairness reasoning;
* `TableFound`, `TableWalked`, `HighestFree` and `Reassembled`: the import of a
  text, the search for a place and the walk through the holes are folds and
  recursive functions, and what they compute would need induction over data.

## 6. Further work

`net_loop` called from `netconsole`, inside other network code; the driver model
(`drivers/core`): probe and remove undo what they did when a step fails; `bootm`
and DFU as state machines; `env_ubi`, `env_eeprom` and `fw_env` as a second
writer of the environment.

## 7. Reproducing

    tlc -config EnvSf.cfg EnvSf      # any run: its cfg, its module
    tlapm ComponentProofs.tla        # any module with proofs

`PROJECT.json` gives the module of each run; cfgs are named for their run.

## 8. Not modelled

* In the modelled files: multicast TFTP, loading straight into NOR flash, the
  environment without a second copy (it promises nothing on a power failure),
  the neighbouring data of an embedded sector, environments embedded in the
  image, and the network stack with driver model; plain BOOTP and the DHCP
  options other than server and gateway; NFS replies with a verifier; a fragment that comes after its
  datagram is complete (the code then reads hole descriptors that are data by
  now); matching by pattern and the text format in the hash table; several
  memory regions in `lmb`, and memory that reaches the top of the address space.
* RARP, DNS, SNTP, CDP: one request and one reply each, through the parts that
  are modelled.
* Environment callbacks and flags: `Hashtable` takes from them whether a change
  is refused. `netconsole`, the driver model, `bootm`, DFU: see section 6.
* Device drivers, PHYs, boards and SoC code: register accesses. The models take
  from them that a call succeeds or fails.
* File systems, partition tables, image formats, device trees, the shell:
  parsing and formats, with little state that several actors share.
* UBI and UBIFS, dlmalloc: imported code.
* SPL, board initialisation, console: straight sequences of calls.
