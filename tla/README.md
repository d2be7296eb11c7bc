# A TLA+ verification of liblxi

liblxi is a C library for the control of LXI instruments over a network: a
small API (`lxi_init`, `lxi_connect`, `lxi_send`, `lxi_receive`,
`lxi_disconnect`, `lxi_discover`, `lxi_discover_if`) on top of two protocol
backends (VXI-11 over RPC, and raw TCP) and three ways to do mDNS discovery.
This directory holds TLA+ models of it, TLC configurations that check them on
small instances, and TLAPS proofs of the properties that matter most for every
value of the constants. `PROJECT.json` maps every definition to the lines it
models.

## 1. The system

| Part | Source | State it keeps | Operations |
|---|---|---|---|
| Session table | `lxi.c`, `session.h` | `session[SESSIONS_MAX]` (allocated, connected, data, four function pointers), `session_mutex` | `lxi_init`, `lxi_connect`, `lxi_disconnect`, `lxi_send`, `lxi_receive`, `is_valid_session` |
| VXI-11 connect | `vxi11.c` 60–227 | two helper threads, a private mutex and condition variable, the RPC client in `vxi11_data_t` | `vxi11_connect`, `_pthread_timedjoin`, `_pthread_waiter`, `thread_vxi11_connect`, `_vxi11_connect` |
| VXI-11 I/O | `vxi11.c` 229–323, `vxi11core_clnt.c` | the RPC client and the link | `vxi11_send`, `vxi11_receive`, `vxi11_disconnect` |
| RAW/TCP | `tcp.c` | the socket in `tcp_data_t` | `tcp_connect`, `tcp_send`, `tcp_receive`, `tcp_receive_wait`, `tcp_disconnect` |
| Timeouts | `vxi11.c`, `tcp.c`, `bonjour.c` | none | milliseconds to a `timespec` deadline or a `timeval` |
| VXI-11 discovery | `vxi11.c` 335–602, `lxi.c` 223–260 | stack buffers, `stderr`, one UDP socket per interface | `vxi11_discover(_if)`, `discover_devices`, `get_device_id` |
| mDNS, Avahi | `mdns.c`, `avahi.c` | the globals `simple_poll`, `sb[10]`, `count`, `lxi_info` | `avahi_discover` and its callbacks |
| mDNS, Bonjour and Cygwin | `bonjour.c`, `cygwin_dnssd.c` | service references, `browse_data`; the global handle of the DLL and five function pointers | `bonjour_discover`, `cygwin_dnssd_discover`, `load_cygwin_dnssd_dll`, the two callbacks |
| RPC stubs, XDR | `vxi11core_clnt.c`, `vxi11core_xdr.c`, `vxi11core.h` | none | sixteen stubs and the XDR routines of their records, generated by rpcgen |
| RPC server skeleton | `vxi11core_svc.c` | transports, registrations, the arguments of a request | `main`, `device_async_1`, `device_core_1`, generated and not built by `meson.build` |

How they interact. A program calls the API from any number of threads. The
session layer calls a backend through function pointers in the session, with
`session_mutex` held for connect and disconnect and without it for send and
receive. `lxi_discover` calls the VXI-11 discovery or the mDNS backend, which
report through callbacks; the VXI-11 discovery is itself a client of
`vxi11_connect`/`send`/`receive` and, for its fallback, of the TCP backend, and
shares the descriptors of the process with the sessions.

What is hard about it:

- *concurrency*: the validity check and the use of a handle are separate
  critical sections, and send and receive read the table without the mutex; a
  VXI-11 connect has three threads, two mutex-guarded conversations,
  cancellation and two joins;
- *timeouts*: a deadline races the end of a thread or of a handshake;
- *partial transfers*: sends and receives are loops over pieces whose sizes the
  kernel or the instrument chooses;
- *partial failure*: every step of a connect or a discovery can fail and has to
  undo the ones before it;
- *state that outlives a call*: descriptors that are reused, `stderr`, the
  globals of `avahi.c` and `cygwin_dnssd.c`, uninitialised buffers, and the
  portmapper's registrations, which outlive the server;
- *repeated code*: every XDR routine has the order of its fields up to five
  times, and the buffers of both sides decide which copy runs.

What makes each part correct: sessions never touch each other's memory and are
never lost, and the table behaves as a set of handles; a connect returns with
all its threads ended and its client accounted for; a transfer stays in the
buffer, counts right and keeps the order; a discovery searches everything it
was asked to search, handles each answer once and closes its clients; a remote
procedure call runs the right function on the right argument. The hazards in
`PROJECT.json` give the lines where each of these could go wrong and the
properties that would notice.

## 2. The modules

| Module | Models | Abstraction |
|---|---|---|
| `Session` | `lxi.c`: table, mutex, heap blocks and threads, one action per atomic stretch of code | a backend call is one step that succeeds or fails |
| `SessionApi` | the abstract handle interface | connections only |
| `SessionProofs` | proofs about `Session` | |
| `Deadline` | the conversion of timeouts with C's division, as operators | |
| `Vxi11Connect`, `Vxi11ConnectProofs` | one `vxi11_connect`: caller, waiter and worker threads, waiting for the deadline that `Deadline` gives | deferred cancellation with glibc's cancellation points |
| `Vxi11Io`, `Vxi11IoProofs` | the calls on one link and the instrument | bytes are numbered in the order the instrument says them |
| `TcpConnect`, `TcpConnectProofs` | `tcp_connect` to `tcp_disconnect` of several callers over the descriptors of the process | a handshake is pending, established or failed |
| `TcpIo`, `TcpIoProofs` | `tcp_send`, `tcp_receive`, `tcp_receive_wait` on one connection | bytes are numbered |
| `Discover`, `DiscoverProofs` | both discovery calls, the search of the interfaces and `get_device_id` | which device an answer is from, and its identification, are left out |
| `Avahi` | consecutive `avahi_discover` calls and the callbacks | services are counted |
| `DnsSd` | concurrent discoveries of `bonjour.c` and `cygwin_dnssd.c`, and the loading of the DLL | a service is represented by its type |
| `Mdns`, `MdnsProofs` | `mdns.c`: composes `Avahi` and `DnsSd` (by `INSTANCE`), one of which is built; the proofs are about both | |
| `Xdr` | the records of VXI-11 and their XDR routines | a unit of the stream is a number, a C type a constant set of values within its range |
| `Rpc`, `RpcProofs` | stubs, dispatch functions and `main` of the server, over `Xdr` | one client with one call at a time, and other requests that fail |
| `MC*` | instances for TLC: constant values only | |

State and actions. The variables keep the names of the code (`allocated`,
`connected`, `data`, `mutex`; `args.mtx` is `mtx`; `offset`,
`response_length`, `length`, `n`; `simple_poll`, `sb`, `count`; `hDnssdDLL`,
`transp`, `clnt_res`) and `pc` says
where a call is. An action is named after the function it is a part of or the
system call it makes, with a suffix for the outcome (`lxi_connect_ok`,
`lxi_connect_error`, `clnt_create_failed`). Variables marked *history* record
what happened for the properties and are never read by an action (but for the
bound `Unharmed` of `Session`, below).

Points of fidelity worth knowing:

- `Session` lets `lxi_init` reset the entries one at a time and without the
  mutex, as the code does; `is_valid_session` compares with
  `device > SESSIONS_MAX`; `lxi_connect_error` leaves the stale pointer in the
  entry; `lxi_io_dispatch` and `lxi_io_load` are the two unlocked reads. The two
  flags of an entry are two steps of `lxi_init`, because a connect may come in
  between.
- A program of `Session` may do anything: any thread passes any value of
  `Devices`, its own handle, another thread's, a stale one, `SESSIONS_MAX`, and
  calls `lxi_init` at any time. The history `misuse` records what the library's
  checks let through: `"outside"` (a call behind the table), `"taken"` (an entry
  is disconnected or reset while a call of another thread uses it), `"reset"`
  (`lxi_init` resets an open session). The properties say that nothing goes
  wrong without one of these, so they name the exact causes.
- A read beyond the table (`AllocatedReads`) may give either value, and a call
  there may or may not return.
- `TcpIo` keeps the offset of the code, `message + n`, where `n` is the size of
  the last piece only. The socket is blocking: `send()` waits while `full`, and
  nothing but the peer ends that.
- `Vxi11Io` assumes nothing of the reason of an answer: it may be missing
  although the buffer is full, and then the next request is for no bytes.
- `TcpConnect` tests what `getsockopt` returns and not the error it stores; the
  exits before `connect()` do not close the socket.
- In `Vxi11Connect`, a waiter that could not be created leaves `tmp`
  uninitialised ("crashed" is one outcome of its cancellation).
- In `Discover`, the buffer `response` is neither initialised nor terminated,
  so that it may keep the last device's XML. A timeout of 0 gives a zero
  `SO_RCVTIMEO`, which means that `recvfrom` has no timeout. Wherever a backend
  may hang by its own model, `backend_hangs` lets it.
- In `Avahi`, `sb[-1]` exists: what a store there overwrites is up to the
  build, so the program either goes on or is in an undefined state.
- `Vxi11Connect` computes the deadline from the timeout and the clock; for one
  that is not valid `pthread_cond_timedwait` returns `EINVAL` at once, with the
  mutex held, and the loop goes round again.
- `bonjour.c` and `cygwin_dnssd.c` have the same browse, resolve and callback
  code, so `DnsSd` has it once; `build` decides whether a DLL is loaded first.
  `dlopen` and each `dlsym` are steps of their own, because they race.
- In `DnsSd`, one `DNSServiceProcessResult` makes one callback (an abstraction:
  the library may make several, and `FoundOrLost` and `RefsAccountedFor` rest on
  it), and the callbacks `broadcast` and `service` are called without a test for
  `NULL`.
- `Xdr` keeps the fields of each routine in the order of the code, for the calls
  one by one and for the blocks that put or get several integers at once.
  `xdr_bool` turns any true value into 1 and `IXDR_PUT_BOOL` does not, so that
  a `bool_t` is compared as a truth value. The code has each order once for
  encoding, decoding and freeing without room, which are merged into one list
  here: that these copies agree is not checked.
- In `Rpc`, `pmap_unset` is one step per program and may leave what is there
  (`"kept"`): the portmapper need not answer, nor remove what another user has
  registered, and `main` does not look at the result. Nobody else registers the
  programs while `main` runs.
- In `Rpc`, a result that the service function did not set is freed all the
  same, which may or may not end the process.

## 3. The runs

| Run | Instance | What it shows |
|---|---|---|
| `session` | 2 threads, 2 entries, 2 blocks, 1 call of `lxi_init`; the handles -1 to 3 for any thread | `MemorySafety` and `NothingLost` for any program, with the exact causes of what goes wrong; short of them the table implements `SessionApi`; a call that has no competitors returns, so every path gives the mutex back |
| `tcp_connect` | one session beside one discovery, 3 descriptors | a success leaves a blocking socket of one's own; late failures close theirs; only a discovery that went on after a failed `tcp_connect` can close a foreign descriptor; calls return |
| `tcp_io` | 2 calls of 0, 1, 3 or 4 bytes, up to 5 bytes from the peer | in-buffer, exact counts, order for up to two pieces, complete sends; calls return but for the two waits without a timeout |
| `vxi11_connect` | one connect, all failures, 14 timeouts × 11 clock values around every boundary | the deadline and the duration are valid and right for timeouts ≥ 0, and exactly which negative ones give a deadline that is refused; no thread outlives its data, the worker is joined once, the client is accounted for, and the call returns but for two hangs: the lock cycle, which takes the deadline, and the loop that spins, which takes a refused deadline |
| `vxi11_io` | buffers of 0, 1 and 3 bytes, 4 bytes from the instrument | a reply in several answers is put together right, consecutive receives continue without a gap, calls return unless the instrument answers without a reason for ever |
| `discover` | 4 interfaces, 3 answers, timeouts 0 and 1000 | all interfaces searched, each answer handled once, clients closed; the call ends but for the stated exceptions |
| `mdns` | Avahi: the 5 types and 10 entries of the code, 3 discoveries, 2 services. DNS-SD: 2 threads, 2 types, a DLL that lacks at most one function | Avahi: exactly which access leaves `sb`, nothing freed twice or left allocated, each service reported at most once. DNS-SD: exactly which references and records are lost, a type that fails costs no other one, only two threads that load at once call a null pointer. Both: the call ends, or waits for a resolve that is never answered |
| `rpc` | integers of 6, shorts of 4 and characters of 2 bits, handles of 2 bytes; every stub with every combination of two values per field | the stubs' and the server's tables and all copies of the field orders agree, arguments stay allocated only when they could not be decoded; a restart is refused only where `pmap_unset` failed, and a server that serves has all its registrations |
| `vxi11_hang` | one connect | **violated**: a connect may never return |
| `discover_stderr` | one answer | **violated**: `stderr` stays muted after an identification over HTTP |
| `tcp_refused` | one session | **violated**: a refused connection is a success |
| `tcp_receive_order` | one receive of up to 4 bytes | **violated**: three pieces overwrite each other |

Why the bounds are enough. The session races need two threads; with two blocks
`malloc` can give a freed address to another session while one is open, and two
entries let a handle be reused beside another. One call of `lxi_init` meets
every state of the table. A program that has got round the checks (`Unharmed`)
makes no further calls in the model, since nothing is claimed of it any more;
its calls in progress go on. Three descriptors let a number be closed and
given to somebody else while a third is open. Four bytes allow three or more
pieces, which is where the offset of `tcp.c` goes wrong. Three discoveries show
the table as it is at first, as it is left, and that it stays so. Two threads
and two types are enough for the race to load the DLL and for a reference that
is overwritten. In `rpc`, two values of every field, among them the ends of its
range, tell any two fields of a record apart, and the small widths keep the
order of the types. The proofs remove these bounds, widths included, for every
property listed in section 5.

Deadlock is checked in the TCP-connect and RPC runs. In the others a process may
end (a signal, an assertion, a null pointer), a call may wait for ever or is a
single one, or the calls are bounded, and the configuration says so.

Each property of a passing run has a mutant of the code (`..._NoFree`,
`..._OffByOne` and so on, defined just before the definition it replaces) under
which TLC finds it violated.

### Fairness

- `Session`: weak fairness of each thread *inside* a call. Threads are scheduled
  and backends return (the models of the backends say when they do not, and
  what holds `session_mutex` then); nobody has to make a call, a call behind the
  table need not return, and a mutex is not a queue, so `SoloCallReturns`
  assumes that the others become quiet.
- `Vxi11Connect`: caller, waiter, worker and the clock. The RPC calls of the
  worker are not fair: an instrument may never answer.
- `TcpConnect`, `TcpIo`: the library's steps, among them the end of `select()`
  by its timeout; neither the peer's data nor its reading nor its handshake.
  `send()` without room is not enabled, so `CallReturns` names it.
- `Vxi11Io`: a remote procedure call ends, because the client stubs have a
  timeout of 25 seconds.
- `Discover`: a call of the VXI-11 backend ends or hangs for good
  (`backend_hangs`, not fair), and `recvfrom` times out if it has a timeout;
  nothing that needs a device or an HTTP server. Where the code really may wait
  for ever (`tcp_receive_wait`, a timeout of 0, a hanging backend), the property
  says so.
- `Avahi`: the timer of the loop fires; no daemon has to answer.
- `DnsSd`: the steps of the library, among them the end of `select()` by its
  timeout; no daemon has to answer, and where the code waits for an answer
  without a timeout the property says so.
- `Rpc` has safety properties only, and no fairness.

## 4. What the models found

With a run:

- **`vxi11_connect` can hang** (`vxi11_hang`). At the deadline the caller joins
  the waiter with `args.mtx` held; if the worker has just ended, the waiter is
  past its last cancellation point and waits for `args.mtx`. `session_mutex` is
  held all the while, so every later `lxi_connect` and every validity check
  waits, too. `HangCauses` and `ReturnsOrHangs` show that there is one other way
  only: a negative timeout whose deadline is refused, for which the loop of
  line 117 spins with `args.mtx` held.
- **`tcp_connect` reports a refused connection as success** (`tcp_refused`).
- **Three pieces of a message are received over each other**
  (`tcp_receive_order`); sends repeat bytes in the same way (line 208).
  `TwoPiecesInOrder` is what is true.
- **`stderr` stays muted** (`discover_stderr`): the fallback over HTTP mutes it
  "temporarily" and restores it on its error paths only.

Seen while modelling, part of the models and not the subject of a run:

- threads that share a handle: the second `lxi_disconnect`, past its check,
  tears down the entry the first has emptied and frees its data again, and a
  send may meet freed data. The handle `SESSIONS_MAX` passes the range check.
  `MemorySafety` says that these two are the only ways;
- an `lxi_init` between a connect and the disconnect of the same entry loses the
  session, and if it resets the second flag only, the disconnect frees the data
  and leaves the connection open (`NothingLost` excludes it by name);
- `tcp_send` blocks for ever if the peer does not read, and `vxi11_receive` if
  the instrument fills the buffer without a reason and answers requests for no
  bytes in the same way;
- `tcp_receive_` turns an error of `recv()` into a count; `send()` may raise
  `SIGPIPE`; sockets are lost when `tcp_connect` fails before `connect()`;
- the status cell of every VXI-11 connect is lost, though the comment at
  `vxi11.c:167` says otherwise; a client is lost when the deadline cuts its
  worker off; `link_resp.error` and `write_resp.error` are not looked at;
- the discovery never closes its sockets, waits for ever with a timeout of 0
  unless something ends it, writes the terminator behind `id` if an
  identification fills it, goes on with a closed descriptor after a failed
  `tcp_connect`, may take one device's XML for another's (a transfer that brings
  nothing leaves `response` as it was on the stack), and gives null
  pointers to `strcat` and `inet_ntoa`; every error becomes `LXI_OK`;
- the second Avahi discovery of a process stores a browser in `sb[-1]`, and a
  browser that cannot be created makes the clean-up fail an assertion;
- a DNS-SD discovery sees one service of each type, loses the reference of every
  browse but the last, and `browse_data` whenever a resolve fails; it waits for
  the resolve without a timeout, follows `servinfo` although `getaddrinfo` may
  have failed, and calls `broadcast` and `service` even if they are `NULL`.
  The table `lxi_services` is defined in `lxi.c` and again, with the same
  entries, in `cygwin_dnssd.c`, which is a library of its own;
- `cygwin_dnssd.c` sets the handle of the DLL before the function pointers, so
  that a second thread may call a null pointer;
- the generated server loses what `svc_getargs` has allocated when the rest
  cannot be decoded, and frees a result that was never set when a service
  function returns `FALSE`; it ignores a `pmap_unset` that fails, and is then
  refused by the portmapper and exits.

## 5. The proofs

| Theorem | Statement |
|---|---|
| `SessionProofs!TypeCorrect` | `Spec => []TypeOK` |
| `SessionProofs!MemorySafe` | `Spec => []MemorySafety` |
| `SessionProofs!LeakFree` | `Spec => []NothingLost` |
| `SessionProofs!Refinement` | `Spec => ApiSpec` |
| `TcpIoProofs!TypeCorrect`, `TransfersExactly`, `TwoPieces`, `SendsAll` | types, `ExactTransfer`, `TwoPiecesInOrder`, `SentAll` |
| `Vxi11IoProofs!TypeCorrect`, `ReceivesInOrder`, `NothingLost` | types, `ReceiveCorrect`, `Gapless` |
| `TcpConnectProofs!TypeCorrect`, `UsableSockets`, `LateFailuresClose`, `StrayCloses` | types, `SuccessIsUsable`, `LateFailureCloses`, `ForeignCloseByStray` |
| `Vxi11ConnectProofs!TypeCorrect`, `ThreadsSafe`, `JoinSafe`, `ClientSafe`, `HangsExplained`, `ConversionCorrect` | types, `ThreadsOutlived`, `JoinedOnce`, `ClientAccountedFor`, `HangCauses`, `DeadlineCorrect` |
| `DiscoverProofs!TypeCorrect`, `AnswersHandled`, `NothingOpen`, `SearchComplete` | `TypeOK`, `EachAnswerOnce`, `ClientClosed`, `SearchesAll` |
| `MdnsProofs!TypeCorrect`, `TableSafe`, `LeakFree`, `ReportedOnce` (Avahi) | types, `BrowserTable`, `NothingLeft`, `EachServiceOnce` |
| `MdnsProofs!RefsSafe`, `SearchComplete`, `NullCallsExplained` (DNS-SD) | `RefsAccountedFor`, `FoundOrLost`, `NullCallNeedsOverlap` |
| `RpcProofs!MemorySafe`, `RestartSafe`, `CallsCorrect` | `ServerMemory`, `RestartServes`, `AnswerCorrect` |

*Session.* For any sets of threads, entries, blocks and handles and any number
of calls of `lxi_init`; nothing is assumed of the program. The inductive
invariant has three layers. Always: the types, `MutexInv` (who holds
`session_mutex`) and `EntryInv` (every part of the library but the call behind
the table works on an entry of it). Until the checks are got round
(`Unharmed`): `SoundInv`. `MemorySafety` is not inductive by itself: that a send
still finds what it read needs `LoadInv` (the values it has read are those of
the entry) and `ValidHandles` (the entry is allocated until the call returns),
and that nobody else's block is the same needs `ClaimInv` (entries that are
allocated or being connected have distinct blocks); `ConnectInv` and `SlotInv`
describe a connect in progress and an allocated entry. Until `lxi_init` resets
an open session as well: `CleanInv`, whose `FlagInv` (an allocated entry is
connected, a connect has a fresh block) and `FreeingInv` (what is freed is
closed) carry `NothingLost`. One lemma per action shows that it preserves the
conjunction. The refinement maps a handle to its block while the entry is
allocated and the connection open, and a thread to the block it is sending or
receiving on; one lemma per kind of action shows the step of `SessionApi` it
implements, and every other step changes neither.

*TcpIo.* For any lengths and pieces. The offset is the size `n` of the last
piece, so `InBuffer` needs `PieceInv` (`n` is at most the total, and equals it
in the first round), which is also why two pieces are in order; `Counts` ties
the total to the rest of the buffer, and `DirectionInv` separates sends from
receives.

*Vxi11Io.* For any lengths and answers. `LoopInv` (offset, length and what the
instrument has said agree while a receive runs) and `IdleInv` (what was said is
delivered or lost) make the order and the absence of gaps inductive.

*TcpConnect.* For any sessions, discoveries and descriptors. `SuccessIsUsable`
says something of the end of `tcp_connect`; `Owned` and `Blocking` say it of
every point since `socket()`: as long as nobody has closed a foreign descriptor,
no two callers hold the same number, so the `close()` and `fcntl()` of the one
cannot touch the other's. `Trusting` says that a session never goes on after a
failure, which is why the first foreign `close()` is a discovery's.

*Vxi11Connect.* For every timeout and clock. `ThreadInv` relates the places of
the three threads, `JoinInv` what the waiter has reported to who has joined the
worker, `WorkerInv` what the worker holds to how far it got, `MutexInv` who has
`args.mtx`: the caller holds it inside its loop only if its deadline was
refused. The lemma `CDivMod` says what C's division does for either sign; the
properties of the deadline are facts about the integers, which need nothing of
the threads.

*Discover.* For any list of interfaces, any timeouts and any number of answers.
`SearchInv` (what was announced so far is what was wanted so far) makes
`SearchesAll` inductive, and bounds the index of the interface.

*Mdns, Avahi.* For any number of calls, types and services. `CountInv`: `count`
is the number of browsers asked for, or one less in a discovery that is not the
first. `TableInv` says which entries are live, `ClientInv` that browsers and
resolvers exist only with their client, `ServicesInv` where each announced
service is.

*Mdns, DNS-SD.* For any number of threads, types and discoveries. What a thread
has of its own is described by `SearchOf(c)`: `BrowseOf` (how many types it has
browsed, and the references this has left), `ResolveOf` (a resolve is open only
while it is waited for, or was given up), `ServicesOf` (a service that was found
is reported or still in `browse_data`, and never both). A step of one thread
leaves `SearchOf` of the others alone, so that each lemma is about one thread.
What the threads share is the DLL: `LoadInv` says that, as long as no two have
loaded it at once, the one that loads has set the pointers it has passed, and a
thread that searches has all five. `NullCallNeedsOverlap` is not inductive
without it.

*Rpc.* `MemorySafe` and `RestartSafe` hold whatever `Encode` and `Decode` give.
`PortmapInv`: in `main` the registrations up to `step` are the process's own and
`pmap_unset` was tried on the others (`Tried`, for the first program already
before the second call); `MemoryInv`: where the arguments are already freed.

`CallsCorrect` is about the codec and holds for every width (`SizeAssumption`:
a short and a char fit in a unit) and every set of values of the C types
(`ValueAssumption`: they are in range). The argument has three parts. First the
codec: `UnitArrives` says that one value survives `%` and sign extension by
whichever of its routines it is put and got; `RoundTrip`, that a record which is
`WellFormed` (its copies of the field order agree with each other and with the
record) is decoded to what was encoded, whether or not either side had room for
a block. Then the tables: every routine of `vxi11core_xdr.c` is `WellFormed`,
those of results are `Exact` as well (no `bool_t`, no limit on a length), and
for every stub the server's `CasesAgree` on the procedure number, the routines
and the function. Last the call: `CallInv` follows it from the request through
the service function to the answer, for any order of timeouts, crashes,
restarts and other requests. No induction over the fields is needed because
`Encode` and `Decode` define the unit of each field by its index.

Type invariants are part of every inductive invariant but the one of `Rpc`; in
the runs they are checked for the table and the list, whose indices they bound
(`session`, `discover`).

Every invariant and every safety action property of a passing run is thus proved
for all values of the constants, under the assumptions named with them in the
modules. Only model-checked are the liveness properties (`SoloCallReturns`,
`ConnectReturns`, `CallReturns`, `ReturnsOrHangs`, `DiscoverReturns`,
`MdnsReturns`): reasoning about fairness is out of the prover's reach.

## 6. Not modelled

- `dns_sd.h`, third-party declarations, half of the lines under `src/`;
  `error.h`, which only prints.
- The primitive routines of the RPC library, its matching of answers to calls
  (a late answer is dropped), and the service functions of the server.
- What an answer that is longer than the caller's buffer overwrites.
- Time: how much of the timeout is left for the next `select()` in `bonjour.c`.
- Error messages, the texts of identifications, addresses and requests. A
  discovery of an unknown type returns `LXI_ERROR` at once and changes nothing.
- Which device an answer to the broadcast is from, and so whether a device is
  reported twice or with another's text.
- Two Avahi discoveries at the same time, which share a poll object that is not
  made for two threads.
- Descriptors from `FD_SETSIZE` on, and the UDP sockets the discovery loses.
- `malloc` returning a null pointer where the code does not test it.

## 7. Plan

1. *Done*: every component of section 1, and a proof of every safety property
   the runs check.
2. What would add most next:
   - a composition of `Session` with `Vxi11Connect`: what a hanging connect does
     to the other threads through `session_mutex`;
   - the descriptors of the process over `TcpConnect` and `Discover` together;
   - the safety half of termination as theorems: measures that every step of a
     loop of `tcp.c`, `vxi11.c` and `bonjour.c` decreases.
