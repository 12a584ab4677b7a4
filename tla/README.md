# X-Fi / CarFi: TLA+ models, model checking and proofs

CarFi measures opportunistic Wi-Fi from vehicles.  A vehicle runs a patched
`wpa_supplicant` and `roamingd` (a cut-down systemd-networkd) that get it onto
access points as they pass by, measures what it can while it has an address,
packs the logs into tarballs and uploads them to a server, which analyses them.
This directory specifies the parts of that system whose correctness depends on
the order of events, checks them with TLC on small instances and proves the
central invariants with TLAPS for every instance.

Paths below are relative to `src/`; `R` stands for
`client_tools/carfi/roamingd/src`.

## 1. The system

| Part | State | Operations | Interacts with | What is hard |
|---|---|---|---|---|
| DHCPv4 client, `R/dhcp/sd-dhcp-client.c` | protocol state, socket, transaction id, lease, four timers, retry counter, NAK delay | start, stop, four timeouts, OFFER, ACK, NAK, FORCERENEW | servers over a lossy network; its owner through `dhcp4_handler` | late, lost and repeated answers; timers against answers; failures in the middle of a restart; the owner stopping it from its own callback |
| lease timers, same file | lifetime, T1, T2, three timeouts | compute, arm, fire | client | short leases, jitter, 32-bit arithmetic, what a server may leave out |
| link and DHCPv4 configuration, `R/roamingd/roamingd-link.c`, `roamingd-dhcp4.c`, `roamingd-address.c` | link state, carrier, lease, counters of outstanding replies, addresses on record | carrier gained and lost, lease granted, changed and lost, address and route replies | client callbacks; kernel through netlink | replies that arrive after what they were for is gone |
| manager, `R/roamingd/roamingd-manager.c` | links, netlink socket | dispatch of kernel messages | links | order of notifications and replies |
| DHCP server, `R/dhcp/sd-dhcp-server.c` | pool, leases by offset and by client id | DISCOVER, REQUEST, DECLINE, RELEASE, force renewal | clients over a lossy network | two tables to keep in step; an offer reserves nothing; answers that come late; a restart forgets all leases |
| DHCPv6, NDisc, networks, netlink library | - | - | - | unused or configuration only in CarFi |
| uploader, `client_tools/data_uploader/uploader_client.py`, `server_tools/data_uploader/uploader_server.py` | tarballs on both sides, connections, one thread per connection | connect, send, receive, verify, move, remove | TCP | the client deletes the only copy; connections outlive their client; shared file names |
| collector, `client_tools/collector` | child processes, data directory | start and end of a round, signals | tester, roamingd, uploader (tarballs) | signals in the middle of a round's end |
| tester, `client_tools/carfi/tester`, `server_tools/tester` | tester and tcpdump processes | poll, launch, stop | addresses set by roamingd | children that exit on their own |
| scanner, link monitor | none | shell loops | - | - |
| analyzer, `server_tools/analyzer` | tarballs, archive, database | parse, save, archive | tarballs of the uploader | a crash between save and archive; log automata with assertions |
| `wpa_supplicant` (vendored hostap) | - | - | carrier changes | - |

roamingd is one process with one event loop: each of its handlers runs to its
end, so the models make each handler one action.  The interleaving is between
handlers, the kernel, the network and the servers.  The uploader is two
processes with a thread per connection; there the interleaving is between
statements that touch the network or the file system.  The collector, its
daemon, the poller of the tester and the tester itself are driven by signals,
whose handlers run between any two statements (Python) or on any thread that
does not block them (`client.c`); there a step is what lies between two points
where a signal makes a difference.

What makes each part correct:

* **client**: it never waits for something without a socket and a timer; the
  lease is there wherever it is read; no timer or answer of the past acts on a
  restarted client; as long as servers answer it gets a lease.
* **timers**: the lease is given up before the server may give it to another;
  renewing comes before rebinding; a long wait for an answer ends before the
  next timer.
* **link**: it configures the lease its client holds, and nothing of an access
  point outlives it; its records agree with the kernel; its assertions hold.
* **DHCP server**: no address is in use twice; its two tables agree, with each
  other and with what its clients hold.
* **uploader**: a tarball is removed from the vehicle only when the server has
  received all of it; it is then whole on the server's disk, and only complete ones
  reach the analyzer, as long as retries do not overlap.
* **collector and analyzer**: what was measured is kept, and gets into the
  database once and before it is archived, whatever is cut off or sent twice;
  a command that fails loses data only where `MeasurementsKept` names it.
* **log parser**: the periods it reports are those the link had.
* **tester**: tests do not overlap, and all processes of a test end with the
  round or with the address; a profile that is left is whole.

`PROJECT.json` lists the hazards, each at the line where it bites, with the
properties that would catch it.

## 2. Modules

| Module | Models | Used by |
|---|---|---|
| `DhcpService` | the client as its owner sees it: phase, lease handed out, event announced | `LinkDhcp4`, refinement |
| `DhcpClient` | `sd-dhcp-client.c`, one action per handler | `MCDhcpClient`, proofs |
| `LeaseTimers` | `client_compute_timeout`, `client_set_lease_timeouts`, firing order, resend wait | `MCLeaseTimers`, proofs |
| `LinkDhcp4` | link, DHCPv4 configuration and addresses, composed with `DhcpService` and the kernel | `RMParser`, proofs |
| `RMParser` | the log lines of a link and the analyzer's automaton over them (`lib/roamingd.py`) | `MCRMParser`, proofs |
| `DhcpServer` | `sd-dhcp-server.c`: pool, leases, one action per message type | `DhcpNetwork` |
| `DhcpNetwork` | the server and the clients of its link, with loss, delay and restarts | `MCDhcpNetwork`, proofs |
| `Delivery` | what the uploader promises: received completely before it is removed; perhaps repeated, left behind by a failed `mv`, or damaged by an overlap | refinement, `Collector`, `Analyzer` |
| `Uploader` | `uploader_client.py` and `uploader_server.py` | its own runs, proofs |
| `Collector` | `collector_daemon` and `collector.py` | `Pipeline` |
| `Analyzer` | `analyzer/parser.py`: list, unpack, query, parse, save, archive | `Pipeline` |
| `Pipeline` | `Collector` and `Analyzer` joined by `Delivery` | `MCPipeline`, proofs |
| `Tester` | `tester_initiator.py`, `client.c` and tcpdump on one interface | its own run, proofs |
| `MC*` | values of the constants for TLC | runs |
| `*Proofs` | theorems (section 4) | - |

### DhcpClient

The variables are the fields of `struct sd_dhcp_client` that control depends
on.  `fd` joins the descriptor with the receive handler installed for it
(`raw` or `udp`); a timer is a Boolean, armed or not.  `net` holds the client's
own messages: one in `net` stands for itself and for the answers to it still
under way, so an answer can be handled whenever its request is in `net`, any
number of times and in any order, until `Lose` drops it.  Both receive paths
pass only the current transaction (the BPF program of `dhcp-network.c` for the
packet socket, line 1640 for UDP), which is `Answered`.  FORCERENEW while BOUND
is exempt, as in the code.

Each handler takes the outcome of the calls that may fail as an input: `bind`
(no socket), `io` and `time` (the event loop refuses a source) and `send`.
`client_initialize_events` ignores the results of the calls it makes, so a
refused io source stops the client and the caller goes on to arm the resend
timer; the model does the same.  The callback may stop the client
(`stops`) while it hears of EXPIRED or of a lease.  Out-of-memory failures are
left out.  `random_u32()` is taken never to repeat the id of a message still
in flight.

### LeaseTimers

Lifetimes are seconds, timeouts eighths of a second after the request, so
that the factors 1/2 and 7/8 are exact; the jitter of `random_u32() &
0x1fffff` microseconds is at most 17 eighths.  T1 and T2 of the lease are kept
in words of `Word` values, 2^32 in the code.  `client_timeout_resend` waits half
of the time between two of the noted T1, T2 and lifetime, and a minute at least.

### LinkDhcp4

The kernel acts on a request at once and puts its reply, and the notifications
it causes, at the end of the one netlink socket (`queue`); roamingd reads them
in order.  The client is `DhcpService`; `dhcp4_handler` runs inside the
client's step, as the callback does.  A CarFi network has DHCPv4 and nothing
static, so `link_configure` goes to SETTING_ROUTES in one step.  An `assert`
that fails ends the daemon: `failed_assert` records which, and nothing
happens afterwards.  A route whose preferred source is not on the link is
refused by the kernel.  The guard of `AddressExpires` (the kernel never drops
the address of a lease still held) is what `ExpiresInTime` shows of the client.
Of `link_update` the carrier is modelled; changes of the name, the MTU and the
MAC address (which stops the client and starts it again) are left out.

### Uploader

A message is the name, one of `Chunks` chunks or the digest.  TCP delivers what
was sent in order, even after the client closed, until the connection is reset.
A file is an identity with the chunks it holds unaltered; names in `recv_dir`
and `tar_dir` point at files and a thread writes through the handle it opened.
MD5 is taken to tell any altered stream from the original.

The results of `mv` and `rm` are ignored by the code, so each of them works or
does nothing, and what follows is done all the same.  `recv_dir` and `tar_dir`
are both under `/opt/carfi`, on one file system, so a `mv` that fails leaves the
file where it was.  A thread whose file cannot be opened or written ends
(`FileFails`).  Nothing makes a retry wait until the server has read what older
connections have sent: the daemon scans every 120 s and `Restart=on-failure`
retries at once.  So retries overlap freely, and `overlapped` records, as
history, that one did.

`Promise` is the instance of `Delivery` for the one tarball: it is received
once a connection has brought all of it unaltered, and damaged while the file
that `tar_dir` names is not whole.  `ImplementsDelivery` holds with overlaps and
failed commands; it is what entitles `Collector` and `Analyzer` to use
`Delivery` for the uploader.

### RMParser

Each step of the link is taken together with the parser's step on the line it
logs.  The parser runs later, but reads the same lines in the same order and
keeps nothing else per interface, so this loses no behaviour and saves a queue
of lines.  The two assertions and the constructor of `_InfoBlk` (which needs
`T_dhcp_s`) are what can end it; `rm_failed` records which.

### DhcpServer and DhcpNetwork

Addresses count from the subnet address (the code ORs an offset into the subnet;
`Configs` holds offsets whose bits do not overlap with it); `Width` is the width of `uint32_t`,
scaled down, since `size_max` is an unsigned difference.  `siphash24` is the
constant function `Hash`; both clients of the run hash to the same offset, so
they compete for it.  An entry of `leases` is the address its lease notes,
which is not always the one it is bound to: a new lease notes `requested_ip`,
and a renewal carries none.  `incarnation` and `cfrom` are history, to tell
leases of the running server from those of the one before it.  A client in
`DhcpNetwork` has what its messages show of `DhcpClient`; RENEWING stands for
REBINDING.  `Foreign` clients also send RELEASE and DECLINE, which roamingd's
never does.  The frames of one station stay in order.

### Collector, Analyzer, Pipeline

A tarball is named after the round that made it, since a name holds the start
and end of its round.  `collector` and `tmp` are the daemon's global variables.
The handler `sig_handler` does not know a collector that has just been started
(the assignment is not done) or is waited for (`collector` is None), and
terminates one a second time between `terminate()` and the assignments; on a
second SIGTERM `collector.py` exits in the middle of `stop`.  Nulling the
variable before `wait` ("to avoid racing condition") is needed because a
handler that waits for the Popen whose `wait` it has interrupted never returns.
systemd signals the daemon alone (`KillMode=process`); it is started again at
boot or by hand.

`stop` ignores the results of `tar`, `mv` and `rm`, and so does the model: each
may fail (`Fault`, disk full), and the next is run all the same.  A tarball is
packed in the working directory of the collector (`workdir`) and stays there if
`mv` fails.  `owed` and `raced` are history: a round is owed once it measures,
until the vehicle loses power before it is packed or its `tar` fails; `raced` says
that the daemon was stopped in one of the windows of `sig_handler`.

The analyzer is killed at any point, and an exception anywhere ends the process
as well.  `os.system` ignores errors: a tarball that is cut (`Cut`: packed too
late, by a `tar` that failed, or damaged on the server) may unpack to nothing, which raises
one line later, at `os.listdir(exp_dir)[0]`, or to a part of the logs
(`broken`).  The log parsers, and linking their results by time, are one step
that works or raises: either for logs that lack a part, always raising for those
of `Unparsable`, tarballs which are complete and which a parser cannot read
(findings 3 and, below, `client.c:181`).  The `mv` to the archive may fail too.

### Tester

The poller runs `tcpdump` and the tester while its interface has an address.  It
is forked with the handler of `Initiator`, which passes, and installs its own a
little later (`Install`).  `os.killpg` of the collector reaches poller, tester
and tcpdump.  The poller's handler signals its children again
(`SignalHandled`); a poller that has not installed it goes on
(`SignalPassed`); a signal that meets `Popen` misses the child, which the handler does
not know yet (`SignalInPopen`).  `lost` records, as history, that one of the last
two happened.  `locked` is the Popen whose `wait` the handler interrupted.
`signal()` blocks SIGTERM for the thread that handles it
only, so a second one runs the handler of `client.c` on another thread at the
same time, and `exit` flushes what that one has buffered.  A use of freed
memory is a choice between all outcomes.

## 3. Runs

| Run | Bounds | Shows |
|---|---|---|
| `dhcp_client` | 2 leases on 2 addresses, 3 transaction ids, all failures, `MaxAttempt` 64 | the safety properties of the client, `ImplementsService` and `Acquires` |
| `lease_timers` | lifetimes 1-12, 64, 1000, 1170, 1171 and infinite; T1 and T2 from 0 to 1023; words of 8192 | `ExpiresInTime`, `RenewThenRebind`, `ResendWithinLease` |
| `link_dhcp4` | 3 leases (two with one address and different routers, one without router), 2 addresses, no new event while 4 messages are queued | safety and `CarrierLossReleases` of the link; `PeriodsMatch` of the log parser |
| `link_lost_lease` | same, no refusals | violation of `RoutesHaveLease` |
| `link_failed_route` | same, refusals | violation of `ConfiguredFromSettingRoutes` |
| `rm_parser` | same | violation of `AddressOncePerCarrier` |
| `uploader` | 2 chunks, 2 connections that may overlap, altered chunks, crashes, failed commands | `NoDataLoss`, `OnlyOverlapsDamage`, `ImplementsDelivery` |
| `uploader_overlap` | 2 connections, nothing else goes wrong | violation of `TarDirComplete` |
| `uploader_server_dies` | 2 connections, crashes | violation of `ScansAgain` |
| `dhcp_server` | a subnet of 8, 5 configurations of which the code accepts one, 2 clients with 2 and 1 transactions, 2 answers under way, one restart | tables and addresses of the DHCP server |
| `pipeline` | 2 rounds, one stop, loss of power or failed command on the vehicle, one kill or failed `mv` of the analyzer, the second tarball unparsable | `MeasurementsKept`, `SavedOnce`, `ArchivedSaved`, `Analyzed` |
| `tester` | 2 tests of 2 connections | `TestsDontOverlap`, `ProfileSound`, `EndsOnStop`, `StopsWithAddress` |

Why the bounds are enough.  Client: three ids let an old transaction, the
current one and its successor be in flight together; two leases on two
addresses give every event of an ACK; 64 and the delays 5 and 20 (0.5 s and 2 s
in units of 100 ms) are the code's values.  Timers: the lifetimes lie on both
sides of the three-second margin, of the 9 s from which the default timers are further apart than the jitter, and of the
wrap of `lifetime * 7` in a word of 8192 (1170 and 1171); the long ones have waits of more than
a minute, half a lease of 1000 s among them.  Link: a lease change
puts at most five messages in the queue at once, so carrier changes, expiries
and leases overlap with the replies to two earlier leases.  Uploader: two
connections are a thread left over and a retry;
two chunks for a file that is half written.  Server: two clients and two free
addresses besides the server's own give conflicts, moves and a full pool; a
second transaction gives answers that are late.  Pipeline: a round needs a
successor to lose its data to, and a good tarball a bad one to be held up by;
one fault at every point is what each exception of `MeasurementsKept` takes.
Tester: the second test is there to overlap with the first, and the second
connection to be unestablished while the first is up.

CHECK_DEADLOCK is off where the system may stop: the link after a failed
assertion, the timers when the last has fired, the uploader when the tarball is
gone or `MaxConns` is used up, server and clients when their transactions are,
the collector after `MaxRounds`, the tester after a stop.

### Fairness

* `Acquires`: an armed timer fires (sd-event, weak); packets of old
  transactions do not live for ever (weak); a server asked again and again
  answers, and its answer is handled (strong fairness of the OFFER and ACK
  handlers).  The last is an assumption about servers, not about the code:
  REQUESTING has no way back to DISCOVER when the server that made the offer is
  gone, or has given the address to another meanwhile.  The client may also
  end idle: stopped by its owner or by a local failure.
* `CarrierLossReleases`: sd-event serves a readable netlink socket (weak).
* `ScansAgain`: both processes run and TCP delivers (weak).  It fails under
  this fairness, since the client's loop really runs for ever.
* `Analyzed`: the analyzer runs, its unit restarts it after an exception
  (`Restart=on-failure`) and one that was stopped is started again (weak).
  Nothing is assumed of the collector, nor of the uploader, which may hang for
  ever (finding 5): the property speaks of tarballs that have reached the server.
* `EndsOnStop`, `StopsWithAddress`: the poller runs, signals are delivered and
  handled, tcpdump ends on SIGTERM (weak).  Connections may hang for ever.

### Findings

1. `roamingd-dhcp4.c:59`: `assert(link->dhcp_lease)` fails when the carrier or
   the lease goes between the address request and its reply.
2. `roamingd-link.c:665`: `assert(link->state == LINK_STATE_SETTING_ROUTES)`
   fails when the kernel refuses a route: the link is FAILED and the last reply
   still completes the configuration.
3. `analyzer/lib/roamingd.py:80`: the assertion that an address comes right
   after a gained carrier fails on the second address of one period, which a
   lease that expires or is refused and granted again brings about.  The
   tarball stays in `tar_dir` and ends every further cycle.
4. `uploader_server.py:79`: with two connections for one tarball, an incomplete
   file may reach `tar_dir` and the client may delete its copy, since both digests
   are of the bytes sent and not of the file.  `NoDataLoss` and
   `OnlyOverlapsDamage` name the overlap as their exception, and say that there
   is no other.
5. `uploader_client.py:44`: a connection closed by the server while the client
   waits is never noticed.

Seen while modelling, with no run of their own:

* `sd-dhcp-client.c:1341`: for T1 granted alone and later than the default T2,
  the comment says T1 is discarded; the code keeps it and moves T2 before it.
  `RenewThenRebind` excludes the case.
* `sd-dhcp-client.c:1321`: `lifetime * 7` wraps around for leases above 19 years,
  so that T2 comes out tiny and the wait in REBINDING takes decades.
  `ResendWithinLease` is stated for the others.
* `sd-dhcp-server.c:68`: `size_max` is an unsigned difference and wraps for an
  offset past the broadcast address, so a pool outside the subnet is accepted,
  where the comment at line 37 says that the whole pool must fit into the
  subnet.
* `sd-dhcp-server.c:566`: `server_send_forcerenew` asserts an address, and a
  lease renewed across a restart of the server has none (`LeasesAddressed`
  allows it, `server_failed` records it).  roamingd never calls it.
* `sd-dhcp-server.c:880`: the expiration of a lease is written and not read.
* `collector_daemon:55-61`: a stop while a round begins or ends leaves a
  collector behind, or ends it in the middle of `stop`; a daemon started soon
  after removes its data.  `MeasurementsKept` fails without `raced`.
* `uploader_server.py:79`: the result of `mv` is ignored; a tarball whose `mv` fails
  is removed from the vehicle and stays, whole, in `recv_dir`, where nobody looks
  for it.
* `collector.py:115-116`: the results of `tar` and `mv` are ignored and the data
  is removed: the round is lost, or its tarball is left in the working directory.
* `tester_initiator.py:117`: until it has installed its handler, a poller ignores
  SIGTERM; at 85 and 88, a signal inside `Popen` leaves a process running after
  the poller has ended.  `EndsOnStop` names both.
* `analyzer/parser.py:40`: a tarball that cannot be unpacked or parsed ends every
  cycle, and holds up the others in `tar_dir`.  `Analyzed` names it.
* `client.c:181`: with two SIGTERMs, as at the end of every round, a profile
  may be left cut; `lib/tcpparser.py` raises on it.  `ProfileSound` is stated
  for testers with one.
* `tester_initiator.py:55`: a tester that exited by itself keeps its slot, so
  no test runs until the address is lost.
* `analyzer/parser.py:227`: the gateway found is stored in `l3_gw`, and the
  column is `l3_ip_gw` (`lib/db_op.py:97`): it never gets into the database.

## 4. Proofs

All eight proof modules are checked by TLAPS to the last leaf.  Every invariant
and every action property that a run checks is also a theorem, and so are both
refinements.  The assumptions are the named ASSUMEs of the modules: constants
have their types, null values are not leases, addresses or ids,
`MinDelay <= MaxDelay`, offsets and sizes of a pool fit their word.  TLC
evaluates them in every run.  No theorem has a hypothesis of its own: the conditions
under which a property holds are part of the property that the run checks.

* **DhcpClientProofs**: `ClientInv` is inductive.  The safety properties need
  one another: `LeaseBacked` across T1 and T2 needs `TimersNeedLease`; the
  bounds of `attempt` need the type invariant.  `RequestPrecedesAck` is not
  inductive, since `request_sent` says nothing of messages of other
  transactions in flight; `RequestsRecorded` strengthens it to all of `net`.
  `NoStaleAck` follows from the freshness of the id at every restart.  One
  lemma per action or group of actions, most through `ResetInv`, what
  `client_initialize` and a restart establish.  Consequences: `ClientTypeCorrect`,
  `ClientNeverStranded`, `ClientLeaseBacked`, `ClientTimersNeedLease`,
  `ClientRenewAtOnce`, `ClientRequestPrecedesAck`, `ClientNoStaleAck`.
* **DhcpRefinementProofs**: `ClientImplementsService`, with the refinement mapping
  `Phase` and `Held`.  Every step maps to a step or a stutter of `DhcpService`;
  `ClientInv` excludes timers of an idle client.  This is what entitles
  `LinkDhcp4` to use `DhcpService` for the client.
* **LeaseTimersProofs**: `TimersInv` is inductive: the expiry is within the
  granted lifetime, timers of a clear lease are due in order, and T1 is spent
  once T2 has fired.  It rests on lemmas on the arithmetic of each branch of
  `client_set_lease_timeouts`.  Consequences: `LeaseExpiresInTime`,
  `NoRenewAfterRebind`.  `ResendsWithinLease` relates what the lease notes, from which
  the wait is computed, to when its timers are due: `OrderInv` adds that
  the noted T1, T2 and lifetime of a lease are in order, that an infinite lease
  arms no timer, and (`Spaced`) that a timer is due, jitter included, later than
  half the noted difference after the one before it.  One lemma for each way T1
  and T2 come about: both defaults, both given, and mixed.
* **LinkDhcp4Proofs**: four invariants.  No bound on the queue or on the number
  of leases, addresses or routes is needed.
  * `LinkInv`, the conjunction of `LeaseInSync` and `QuietWithoutCarrier`, is
    inductive; the two share the lemmas on each group of steps (kernel, carrier,
    addresses, replies, client).  A client without carrier is idle, and the
    abstract client grants nothing while idle: this is where the proof uses
    `DhcpService`.  Theorems `LinkLeaseInSync`, `LinkQuietWithoutCarrier`.
  * `TypeInv`: types and `RouteRepliesCounted`, which need each other: only the
    exact count keeps `dhcp4_messages` a natural number.  The lemmas `CountTail`,
    `CountNone` and `CountReplies` say what reading and queueing do to the number of
    replies in a queue, by a bijection between places; no induction is needed.
    Theorems `LinkTypeCorrect`, `RouteRepliesAreCounted`.
  * `SyncInv`: `AddressesInSync` speaks of an empty queue only and is not inductive.
    `SyncInv` says of every address and every queue that the last unread word
    about the address is true, and that the record is if there is none.  A
    refused address is recorded wrongly until the refusal is read, so it holds while no
    refusal is queued; a link that has read one is FAILED for good.  Theorem
    `LinkAddressesInSync`.
  * `ReportInv`: `PeriodsMatch` with `LinkInv` (a lease is granted only while
    there is carrier, so the parser has a period open) and a parser untouched before
    the link is configured.  The lemma `ReportStep` carries the others over to a
    parsed link.  Theorem `ReportedPeriodsMatch`.
* **PipelineProofs**: `AnalyzerInv` is inductive for any number of rounds and
  tarballs.  `SavedOnce` and `ArchivedSaved` are not inductive by themselves: between
  the query and the save a cut-off and another delivery may intervene.
  `QueryCurrent` strengthens them: the answer stays true of the experiment at
  hand, since the analyzer is the only writer, runs one experiment at a time and
  forgets it when it ends.  Consequences: `ExperimentsSavedOnce`,
  `ArchivedAreSaved`.  `VehicleInv` is the invariant of the vehicle:
  `MeasurementsKept` needs to know who may write `data_dir`, and `OneCollector` says
  that only the last round's collector runs, that the daemon knows it and has
  terminated it once at most.  It holds until a stop meets one of the windows of
  `sig_handler`, so the invariant has `raced \/ OneCollector`, and it survives
  a `tar`, `mv` or `rm` that fails: `data_dir` holds what the collector measures until it
  is packed, and the working directory the tarball until it is moved.  `RoundInv`
  says that rounds are started in order.  Theorems
  `PipelineTypeCorrect`, `NoMeasurementLost`.
* **UploaderProofs**: `UploaderInv` is inductive for any number of chunks and
  connections: `BaseInv`, and `OrderlyInv` until a retry overlaps.  The core of
  `OrderlyInv` is `OneReader`: threads of older connections have nothing left to
  read.  From it, the file in `recv_dir` is what the last thread has received
  (`ReceiveInv`), so a good digest speaks of the file and not only of the stream,
  and whoever has heard of a good digest can rely on `tar_dir`, or on `recv_dir` if
  the `mv` failed (`VerifiedInv`).  Theorems `UploadNeverLosesData`,
  `TarDirIsComplete`.  The refinement `UploaderImplementsDelivery` and
  `UploaderTypeCorrect` need only `BaseInv`, which holds with overlaps.
* **TesterProofs**: `TesterInv` is inductive for any number of tests and
  connections.  `KnownInv` says that what runs belongs to the last test and that
  the poller knows it: recorded, about to be recorded, or waited for, unless it is
  in its handler, from which it does not return.  That is
  what makes it wait for the right processes before the next test.
  `TermsInv` counts the SIGTERMs of a tester by their senders, and
  `OneHandlerInv` says that a tester with one has run one handler, so nobody truncates the
  profile it has written.  Theorems `TesterTypeCorrect`, `TestsNeverOverlap`,
  `ProfilesAreSound`.
* **DhcpNetworkProofs**: `NetworkInv` is inductive for any number of clients, any
  subnet, pool and hash.  `HoldersRegistered` and `NoSharedAddress` speak of
  addresses in use; inductive is what they say of *claims*: addresses in use, and
  addresses of ACKs under way that their client would still accept
  (`ClaimInv`).  For a claim to outlive a RELEASE or DECLINE, none of the
  client's current transaction may be behind it in the queue: `QueueInv` orders
  the transactions of a client in both directions.  Theorems
  `NetworkTypeCorrect`, `ServerTablesAgree`, `LeasesNoteTheirAddress`,
  `HoldersAreRegistered`, `AddressesAreNotShared`, and
  `OffersAreFree` on the probing of DISCOVER: it finds a free address exactly when
  there is one.

Only model-checked: liveness under fairness, which is out of the prover's reach
(`Acquires`, `CarrierLossReleases`, `Analyzed`, `EndsOnStop`, `StopsWithAddress`), and the
violations of the runs that expect one.

## 5. Not modelled

Message and option formats, sockets and netlink encoding (only what they decide
is used); configuration files; DHCPv6 and NDisc, which a CarFi vehicle does not
run; static addresses and routes, bonding, removal and re-adding of a link,
changes of its name, MTU and MAC address; running out of memory;
a `rm` of the analyzer's directories that fails;
scanner and link monitor scripts; `tester/server.c`, whose threads copy bytes
and share nothing; the log parsers other than `lib/roamingd.py` and the linking
of their results by time; plotting and GPS tools.  The vendored tree
`carfi/roamingd/hostap` (wpa_supplicant with a logging patch) and the copied
parts of systemd under `R` are most of the repository's lines; of the
program's own code the models cover the parts that hold state.

## 6. Plan

1. Core of roamingd: `DhcpClient`, `DhcpService`, `LeaseTimers`, `LinkDhcp4`, with their
   proofs. *Done.*
2. `Uploader`, `Delivery`, with `NoDataLoss`, `OnlyOverlapsDamage` and the refinement
   proved. *Done.*
3. `Collector`, `Analyzer`, `Pipeline`, all invariants proved. *Done.*
4. `Tester`, all invariants proved. *Done.*
5. `RMParser`, `PeriodsMatch` proved. *Done.*
6. `DhcpServer`, `DhcpNetwork`, all invariants proved. *Done.*
7. Left: action properties worth adding next to the invariants (that a FAILED
   link never recovers, that an archived experiment stays archived, that a
   confirmed tarball stays on the server), each from the invariant that is
   there; and shortening the longest proofs.
