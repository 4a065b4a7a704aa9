# TLA+ models of PEMI

PEMI (`src/pemi`) is a transparent UDP middlebox for QUIC. It sits between a
server and a client and forwards every datagram. In the forwarding direction,
server to client, it infers losses from the timing of the client's datagrams
and retransmits the lost ones itself. It also reorders client ACKs when a Copa
controller judges that the server is sending too fast. This directory holds
TLA+ modules of PEMI's components, the TLC configurations that check them, and
`PROJECT.json`, which maps every definition to the source lines it models and
lists the runs, the mutants, the findings and the hazards. The RTC media
applications of `src/apps`, which generate the traffic PEMI is evaluated
with, are modelled too (`RtcSession`).

## 1. The system

### Parts, their state and their operations

| Part | Source | State | Operations that change it |
|---|---|---|---|
| Event loop | `bin/main.rs` 87–219 | none of its own | One iteration either runs `process_timeout` when `pemi.timeout()` is zero, or waits in `tokio::select!` on sleep / ICMP readable / UDP readable. Retransmission tasks are drained after each packet or timeout. |
| PEMI core | `lib.rs` | `conns: HashMap<ConnId, Conn>`, `access_times: BinaryHeap<AccessTime>`, `retrans_tasks: Vec<Task>`, `Stats {pkts, retrans_pkts}`, `rtt_detector`, factors | `process_packet`, `quic_conn_process`, `new_conn`, `remove_idle_conns`, `timeout`, `process_timeout`, `process_retrans_task`, `record_retrans_packet`, `rtt_calibration`, `match_retrans_limit` |
| Connection | `conn.rs` | handshake state, `client_rtt`, `server_rtt`, `to_client_queue`, `to_server_queue`, `to_server_pkt_num`, dominant-direction counters, `overspeed`, `overspeed_begin`, `delayed_ack_queue`, `last_rtt_calibration`, `last_access`, `cc` | `first_quic_packet`, `process_quic_packet`, `process_udp_packet`, `measure_dominant_direction`, `update_client_rtt`, `update_server_rtt`, `rtt_calibration`, `record_retrans_packet`, `on_timeout`, `add_delayed_ack`, `check_delayed_acks`, `to_client_retrans_task` |
| Packet queue | `queue.rs` | `packets` (Raw/Retrans), `flowlets` (packet numbers, reply times, begin/end, complete), `detected_loss`, `processed`, `reply_nums`, `last_packet_time`, `smoothed_interval`, `eliciting_threshold` | `add`, `check_reply`, `on_timeout`, `complete_one_flowlet`, `remove_a_complete_flowlet`, `reset_due_to_rtt_deviation`, `measure_eliciting_threshold`, `record_packet_interval`, `pop_retransmit_front` |
| Partial matching | `queue.rs` 104–316 | pure | `match_sent_part_reply`, `match_sent_reply_dp`, `extract_part_loss`, `extract_rtt_samples` |
| Retransmission task | `retrans.rs` | a copy of `detected_loss` | `Task::from_queue`, which drains `detected_loss` even when the direction/overspeed gate says no |
| Copa | `cc.rs` | `rtt_min`/`rtt_standing` filters, `cwnd`, velocity, direction, slow start, `cwnd_used` | `on_data_send` (returns overspeed), `on_ack_send`, `reset_rtt_filters` |
| RTT detector | `rtt_det.rs` | per-IP `IpRequests {seq: u16, pending send times}` | `send_request`, `recv_response` |
| QUIC parsing | `quic_parse.rs` | pure | header classification, coalesced-packet walk |
| I/O | `pemi_io.rs` | sockets | `send_transparently` |
| RTC server | `apps/quinn-apps/src/bin/quinn-rtc-server.rs` | per connection a `MediaClient {request_frames, frame_count, stats}` | the accept loop of `run` (connection limit, block, stateless retry), `handle_connection`, `handle_request`/`process_get`, `send_next_frame`, `all_frames_sent`, `finish_request` |
| RTC client | `apps/quinn-apps/src/bin/quinn-rtc-client.rs`, `apps/rtc/src/lib.rs` | `recved_frames`, `ClientStats {bytes_recv, interval_recv}` | `run`: connect, the GetN request, the `accept_uni` loop, close |

### How they interact

Each datagram goes through `process_packet`, in this order:

1. `quic_conn_process` finds or creates the connection.
2. The datagram is forwarded. A client ACK is instead delayed while Copa reports overspeed.
3. `Conn::process_udp_packet` runs:
   - A server datagram runs Copa's `on_data_send` and is added to `to_client_queue`.
   - A client datagram is checked as a reply against `to_client_queue`. Each RTT sample this yields updates `client_rtt` and runs Copa's `on_ack_send`.
   - Delayed ACKs are then released or kept.
4. `to_client_retrans_task` drains `detected_loss`.
5. `remove_idle_conns` runs.

After that, the loop sends every task. Each retransmission is recorded in the
queue as a Retrans packet. The timer is the head flowlet's deadline,
`end_time + client_rtt + flowlet_timeout × end_factor`, and at that deadline
`on_timeout` completes the flowlet. ICMP echo replies calibrate `client_rtt`,
and a large deviation resets the queue.

### What makes it hard

- The main loop is single-threaded, but `tokio::select!` picks at random among
  ready sources. An expired sleep and a readable socket can therefore be served
  in either order in the same instant.
- Datagrams can be lost, and replies can be late, early, missing or unrelated
  to what was sent. A completed flowlet is judged from timing alone, through a
  DP matching.
- RTTs and intervals change while flowlets are in flight.
- A queue can hold Raw and Retrans packets together.
- Several panics and the `?` in `main` make a single bad input fatal.

### Properties each part needs

- **Partial matching**: the DP is optimal, and the loss set is what the
  close-gap and eliciting rules mean.
- **Queue**:
  - the arena stays consistent (flowlets partition the packets, numbers are
    consecutive);
  - no retransmission of a retransmission;
  - with a well-behaved client, no false loss and exact RTT samples.
- **Conn**:
  - a delayed ACK is only held while overspeed;
  - ACK reordering overtakes by at most one datagram and loses none;
  - losses are drained even when retransmission is gated by direction and
    overspeed;
  - a held ACK is released by the spec's rule. It is not:
    `DelayedAckReleasedWhenDue`, stated in `Conn`; see the hazards.
- **PEMI core**:
  - idle connections are evicted (within 2 × `IDLE_TIMEOUT`, not at the
    first step after `IDLE_TIMEOUT`: `EvictedWhenIdle`, stated in `Pemi`,
    fails);
  - the retransmission rate respects its limit;
  - a non-QUIC or truncated datagram is forwarded, never fatal.
- **RTT detector**: a reply matches its own request (`Refinement` of
  `EchoProbe`), and a duplicate reply is not fatal (it is: `rtt_faults`).
- **Copa with the rate limit**: no underflow of `dq` across resets, and
  overspeed only beyond the window.
- **RTC apps**: both sides count the same bytes,
  never more frames than requested, and every accepted session ends with
  the client exiting `Ok` unless the path fails.

## 2. Modules

Listed in dependency order; the most important behaviour, loss inference, comes first.

### `PartialMatch`
`Flowlet::match_sent_part_reply` and the functions after it, written as pure
operators. Times are integer ticks. Indices are 1-based, and `usize::MAX`
("unmatched") is `NoMatch = 0`. `DpTable` is the recurrence of
`match_sent_reply_dp`. `Dp[i, j] = -1` stands for the code's infinity, and
"skip" wins only when strictly cheaper, as in the code. `MatchSentReplyDp` is
the backtracking from `(n, m)`. `ClosePropagation` and `ElicitingFill` are the
two phases of `extract_part_loss`. The four vectors of
`test_match_sent_reply_dp_all_examples` give the same mappings (shifted to
1-based).

### `MCPartialMatch`
Every flowlet with 2–`MaxSent` sent times over `0..MaxTick`, every
partial reply set (1 ≤ m < n, first reply no earlier than the first send),
every `used_rtt` in `RttValues` and both eliciting thresholds; each state is
one input (`Next` stutters). Reference definitions: `Matchings` (all
order-preserving assignments), `MatchCost`, `IntendedLoss` (matched packets,
their sub-`CLOSE_THRESHOLD` neighbours, and with threshold 2 an isolated gap
before the tail).

### `PacketQueue`
A `PacketQueue` is a record value, and every mutating method is an operator
from the queue to the queue after the call. Modules that own queues apply these
operators to their own variables.

- **Packets**: a packet is `[number, timestamp, raw, payload]`. `payload` names
  the datagram. For a Retrans packet it is a ghost: the code keeps no payload
  there.
- **Arithmetic**:
  - `Instant − Instant` saturates at zero (`SatSub`).
  - `Duration::mul_f64` becomes integer arithmetic with the factors as
    constants.
  - The smoothed-interval EWMA is rounded up, because in the code the interval
    stays positive.
- **Timer**: `OnTimeout` completes a flowlet at `now ≥ deadline`. The code
  tests `now > deadline`. The main loop calls it once `timeout()` is zero and
  spins until it fires, without reading a datagram in between. At tick
  resolution this fires within the deadline tick.
- **Left out**: `reply_pkt_nums` (only its emptiness is read, and that equals
  the emptiness of `reply_pkt_times`), `close_count` and all logging.

### `ToClientQueue`
One connection's `to_client_queue` as the loop drives it. Each action is one
loop iteration, and its common tail `EndOfIteration` does four things:

- applies the RTT samples to `client_rtt` (`update_client_rtt`);
- drains `detected_loss` into a task;
- sends the task in order, recording each retransmission as a Retrans packet
  at the same tick;
- puts every forwarded datagram on the link, which may drop it.

| Action | Code |
|---|---|
| `ServerPacket` | server branch of `Conn::process_udp_packet` (`add`) |
| `ClientReply` (ideal) / `ClientPacket` (chaos) | client branch (`check_reply` then `update_client_rtt` per sample) |
| `Timer` | `process_timeout` → `Conn::on_timeout`, enabled when `Conn::timeout` is `Some(0)` |
| `Calibration` (chaos) | `Conn::rtt_calibration` when the error exceeds the allowance: `reset_due_to_rtt_deviation`, `client_rtt := sample` |
| `Tick` | time passes; only when no timer is due and no reply is due now |
| `Done` | the last tick of the bounded behaviour |

The datagram actions are enabled while the timer is due, because
`tokio::select!` may serve the socket before an expired sleep. `Tick`, though,
waits for the timer. The connection is taken as handshaked, to-client dominant
and not overspeeding, with the rate limit not reached. `Conn` models those
gates; the rate limit is the `RetransLimit` module.

There are two environments:

- **Ideal** (`Chaos = FALSE`): the client answers each delivered datagram with
  one datagram that reaches PEMI exactly `TrueRtt` ticks after PEMI forwarded
  it. The PEMI→client link drops up to `MaxDrops` datagrams. This is the
  setting in which loss inference is supposed to be accurate.
- **Chaos** (`Chaos = TRUE`): up to `MaxClientPkts` client datagrams arrive at
  arbitrary ticks. Calibrations set `client_rtt` to any value in `RttValues`.

### `Conn`
One connection (`conn.rs`) as `PEMI::process_packet`, `process_timeout` and
`rtt_calibration` drive it. It composes the `to_client_queue` and the
`to_server_queue` through the `PacketQueue` operators with the connection's
own state: `state` (handshake), `client_rtt`, `server_rtt`, `dir` (the
dominant-direction estimator: `min_pkt_size`, byte counters,
`last_dominant_check`), `overspeed` and `overspeed_begin`,
`delayed_ack_queue` and `last_rtt_calibration`. The connection is created by
the client's Initial at tick 0 (`Conn::new`), and the first datagram is that
Initial. Each loop iteration happens at its own instant: `busy` allows one
iteration per tick, as `Instant::now()` differs between iterations, so that a
first RTT sample is never zero.

| Action | Code |
|---|---|
| `ClientDatagram` | `process_packet` for a client datagram: `process_quic_packet` (access time), `need_reorder_ack` ? `add_delayed_ack` : forward, the client branch of `process_udp_packet` (first `client_rtt` from `oldest_ts`, `measure_dominant_direction`, `to_server_queue` while `server_rtt` is zero, `check_reply` and its samples, `check_delayed_acks`), then the retransmission task |
| `ServerDatagram` | the same for a server datagram: a Handshake packet marks the connection handshaked, first `server_rtt`, Copa's `on_data_send` verdict (any value, once `client_rtt` is known) and `overspeed_begin`, `add`, `check_delayed_acks`, then the task |
| `Timer` | `process_timeout` → `on_timeout` and the task |
| `Calibration` | an ICMP reply (only after a request, which a new flowlet sends) → `Conn::rtt_calibration`, including the ignored early sample |
| `Tick`, `Done` | time passes, once this instant's iteration is over or nothing is due |

`Retransmit` is `Task::from_queue` followed by `process_retrans_task`:
`detected_loss` is always drained, but the packets are resent and recorded
only when the connection is to-client dominant and not overspeeding. Copa (modelled in `Copa` and `RetransGate`) is
abstracted to its overspeed output, and the rate limit is taken as not
reached. `forwarded` is a ghost sequence of the client datagram ids that PEMI
sends on to the server, whether directly or released from the delayed-ACK
queue.

### `Pemi`
PEMI's connection table and idle eviction (`lib.rs`): `conns`, the
`access_times` min-heap (a set of `[t, c]`; `Oldest` is `peek`), and each
connection's `last_access` and handshake flag. `NewConnection` is an Initial
of an unknown connection (`first_quic_packet`, `new_conn`). `QuicDatagram` is
a datagram of a known connection (`process_quic_packet` updates the access
time). Both end with `remove_idle_conns`. `NotQuicDatagram` is a datagram that
fails to parse before the handshake: the access time is updated, but
`process_packet` returns before eviction. `ProcessTimeout` is
`process_timeout`, allowed at any time because any connection's reply timer
may fire. `Tick` waits for the idle timer of `PEMI::timeout`.
`RemoveIdleConns` is the loop: pop and remove an idle connection, or re-push a
busy one with `AccessTime(now)`.
`FairSpec` adds weak fairness on `ProcessTimeout`. It is justified by main:
at the top of every iteration, when `pemi.timeout()` is zero, the loop runs
`process_timeout` before it waits on any socket (`main.rs` 92–107).

### `QuicHeader`
The recognition of QUIC datagrams: `Header::from_bytes` (`quic_parse.rs`),
`Conn::first_quic_packet` and `process_quic_packet`, `PEMI::quic_conn_process`,
and what `process_packet` does with the result (`lib.rs` 220–258). It models
one flow at a time. `conn` is the table entry of the flow: whether it exists,
whether it is handshaked, and which side sent the datagram that created it.

Bytes are abstract. Each octets read (`get_u8`, `get_u32`, a varint, a
connection id of length k) takes one cell, or k cells for a cid. A cell is
one of 0..5, and what it means depends on the read that takes it:

- as a first byte: 0 is a UDP padding byte (`0x00`), 1 is a short header,
  and 2..5 are long headers of the four types;
- as a version: 0 is Version Negotiation, 1 is QUIC v1, any other value is
  unsupported;
- as a length (cid length, token length, `Length`): its value.

`FromBytes` follows the reads of `from_bytes` in order, and returns
`BufferTooShort` at the first read past the end. It returns `InvalidState`
for a long header with the fixed bit clear or an unsupported version, and
`Panic` for a cid longer than `MaxCidLen` (`MAX_CID_LEN` scaled) of a
supported version. Retry, Version Negotiation and short headers take the rest
of the buffer as their length. `SkipPayload` is the padding check of
`process_quic_packet`. `QuicConnProcess` is the `while left > 0` loop:

- it creates the connection on a first Initial;
- it stops at the first error, keeping the connection it may have created;
- the subtraction `left - read` would panic if a packet read past the end.

`PacketOutcome` is process_packet's match on the result:

- InvalidState and MayNotQUIC are forwarded;
- any other error is returned, and main's `?` ends PEMI;
- a walk that leaves no connection reaches
  `expect("the connection must exist")`.

The environment (`Receive`) draws a datagram from `Traffic`: well formed QUIC
datagrams of up to `MaxCoalesced` packets, with tokens, cids, payloads and
trailing padding, sent in the handshake's causal order by `MaySend`. With
`Faults`, it also draws non-QUIC garbage of up to three cells, and the empty
datagram. The endpoints' progress is the ghost `peer`, which `MaySend`
reads. With `"LateStart"` in `Faults`, the table starts empty while the
endpoints may already be mid-handshake. This happens when PEMI was started
late, or when `remove_idle_conns` dropped the flow after `IDLE_TIMEOUT`
(120 s) without traffic and the endpoints then continued. Otherwise `peer`
is always `conn`'s `known` and `hs`. `Recognise` is the
reference: spec section 4.1's decision per
packet (an Initial creates, a short header before the handshake is
InvalidState, the server's Handshake completes the handshake).

### `EchoProbe` and `RttDetector`
`EchoProbe` is what the RTT detector promises: a probe to an IP at time t is
answered, unless its reply is lost, by a sample `now - t`, at most once.
`RttDetector` is `rtt_det.rs`:

- `seq[ip]` and `requests[ip]` are `IpRequests`; `NoIpRequests` stands for
  an IP with no entry yet;
- `net` holds the echo replies in flight, each carrying its request's seq;
- `build` is a constant choice among `Builds`, because whether the u16
  `seq += 1` panics (debug) or wraps (release) depends on the build.

The actions:

- `SendRequest` is `send_request`: it inserts `(seq -> now)`, overwriting an
  older entry, increments the counter, and sends the request. The network
  reflects the request as a reply, carrying the same seq.
- `RecvResponse` is `recv_response`. It removes the pending entry and
  returns the elapsed time, which saturates like `duration_since`. A seq with
  no entry panics, as `expect("No response for seq")` does. With
  "Duplicate", the reply may stay in the network after it is received.
- `Lose` needs "Loss".

The refinement mapping:

- `Probes` is the set of pending requests of every IP, with their send
  times;
- `Replies` is the set of `[ip, sent]` of the replies in flight;
- `Abstract == INSTANCE EchoProbe WITH ...`, and `Refinement == Abstract!Spec`
  is checked as a property.

`FairSpec` adds weak fairness on receiving a reply and on time passing. This
is justified by the loop: `tokio::select!` picks at random among the ready
branches, and a reply waiting on the ICMP socket keeps that branch ready.

### `RetransLimit`
`Stats` and the rate limit of `process_retrans_task` (`lib.rs` 128–154,
323–340, 500–507). `ProcessPacket` is one UDP branch of main:
`process_packet` (`new_pkt`) followed by the drain of the tasks it left.
`ProcessTimeout` is `process_timeout` followed by its drain. A drain of n
packets is `ProcessRetransTask`. It tests `match_retrans_limit() &&
pkts() > 100` before every packet: it skips the packet, or sends it and
counts it. The f64 test `retrans / pkts > 0.1` is `10 * retrans > pkts`, and
it is false at 0/0 (NaN). The number of lost packets in the tasks is a free
choice; `ToClientQueue` and `Conn` model which packets those are.

### `Copa`
The controller of `cc.rs`, one per connection. Its variables are the struct's
fields. The filters are sets of `[t, v]` samples, `packet_record` is
`UsedWindow`'s deque, and `overspeed` is `Conn.overspeed`, the last verdict
of `on_data_send`. `status` becomes `"Panicked"` when `on_ack_send`'s
Duration subtraction `dq = rtt_standing - rtt_min` would underflow.

Abstractions:
- One tick is 10 ms, so `MIN_STANDING_WINDOW` is 1 tick and `MIN_RTT_WINDOW`
  is 1000 ticks.
- `cwnd` and `cwnd_last_direction_change` are exact rationals `[num, den]`.
  Every test the code makes is a ratio of durations, so none depends on the
  tick's length:
  - `rate_recent > rate_target` is `recent · rtt_min > cwnd · rtt`;
  - `λ <= λt` is `cwnd · dq <= 2 · rtt_standing`, which is true at `dq = 0`
    (λt is infinite there).
- `minmax.rs` is not in the repository. `RunningMin` is therefore the exact
  windowed minimum the spec describes. It keeps only the samples that can
  still be the minimum. Windows are doubled so that `srtt/2` stays whole.
- `InitCwnd` and `MinCwnd` are the code's 10.0 (the initial cwnd and the
  floor). They are scaled so that a handful of datagrams exceeds the window.

| Definition | Code |
|---|---|
| `Init` | `Copa::new` |
| `OnDataSend(rtt)` | `on_data_send` with `UsedWindow::on_data_send` (`DropOld`) |
| `OnAckSend(rtt)` | `on_ack_send`, with `CwndUpdateSlowStart` / `CwndUpdate` and the velocity update |
| `ResetRttFilters` | `reset_rtt_filters` |

### `RetransGate`
Composes `Copa` and `RetransLimit` for one to-client-dominant connection.
These are the two gates a lost packet passes before PEMI resends it:
- Copa's overspeed verdict. `to_client_retrans_task` emits a task only when
  the connection is not overspeeding.
- The global rate limit of `process_retrans_task`.

The connection starts on a PEMI that has already handled `StartPkts`
datagrams, `StartRetrans` of them retransmissions.

| Action | Code |
|---|---|
| `ServerDatagram` | the server branch of `process_udp_packet`: `on_data_send` once `client_rtt` is known; the queue's `add` detects no loss |
| `ClientDatagram` | the client branch, then the drain: `ConnStep` may take an RTT sample (`update_client_rtt` → `on_ack_send`) and may leave lost packets, which are tasked only when not overspeeding |
| `Timeout` | `process_timeout`: `on_timeout` may take a sample too, and every connection's task is drained; no datagram is counted |
| `Calibration` | `Conn::rtt_calibration` with an error above the allowance: `client_rtt` takes the sample, and the filters are reset when it was below it (a `client_rtt` of 0 included) |

Other abstractions:
- `client_rtt`'s EWMA is abstracted to any value of `RttValues`.
- One sample per datagram is taken; the code may take several.
- `busy` allows one loop iteration per tick. Each iteration reads its own
  `Instant::now()`.

### `RtcSession`
The RTC media session of `src/apps`. The two binaries say `mod common`;
the file is not in the repository, and `rtc/src/lib.rs` holds the same
`Stats`, `ClientStats` and `PeerTime`, so it is modelled as that module.
Each client of `Clients` runs `quinn-rtc-client` against one server
process. The server's options (`limit`, `block`, `retry`) are chosen in
`Init`, so one run covers every mix of them.

QUIC is abstracted to reliable streams. Per connection, what is in flight
is the Initial, the handshake's answer, the request bytes, the number `uni`
of frame streams opened and not yet read (at most `MaxUni`, the client's
`max_concurrent_uni_streams`), and the client's CONNECTION_CLOSE.

| Action | Code |
|---|---|
| `ServerAccept` | the `while let Some(conn) = endpoint.accept()` loop: refuse at `open_connections() >= n` or a blocked address, `retry()` an unvalidated one (the client's endpoint answers with a validated Initial), else spawn `handle_connection` |
| `ServerHandshake` | `conn.await` in `handle_connection` |
| `ServerReadRequest` | `accept_bi`, `handle_request` (`read_to_end`, `process_get`), `continue` on an error, else `finish`, `request_recved`, `set_request_frames` |
| `ServerLoop` | one test of `while !client.all_frames_sent()` (its assert included) and the ticker's tick; `send_next_frame` counts the frame |
| `SendNextFrame` | the rest of `send_next_frame`: `open_uni` waits for credit, `write_all`, `finish`, `stats.bytes_sent` |
| `ServerClosed` | `connection.closed()` returns on the client's close, then `close` |
| `ServerSeesLoss` | a timed-out connection: `conn.await`/`accept_bi` return `Err`; a failing `send_next_frame` breaks the loop, and `closed()` returns at once |
| `ClientConnected` | `connect().await`, `open_bi`, `write_all` of `format!("GetN {}\r\n")`, `finish` |
| `ClientRefused` | `connect().await` fails on a refused connection |
| `ClientRecvFrame` | `accept_uni`, `read_to_end`, `stats.bytes_recv`, `recved_frames += 1`; at `request_frames` `close` and exit `Ok` |
| `ClientSeesLoss` | `accept_uni` or `connect` returns the timeout error |
| `IdleTimeout` | quinn's 30 s idle timer: nothing in flight and each end waiting on the other (or gone) |
| `Outage` | fault: a path failure long enough for both idle timers |

- The request is modelled byte by byte, because the server's parse decides
  how many frames are sent. `FormatRequest` is the client's `format!`, and
  `ProcessGet` is `process_get`, with `str::trim` and `usize`'s `FromStr`.
  `StatsAgree` checks that `reqFrames` equals the client's `want`.
- The close is lost (fault `CloseLost`) when the client's process exits
  before quinn's driver has sent it: the `select!` on `closed()` returns at
  once after a local close, and nothing waits for `wait_idle`.
- The `ApplicationClosed` branches are unreachable: the server closes only
  after `closed()` has returned. They are not modelled.
- `RtcService` is what the two programs promise each other. A request is
  taken (`Admit`), then frames are produced up to the request (`Produce`)
  and delivered in order (`Deliver`), and the client ends `Ok` exactly at the
  last one. It may fail before that (`Fail`). The refinement mapping reads
  `phase` off the client's exit and the server task's state, `sent` off
  `Stats.bytes_sent`, and `got` off `recved_frames`.
- `FairSpec` gives each client's steps weak fairness, the server's steps on
  its connection, and quinn's idle timer. Tokio runs every task, the ticker
  fires every 33 ms, and quinn's timer fires once a connection is quiet.
  `Outage` is a fault and is not fair.

## 3. Runs

The project has twelve runs. The `Expect` column says whether TLC must find
no error or must find the property violated.

| Run | cfg | Expect | Checks |
|---|---|---|---|
| `dp_matching` | `MCPartialMatch.cfg` | pass | `DpOptimal`: the mapping is a complete order-preserving assignment of minimal total error. `LossAsIntended`: `extract_part_loss` = `IntendedLoss`. 6 900 inputs. |
| `ideal_client` | `ToClientQueueIdeal.cfg` | pass | `TypeOK`, and `CleanFlowletsExact`, an action property: a completed flowlet of at most `FLOWLET_MAX_PKTS` packets in which nothing was dropped reports no loss, and an iteration completing only such flowlets yields only exact RTT samples. Flowlets over the cap, which `check_reply` completes at their first reply, occur in the run; they do report delivered packets lost (the `spurious_loss` finding) and are excluded, so the property checks that they leave the other flowlets' verdicts exact. 211 437 states. |
| `chaos_client` | `ToClientQueueChaos.cfg` | pass | `QueueConsistent`: the flowlets partition the queued packets, numbers are consecutive and end at `processed`, begin/end are the timestamps of the first and last packet, and nothing is left marked complete. `AtMostOneRetransmission`. 563 623 states. |
| `spurious_loss` | `ToClientQueueSpurious.cfg` | violation | `NoSpuriousLoss`: every reported loss was dropped. |
| `conn_overspeed` | `ConnOverspeed.cfg` | pass | `TypeOK`. `DelayedAcksWithinOverspeed`: held ACKs exist only while overspeeding on a handshaked connection, all queued after `overspeed_begin`. `ClientDatagramsReorderedOnce`: sent-on plus held client datagrams are exactly 1..n without duplicates, and no sent-on datagram is overtaken by more than one later datagram. About 610 000 states. |
| `pemi_idle` | `PemiIdle.cfg` | pass | `HeapTracksConns`: exactly one heap entry per live connection. `EvictedWithinTwiceIdle`: no connection outlives its last access by 2 × `IDLE_TIMEOUT`. `IdleTimerServed` (liveness, under `FairSpec`): a due idle timer is served, so the loop does not spin on `process_timeout`. 25 028 states. |
| `quic_walk` | `QuicWalk.cfg` | pass | `WalkMatchesReference`, an action property: on every well formed datagram of up to two coalesced packets, the byte-level walk leaves the connection and gives the outcome that `Recognise` gives. 21 156 states. |
| `quic_faults` | `QuicFaults.cfg` | violation | `PemiSurvivesDatagrams`: no datagram ends PEMI. |
| `rtt_echo` | `RttEcho.cfg` | pass | `Refinement`: the detector implements `EchoProbe` with lost and reordered replies to two IPs, in both builds. `EveryReplyAnswered` (liveness, under `FairSpec`). 167 130 states. |
| `rtt_faults` | `RttFaults.cfg` | violation | `DetectorRunning`: the detector never panics. |
| `rtc_session` | `RtcSession.cfg` | pass | `TypeOK`. `StatsAgree`: a client exiting `Ok` counted the bytes the server's `Stats` counted, `request_frames` of them. `Refinement`: the session implements `RtcService`. `ClientSucceeds` (liveness): every accepted connection ends with the client exiting `Ok` unless the path failed. `HandlerEnds` (liveness): every `handle_connection` task returns, also after a lost close. 93 158 states. |
| `retrans_gate` | `RetransGate.cfg` | pass | `CopaRunning`: `on_ack_send`'s `dq` never underflows, across calibration resets. `OverspeedNeedsWindow`, an action property: overspeed is reported only when more than cwnd packets went out within `client_rtt`. `RetransRateSettles`: once the rate has been within 0.1 past 100 packets, it never exceeds 0.1 by more than one packet, whatever Copa's gate lets through. 106 541 states, about 35 s. |

### Bounds and why they suffice

- **`dp_matching`**: 4 sent packets over 4 ticks cover all the shapes:
  - unmatched heads, tails and interiors;
  - equal timestamps (gap 0 < `CLOSE_THRESHOLD` = 1 tick);
  - both `used_rtt` branches;
  - ties in the DP.
- **`ideal_client`**: `TrueRtt = 6` against an initial flowlet timeout of 2
  ticks lets two flowlets be in flight at once, as on real paths where the RTT
  dwarfs packet gaps. With `TrueRtt ≤ 2`, no state has two flowlets. The other
  bounds are 4 server datagrams, 2 drops (enough for a retransmission to be
  lost again) and 14 ticks (enough for every flowlet to time out).
  `ElicitingPeriod = 2` (the code's 50) makes the eliciting threshold change
  within the bound. `FlowletMaxPkts = 3` (the code's 100) lets the 4 datagrams
  form a flowlet over the cap, so cap completions happen alongside the others.
- **`chaos_client`**: 4 server and 3 client datagrams over 9 ticks, with RTTs
  {1, 4} so that calibrations really reset. `FlowletMaxPkts = 2` (the code's
  100) makes the cap reachable.
- **`conn_overspeed`**: 5 client and 3 server datagrams over 8 ticks, with
  sizes {1, 2}. The client datagrams are the Initial, the one that measures
  `client_rtt`, and three held during an overspeed episode. Three held ACKs
  are the fewest that tell tail-first release from newest-first. `Granularity`
  = 1 tick stands for 1 ms, and `PacketThreshold` is the code's 3.
- **`pemi_idle`**: two connections, `IDLE_TIMEOUT` = 3 ticks and 12 ticks.
  That is enough for a connection to be renewed once and then evicted, and
  for a second connection to arrive in between. There is no symmetry, since
  the run checks a liveness property.
- **`quic_walk`**: `MAX_CID_LEN` is scaled to 1. Cid lengths are {0, 1} and
  token, payload and padding lengths are {0, 1}, with two coalesced packets.
  This covers every header form, a token, trailing padding, and a packet
  after the first. A second packet is what the walk gets wrong when the
  length is misread.
- **`rtt_echo`**: two IPs, four requests and six ticks, with a 3-bit counter
  that does not reach its top. That is enough for replies to two IPs to
  cross, and for a reply to be lost while a later one is answered.
- **`retrans_gate`**: the code's threshold of 100 packets is kept. The run
  starts at 98 or 100 datagrams with 8 to 12 retransmissions, and goes to 106
  datagrams, with tasks of up to 3 packets. At packet 101 the rate can be
  above the limit or within it.
  - `RttValues = {1, 2, 4}` ticks: a smaller sample can expire from the
    standing window (`rtt/2`) and stay in the 10 s one, so `dq > 0` occurs
    and both branches of each cwnd update run.
  - `InitCwnd = MinCwnd = 2`: two or three datagrams within one `client_rtt`
    exceed the window.
  - `MaxTime = 4`: five instants, one iteration each. They cover the first sample, a later
    smaller or larger one, a calibration and the datagrams that follow it.
    Six instants take about 2 minutes alone, too close to the 5-minute limit
    when runs share the machine.

- **`rtc_session`**: two clients, so that `--connection-limit 1` refuses
  one, and one of them can be blocked. They ask for 1 or 2 frames: two
  frames with a credit of one stream (`MaxUni = 1`, the client's 100 scaled
  down) make the server wait for the client's read before the second
  frame. Limits `{}` (None) and `{1}`, and `retry` in both values. With
  `RequestFrames = {0, 1}`, `ClientSucceeds` fails (see the hazards):
  - the server parses 0, sends nothing and waits in `closed()`;
  - the client waits in `accept_uni` for a frame, since it compares
    `recved_frames` only after one;
  - quinn's idle timeout fails the client.

Deadlock is checked in every passing run. Every behaviour ends in `Done`
(`Finished` in `RtcSession`, when every client has exited and every task
has returned) at its bound, and that is the only step that is not an
iteration of the loop.
The violation runs that end PEMI (`quic_faults`, `rtt_faults`) turn deadlock
checking off, because a stopped PEMI takes no step.

### What the violations show

- **`spurious_loss`**, as configured (the code's `FLOWLET_MAX_PKTS` = 100):
  - Server datagrams at ticks 0, 4 and 5 form one flowlet, and the tail (5)
    is dropped. Replies arrive at 6 and 10.
  - The reply span (4) is not below 0.8 × the send span (5), so
    `match_sent_part_reply` takes the end sample 10 − 5 = 5 as `used_rtt`,
    against a true RTT of 6.
  - The DP assigns the reply at 10 to the dropped packet, and packet 2, which
    was delivered, is reported lost and retransmitted.
  - The comment on `DURATION_RATIO_THRESHOLD` says the ratio decides whether
    the lost packets are edge packets. With the code's eliciting threshold 1
    (the first 49 packets of a connection), this happens whenever the tail gap
    is under a fifth of the flowlet's duration.
- **`spurious_loss`** with `FlowletMaxPkts = 3` in the same cfg:
  - Four packets, sent at ticks 0, 0, 0 and 1 and none dropped, form one
    flowlet that gets its first reply at 6.
  - `check_reply` marks it complete, and packet 4, whose reply is in flight,
    is reported lost.
  - The comment on `FLOWLET_MAX_PKTS` says PEMI abandons protection of such a
    flowlet. Instead, the code declares the unanswered rest lost.
- **`quic_faults`**:
  - The server's zero-length datagram is the first one PEMI sees for the
    flow.
  - `quic_conn_process`'s loop does not run, so it returns `Ok` without a
    connection, and `expect("the connection must exist")` panics.
  - With `Faults = {"NotQuic"}`, the same property fails on a one-byte
    datagram with the form bit set. `from_bytes` returns `BufferTooShort`,
    which `process_packet` returns, and main's `?` exits. Spec section 7
    says BufferTooShort is handled like NotQUIC.
  - With `Faults = {"LateStart"}`, it fails on the `conn.rs:209` assert:
    - the server has seen the client's Initial, but PEMI's table has no
      entry for the flow;
    - the server's coalesced Initial + Handshake creates the entry, with the
      server as `client_addr`;
    - its own Handshake packet is then "from the client", and the assert
      panics.
- **`rtt_faults`**:
  - A request to i1 is sent, and its reply is delivered twice.
  - The second copy finds no pending request, and `recv_response` panics.
  - With `Faults = {"Loss"}`, the same debug-build run fails on the third
    request: the 2-bit counter overflows in `seq += 1`. In the code, this is
    the 65 535th request to one IP.

Three divergences are stated as properties in the modules, but have no run
of their own:

- `DelayedAckReleasedWhenDue` (Conn): a lone held ACK stays held past spec
  4.6's age threshold, because `check_delayed_acks` returns at `len() < 2`.
- `EvictedWhenIdle` (Pemi): a busy connection's entry is re-pushed with
  `AccessTime(now)`, so an idle connection can stay up to another
  `IDLE_TIMEOUT`.
- `RetransRateBounded` (RetransLimit): retransmissions before the 100-packet
  threshold put the rate at 12/101 at packet 101.

Checking any of them as a `PROPERTY` with the constants of `conn_overspeed`,
`pemi_idle` or `retrans_gate` gives the trace described in `PROJECT.json`'s
hazards.

### Mutants

`PROJECT.json` lists, for each property of each passing run, a plausible bug
in a mapped definition that the property catches. Each mutant operator is
defined just before the definition it replaces.

- "skip" compared when `j = i`;
- `<=` instead of `<` for `CLOSE_THRESHOLD`;
- the EWMA rounded down;
- the deadline without the end-factor allowance;
- the reset leaving packets queued;
- Retrans packets queued for retransmission;
- `detected_loss` drained only when the task is sent;
- no flush when overspeed ends;
- delayed ACKs released newest first;
- a busy connection's heap entry not re-pushed;
- `is_idle` with `>` instead of `>=`;
- `remove_idle_conns` stopping at the first busy connection;
- the padding check left out of `process_quic_packet`;
- `recv_response` reading the pending entry without removing it;
- `send_request` incrementing the counter before recording;
- the rate limit tested once per task instead of per packet;
- `on_data_send` reading `rtt_min` before giving the filter the sample;
- `reset_rtt_filters` clearing only the 10 s filter, after which
  `rtt_standing < rtt_min` and `dq` underflows;
- `open_uni` not waiting for stream credit;
- `bytes_recv` resetting the total at the print interval;
- the client comparing `recved_frames` before counting the frame;
- the frame loop running while `frame_count <= request_frames`;
- `all_frames_sent` true only past `request_frames`, so one frame too many
  is written.

## 4. Plan for the remaining modules

1. **`Conn`**: `process_udp_packet_no_pemi` in `proxy_only` mode. It only
   forwards and logs.
2. **Composition**: several connections with the LIFO `retrans_tasks` and
   `rtt_calibration`, which applies one IP's sample to every connection
   (the TODO at `lib.rs:294`).
3. **`Copa` with `Conn`**: replace `Conn`'s nondeterministic overspeed
   oracle by `Copa`, so that the delayed-ACK properties are checked against
   real verdicts. This is beyond TLC's reach with `Conn`'s queues at the
   current bounds.
4. **`RtcSession` with `--request-frames 0`** as a violation run of
   `ClientSucceeds`. It is described in the hazards, and all twelve run
   slots are taken.

## 5. Not modelled, and why

- `pemi_io.rs`: sockets, and `sendto` through transparent sockets. Its only
  effect, forwarding a datagram, is an action of the models.
- The socket setup of `RttDetector::new` / `init_icmp_socket`, and the ICMP
  packet building. A DGRAM ICMP socket delivers only echo replies to the
  detector.
- The `cycles` feature, logging and `Display` implementations. They have no
  state that matters.
- The Minmax filter's approximation. `minmax.rs` is not in the repository,
  so `Copa` uses the exact windowed minimum the spec names; a three-sample
  Kathleen Nichols filter may report a larger minimum.
- Float rounding of `Duration::mul_f64` and of the DP's `as_secs_f64` costs.
  Times are ticks. A tie the integers resolve one way could go the other way in
  nanosecond floats.
- Varints of more than one byte, and connection ids of more than one byte.
  Each read is one abstract cell, which keeps the order of the reads and
  their failure points.
- The goodput client (`quinn-goodput-client.rs`). Its server, an HTTP/0.9
  server that answers on the bidirectional stream, is not in the
  repository. Against the RTC server, its `GET` request is rejected by
  `process_get` and never answered. Its own control flow is linear.
- Of the RTC apps: TLS and certificate setup, `--rebind`, logging,
  `PeerTime`, `print_bytes` and `packet_id`. These are log text only.
