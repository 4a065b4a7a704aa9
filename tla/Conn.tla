-------------------------------- MODULE Conn --------------------------------
(***************************************************************************)
(* One PEMI connection (src/pemi/src/conn.rs, struct Conn) as             *)
(* PEMI::process_packet, process_timeout and rtt_calibration drive it,    *)
(* composed with its to_client_queue and to_server_queue (PacketQueue).   *)
(*                                                                         *)
(* The connection exists from the client's first Initial (Conn::new at     *)
(* tick 0); the first datagram processed is that Initial.  A datagram is   *)
(* [id, size] plus, for the server, whether it carries a Handshake packet. *)
(* Datagrams are processed at distinct instants (at most one per tick),    *)
(* as Instant::now() is distinct per loop iteration.                       *)
(*                                                                         *)
(* Copa (cc.rs) is abstracted to its output: on_data_send returns any      *)
(* overspeed verdict; on_ack_send and reset_rtt_filters only touch Copa's  *)
(* own state.  The retransmission rate limit (PEMI) is taken as not       *)
(* reached.  Forwarding (pemi_io::send_transparently) appends to a ghost   *)
(* sequence of the client datagrams sent on towards the server.           *)
(***************************************************************************)
EXTENDS PacketQueue

CONSTANTS
    Sizes,           \* datagram sizes
    Granularity,     \* DELAY_kGranularity (1 ms) in ticks
    PacketThreshold, \* DELAY_kPacketThreshold (3)
    RttValues,       \* ICMP calibration samples
    MaxClientPkts, MaxServerPkts, MaxTime

ASSUME Sizes \subseteq Nat \ {0} /\ Granularity \in Nat /\ PacketThreshold \in Nat

\* min_pkt_size starts at usize::MAX: larger than any size.
NoSize == 1 + CHOOSE s \in Sizes : \A t \in Sizes : s >= t

VARIABLES
    state,               \* "Initialed" | "Handshaked"
    last_access,
    client_rtt, server_rtt,
    to_server_queue, to_server_pkt_num, to_client_queue,
    dir,                 \* dominant-direction estimator
    overspeed, overspeed_begin,   \* overspeed_begin: {} is None
    delayed_ack_queue,   \* Seq of [forward_ts, id, e2e_rtt]
    last_rtt_calibration,
    now, busy,           \* busy: a datagram was processed at this tick
    clientSent, serverSent,
    forwarded,           \* ghost: client datagram ids sent on to the server
    probes               \* ICMP requests sent (new flowlets) not yet answered

connVars == <<state, last_access, client_rtt, server_rtt, to_server_queue,
              to_server_pkt_num, to_client_queue, dir, overspeed, overspeed_begin,
              delayed_ack_queue, last_rtt_calibration>>
vars == <<connVars, now, busy, clientSent, serverSent, forwarded, probes>>

(***************************************************************************)
(* measure_dominant_direction: byte counts above the smallest size seen,  *)
(* compared every client_rtt + server_rtt.                                 *)
(***************************************************************************)
NewDir(t) == [min_pkt_size |-> NoSize, dominant_direction |-> "None",
              last_dominant_check |-> t, server_bytes |-> 0, client_bytes |-> 0]

MeasureDominantDirection(d, recv, fromClient, size, e2e) ==
    LET d1 == IF size < d.min_pkt_size THEN [d EXCEPT !.min_pkt_size = size]
              ELSE IF fromClient THEN [d EXCEPT !.client_bytes = @ + size - d.min_pkt_size]
              ELSE [d EXCEPT !.server_bytes = @ + size - d.min_pkt_size]
        newDir == IF d1.client_bytes * 2 < d1.server_bytes THEN "ToClient"
                  ELSE IF d1.server_bytes * 2 < d1.client_bytes THEN "ToServer"
                  ELSE d1.dominant_direction
    IN  IF SatSub(recv, d1.last_dominant_check) >= e2e
        THEN [d1 EXCEPT !.dominant_direction = newDir, !.last_dominant_check = recv,
                        !.server_bytes = 0, !.client_bytes = 0]
        ELSE d1

(***************************************************************************)
(* check_delayed_acks(now): flush in order when not overspeeding; with at  *)
(* least two queued, release when more than pkt_thresh are queued or the  *)
(* front is older than max(e2e_rtt x time_thresh, granularity): the tail   *)
(* first, then the rest in order.  The thresholds double once overspeed    *)
(* has lasted longer than the front's e2e_rtt (time_thresh 9/8 or 5/4).   *)
(* Returns the queue and the ids sent, in sending order.                   *)
(***************************************************************************)
Ids(qq) == [i \in 1..Len(qq) |-> qq[i].id]

AckReleaseDue(qq, ovBegin, t) ==
    LET front == qq[1]
        long  == t - ovBegin > front.e2e_rtt
        pktThresh == IF long THEN PacketThreshold * 2 ELSE PacketThreshold
        age == SatSub(t, front.forward_ts)
        \* age > max(e2e x time_thresh, granularity), time_thresh = 9/8 or 5/4
        timeDue == IF long THEN 4 * age > 5 * front.e2e_rtt ELSE 8 * age > 9 * front.e2e_rtt
    IN  Len(qq) > pktThresh \/ (timeDue /\ age > Granularity)

\* Mutant: no flush when overspeed has ended.
CheckDelayedAcksNoFlush(qq, ov, ovBegin, t) ==
    CASE qq = <<>> \/ Len(qq) < 2 -> [queue |-> qq, sent |-> <<>>]
      [] AckReleaseDue(qq, ovBegin, t) ->
                       [queue |-> <<>>, sent |-> <<Last(qq).id>> \o Ids(Front(qq))]
      [] OTHER      -> [queue |-> qq, sent |-> <<>>]

\* Mutant: a release sends the queue newest first.
CheckDelayedAcksLifo(qq, ov, ovBegin, t) ==
    CASE qq = <<>>  -> [queue |-> qq, sent |-> <<>>]
      [] ~ov        -> [queue |-> <<>>, sent |-> Ids(qq)]
      [] Len(qq) < 2 -> [queue |-> qq, sent |-> <<>>]
      [] AckReleaseDue(qq, ovBegin, t) -> [queue |-> <<>>, sent |-> Reverse(Ids(qq))]
      [] OTHER      -> [queue |-> qq, sent |-> <<>>]

CheckDelayedAcks(qq, ov, ovBegin, t) ==
    CASE qq = <<>>  -> [queue |-> qq, sent |-> <<>>]
      [] ~ov        -> [queue |-> <<>>, sent |-> Ids(qq)]
      [] Len(qq) < 2 -> [queue |-> qq, sent |-> <<>>]
      [] AckReleaseDue(qq, ovBegin, t) ->
                       [queue |-> <<>>, sent |-> <<Last(qq).id>> \o Ids(Front(qq))]
      [] OTHER      -> [queue |-> qq, sent |-> <<>>]

\* update_client_rtt (the Copa on_ack_send call is abstracted away).
UpdateClientRtt(rtt, s) == IF rtt = 0 THEN s ELSE (7 * rtt + s + 4) \div 8

\* Task::from_queue + process_retrans_task: detected_loss is always drained;
\* the packets are resent and recorded only when to-client is dominant and
\* not overspeeding.
RetransGate(d, ov) == d.dominant_direction = "ToClient" /\ ~ov

\* Mutant: detected_loss is only drained when the task is sent.
RetransmitKeepWhenGated(qc, d, ov) ==
    IF RetransGate(d, ov)
    THEN FoldLeft(LAMBDA acc, p : Add(acc, now, FALSE, p.payload).q,
                  DrainDetectedLoss(qc), qc.detected_loss)
    ELSE qc

Retransmit(qc, d, ov) ==
    LET lost == qc.detected_loss
        q0 == DrainDetectedLoss(qc)
    IN  IF RetransGate(d, ov)
        THEN FoldLeft(LAMBDA acc, p : Add(acc, now, FALSE, p.payload).q, q0, lost)
        ELSE q0

\* overspeed_begin = None.
NoTs == -1

Init ==
    /\ state = "Initialed"
    /\ last_access = 0
    /\ client_rtt = 0 /\ server_rtt = 0
    /\ to_server_queue = NewQueue(0) /\ to_server_pkt_num = 0
    /\ to_client_queue = NewQueue(0)
    /\ dir = NewDir(0)
    /\ overspeed = FALSE /\ overspeed_begin = NoTs
    /\ delayed_ack_queue = <<>>
    /\ last_rtt_calibration = 0
    /\ now = 0 /\ busy = FALSE
    /\ clientSent = 0 /\ serverSent = 0
    /\ forwarded = <<>> /\ probes = 0

\* process_quic_packet before the handshake: a Handshake packet (only the
\* server's; the client's would fail the assert) marks the connection.
ProcessQuicPacket(hasHandshake) == IF hasHandshake THEN "Handshaked" ELSE state

\* need_reorder_ack, for a client datagram.
NeedReorderAck == overspeed /\ state = "Handshaked"

\* add_delayed_ack: queue the datagram with the current end-to-end RTT, then
\* check_delayed_acks.
AddDelayedAck(id) ==
    CheckDelayedAcks(Append(delayed_ack_queue,
                            [forward_ts |-> now, id |-> id, e2e_rtt |-> client_rtt + server_rtt]),
                     overspeed, overspeed_begin, now)

(***************************************************************************)
(* A client datagram: quic_conn_process (process_quic_packet: access time; *)
(* a client Handshake before the handshake is the assert, so the client's  *)
(* datagrams before it are Initials), then need_reorder_ack ?             *)
(* add_delayed_ack : forward, then process_udp_packet's client branch:    *)
(* first client RTT, dominant direction, to_server_queue while server_rtt *)
(* is zero, check_reply and its samples, check_delayed_acks; then the     *)
(* retransmission task the main loop sends.                                *)
(***************************************************************************)
ClientDatagram ==
    /\ ~busy /\ clientSent < MaxClientPkts
    /\ \E size \in Sizes :
       LET id    == clientSent + 1
           c1    == IF NeedReorderAck THEN AddDelayedAck(id)
                    ELSE [queue |-> delayed_ack_queue, sent |-> <<id>>]
           rtt1  == IF client_rtt = 0 /\ server_rtt # 0
                    THEN UpdateClientRtt(client_rtt, SatSub(now, OldestTs(to_client_queue)))
                    ELSE client_rtt
           d1    == MeasureDominantDirection(dir, now, TRUE, size, rtt1 + server_rtt)
           r     == CheckReply(to_client_queue, now, rtt1)
           c2    == CheckDelayedAcks(c1.queue, overspeed, overspeed_begin, now)
       IN  /\ last_access' = now
           /\ to_server_queue' = IF server_rtt = 0
                                 THEN Add(to_server_queue, now, TRUE, id).q
                                 ELSE to_server_queue
           /\ to_server_pkt_num' = to_server_pkt_num + 1
           /\ client_rtt' = FoldLeft(UpdateClientRtt, rtt1, r.samples)
           /\ dir' = d1
           /\ delayed_ack_queue' = c2.queue
           /\ to_client_queue' = Retransmit(r.q, d1, overspeed)
           /\ forwarded' = forwarded \o c1.sent \o c2.sent
    /\ clientSent' = clientSent + 1 /\ busy' = TRUE
    /\ UNCHANGED <<state, server_rtt, overspeed, overspeed_begin, last_rtt_calibration,
                   now, serverSent, probes>>

(***************************************************************************)
(* A server datagram, after the client's first Initial: a Handshake packet *)
(* in it marks the connection handshaked; it is forwarded; then the server *)
(* branch of process_udp_packet: first server RTT, dominant direction,    *)
(* Copa's overspeed verdict once client_rtt is measured (overspeed_begin   *)
(* kept while it lasts), add to to_client_queue, check_delayed_acks; then  *)
(* the retransmission task.                                                *)
(***************************************************************************)
ServerDatagram ==
    /\ ~busy /\ clientSent > 0 /\ serverSent < MaxServerPkts
    /\ \E size \in Sizes,
          hs \in IF state = "Initialed" THEN BOOLEAN ELSE {FALSE},
          ov \in IF client_rtt # 0 THEN BOOLEAN ELSE {overspeed} :
       LET srtt == IF server_rtt = 0 THEN SatSub(now, OldestTs(to_server_queue))
                   ELSE server_rtt
           d1   == MeasureDominantDirection(dir, now, FALSE, size, client_rtt + srtt)
           ovb  == CASE client_rtt = 0 -> overspeed_begin
                     [] ov -> IF overspeed_begin = NoTs THEN now ELSE overspeed_begin
                     [] OTHER -> NoTs
           a    == Add(to_client_queue, now, TRUE, serverSent + 1)
           c    == CheckDelayedAcks(delayed_ack_queue, ov, ovb, now)
       IN  /\ state' = ProcessQuicPacket(hs)
           /\ last_access' = now
           /\ server_rtt' = srtt
           /\ dir' = d1
           /\ overspeed' = ov /\ overspeed_begin' = ovb
           /\ to_client_queue' = Retransmit(a.q, d1, ov)
           /\ delayed_ack_queue' = c.queue
           /\ forwarded' = forwarded \o c.sent
           /\ probes' = IF a.new_flowlet THEN probes + 1 ELSE probes
    /\ serverSent' = serverSent + 1 /\ busy' = TRUE
    /\ UNCHANGED <<client_rtt, to_server_queue, to_server_pkt_num, last_rtt_calibration,
                   now, clientSent>>

\* Conn::timeout() is Some(0).
TimerDue ==
    IF to_client_queue.flowlets = <<>> \/ client_rtt = 0 THEN FALSE
    ELSE Deadline(to_client_queue, client_rtt) <= now

\* process_timeout: on_timeout and its samples, then the retransmission task.
Timer ==
    /\ ~busy /\ TimerDue
    /\ LET r == OnTimeout(to_client_queue, now, client_rtt, <<>>)
       IN  /\ client_rtt' = FoldLeft(UpdateClientRtt, client_rtt, r.samples)
           /\ to_client_queue' = Retransmit(r.q, dir, overspeed)
    /\ busy' = TRUE
    /\ UNCHANGED <<state, last_access, server_rtt, to_server_queue, to_server_pkt_num, dir,
                   overspeed, overspeed_begin, delayed_ack_queue, last_rtt_calibration,
                   now, clientSent, serverSent, forwarded, probes>>

(***************************************************************************)
(* An ICMP echo reply to one of the requests process_packet sent for a     *)
(* new flowlet (matching replies to requests is rtt_det.rs):               *)
(* Conn::rtt_calibration.  A sample taken less than one end-to-end RTT     *)
(* after the last calibration is ignored; otherwise one that deviates from *)
(* client_rtt by more than the allowance resets the to-client queue and   *)
(* replaces client_rtt.                                                    *)
(***************************************************************************)
Calibrate(s) ==
    IF now - last_rtt_calibration >= s + server_rtt
    THEN /\ last_rtt_calibration' = now
         /\ IF Abs(s - client_rtt) > (FlowletTimeout(to_client_queue) * EndFactorNum) \div EndFactorDen
            THEN /\ to_client_queue' = ResetDueToRttDeviation(to_client_queue)
                 /\ client_rtt' = s
            ELSE UNCHANGED <<to_client_queue, client_rtt>>
    ELSE UNCHANGED <<last_rtt_calibration, to_client_queue, client_rtt>>

Calibration ==
    /\ ~busy /\ probes > 0
    /\ probes' = probes - 1
    /\ \E s \in RttValues : Calibrate(s)
    /\ busy' = TRUE
    /\ UNCHANGED <<state, last_access, server_rtt, to_server_queue, to_server_pkt_num, dir,
                   overspeed, overspeed_begin, delayed_ack_queue, now, clientSent,
                   serverSent, forwarded>>

\* Time passes once the iteration of this instant is over or nothing is due.
Tick ==
    /\ now < MaxTime
    /\ busy \/ ~TimerDue
    /\ now' = now + 1 /\ busy' = FALSE
    /\ UNCHANGED <<connVars, clientSent, serverSent, forwarded, probes>>

\* The last tick of the bounded behaviour.
Done == now = MaxTime /\ UNCHANGED vars

Next == ClientDatagram \/ ServerDatagram \/ Timer \/ Calibration \/ Tick \/ Done

Spec == Init /\ [][Next]_vars

----------------------------------------------------------------------------
(* Properties.                                                             *)

DelayedAck == [forward_ts : Nat, id : Nat, e2e_rtt : Nat]

TypeOK ==
    /\ state \in {"Initialed", "Handshaked"}
    /\ last_access \in 0..MaxTime /\ last_rtt_calibration \in 0..MaxTime
    /\ client_rtt \in Nat /\ server_rtt \in Nat /\ to_server_pkt_num \in Nat
    /\ dir.dominant_direction \in {"None", "ToClient", "ToServer"}
    /\ dir.min_pkt_size \in Sizes \cup {NoSize}
    /\ overspeed \in BOOLEAN /\ overspeed_begin \in {NoTs} \cup 0..MaxTime
    /\ delayed_ack_queue \in Seq(DelayedAck)
    /\ to_client_queue.detected_loss = <<>> /\ to_server_queue.detected_loss = <<>>
    /\ forwarded \in Seq(1..MaxClientPkts)

(* ACKs are held back only inside an overspeed episode of a handshaked     *)
(* connection: every queued ACK was queued after the episode began         *)
(* (overspeed_begin, which check_delayed_acks unwraps), and the server     *)
(* datagram that ends the episode flushes them (check_delayed_acks after  *)
(* on_data_send, the flush when overspeed is false).                       *)
DelayedAcksWithinOverspeed ==
    delayed_ack_queue # <<>> =>
        /\ overspeed /\ state = "Handshaked" /\ overspeed_begin # NoTs
        /\ \A i \in DOMAIN delayed_ack_queue :
             delayed_ack_queue[i].forward_ts >= overspeed_begin

(* Every client datagram of the connection is either sent on to the server *)
(* exactly once or still held in delayed_ack_queue, and the reordering     *)
(* PEMI applies is mild: in what it sends, no client datagram is overtaken *)
(* by more than one later datagram (release sends the tail first, then the *)
(* rest in order; an ACK is held only while none are sent directly).       *)
ClientDatagramsReorderedOnce ==
    LET out == forwarded \o Ids(delayed_ack_queue)
    IN  /\ IsInjective(out) /\ ToSet(out) = 1..clientSent
        /\ \A k \in DOMAIN forwarded :
             Cardinality({i \in 1..k - 1 : forwarded[i] > forwarded[k]}) <= 1

(* Spec 4.6: at each packet event, a queued ACK is released once more than *)
(* pkt_thresh are queued or the front has waited longer than               *)
(* max(e2e_rtt x time_thresh, 1 ms).  After every datagram, no ACK left in *)
(* delayed_ack_queue meets that rule (check_delayed_acks, the len < 2      *)
(* return).                                                                *)
DelayedAckReleasedWhenDue ==
    [][clientSent' + serverSent' > clientSent + serverSent =>
         ~(delayed_ack_queue' # <<>> /\ overspeed'
           /\ AckReleaseDue(delayed_ack_queue', overspeed_begin', now'))]_vars


=============================================================================
