--------------------------- MODULE ToClientQueue ---------------------------
(***************************************************************************)
(* One connection's to_client_queue as the event loop drives it           *)
(* (src/pemi/src/bin/main.rs loop, lib.rs process_packet / process_timeout *)
(* / process_retrans_task, conn.rs process_udp_packet / on_timeout /       *)
(* record_retrans_packet), together with the network between PEMI and the *)
(* client.  Each step is one iteration of the main loop: a server datagram *)
(* added to the queue, a client datagram checked as a reply, or the timer; *)
(* the retransmission task it leaves (Task::from_queue draining            *)
(* detected_loss) is sent in the same iteration, each retransmission being *)
(* recorded in the queue as a Retrans packet.                              *)
(*                                                                         *)
(* Two environments.  Ideal (Chaos = FALSE): the client answers every     *)
(* datagram it receives with one datagram that reaches PEMI exactly        *)
(* TrueRtt ticks after PEMI forwarded it, and the PEMI->client link may   *)
(* drop datagrams.  Chaos (Chaos = TRUE): client datagrams arrive at any  *)
(* tick, unrelated to what was sent, and RTT calibrations may replace      *)
(* client_rtt by any value of RttValues.                                  *)
(*                                                                         *)
(* Here the connection is handshaked, to-client dominant and not          *)
(* overspeeding, and the retransmission rate limit is not reached; the    *)
(* Conn and Pemi modules model those gates.                                *)
(***************************************************************************)
EXTENDS PacketQueue

CONSTANTS
    Chaos,           \* which environment
    TrueRtt,         \* ideal: PEMI -> client -> PEMI delay of every datagram
    RttValues,       \* chaos: RTT calibration samples
    MaxServerPkts,   \* server datagrams forwarded in a behaviour
    MaxClientPkts,   \* chaos: client datagrams in a behaviour
    MaxDrops,        \* ideal: datagrams the PEMI->client link drops
    MaxTime          \* last tick

VARIABLES
    q,              \* Conn.to_client_queue
    client_rtt,     \* Conn.client_rtt
    now,            \* the tick of the current loop iteration
    wire,           \* ideal: replies in flight, [due, num], in due order
    sent,           \* server datagrams forwarded so far (payload ids 1..sent)
    clientPkts,     \* chaos: client datagrams so far
    dropped,        \* ghost: queue numbers of datagrams the link dropped
    reported,       \* ghost: queue numbers pushed to detected_loss
    stepSamples,    \* ghost: the RTT samples of the last iteration
    retransCount    \* ghost: retransmissions per payload

vars == <<q, client_rtt, now, wire, sent, clientPkts, dropped, reported, stepSamples,
          retransCount>>

Payloads == 1..MaxServerPkts

\* update_client_rtt: first sample, or EWMA with RTT_SMOOTHING_FACTOR 1/8
\* (rounded to the nearest tick).  The Copa call on_ack_send is in Conn.
UpdateClientRtt(rtt, s) == IF rtt = 0 THEN s ELSE (7 * rtt + s + 4) \div 8

\* process_retrans_task: send every packet of the task in order and record
\* each as a Retrans packet (Conn::record_retrans_packet -> add(now, None)).
RecordRetransPackets(q0, lost) ==
    FoldLeft(LAMBDA acc, p : Add(acc, now, FALSE, p.payload).q, q0, lost)

(***************************************************************************)
(* The common end of a loop iteration: apply the RTT samples to           *)
(* client_rtt, take the retransmission task from detected_loss and send   *)
(* it, then put on the wire what was forwarded (sends: queue numbers, in  *)
(* order), each datagram possibly dropped by the link.                     *)
(***************************************************************************)
EndOfIteration(q1, smp, sends, w) ==
    LET lost     == q1.detected_loss
        q2       == RecordRetransPackets(DrainDetectedLoss(q1), lost)
        out      == sends \o [i \in 1..Len(lost) |-> q1.processed + i]
    IN  \E drop \in SUBSET DOMAIN out :
          /\ Cardinality(drop) + Cardinality(dropped) <= MaxDrops
          /\ q' = q2
          /\ client_rtt' = FoldLeft(UpdateClientRtt, client_rtt, smp)
          /\ wire' = IF Chaos THEN w
                     ELSE LET kept == SelectSeq([i \in DOMAIN out |-> i],
                                                LAMBDA i : i \notin drop)
                          IN  w \o [k \in 1..Len(kept) |->
                                      [due |-> now + TrueRtt, num |-> out[kept[k]]]]
          /\ dropped' = dropped \cup {out[i] : i \in drop}
          /\ reported' = reported \cup {p.number : p \in ToSet(lost)}
          /\ stepSamples' = smp
          /\ retransCount' = [p \in Payloads |->
                                retransCount[p] + Cardinality({i \in DOMAIN lost :
                                                                 lost[i].payload = p})]

Init ==
    /\ q = NewQueue(0)
    /\ client_rtt \in IF Chaos THEN RttValues ELSE {TrueRtt}
    /\ now = 0
    /\ wire = <<>>
    /\ sent = 0
    /\ clientPkts = 0
    /\ dropped = {}
    /\ reported = {}
    /\ stepSamples = <<>>
    /\ retransCount = [p \in Payloads |-> 0]

\* A server datagram: Conn::process_udp_packet, server branch (add).
ServerPacket ==
    /\ sent < MaxServerPkts
    /\ LET r == Add(q, now, TRUE, sent + 1)
       IN  EndOfIteration(r.q, <<>>, <<r.q.processed>>, wire)
    /\ sent' = sent + 1
    /\ UNCHANGED <<now, clientPkts>>

\* Ideal: the reply due now reaches PEMI; Conn::process_udp_packet, client
\* branch (check_reply, then update_client_rtt for each sample).
ClientReply ==
    /\ ~Chaos
    /\ wire # <<>> /\ Head(wire).due = now
    /\ LET r == CheckReply(q, now, client_rtt)
       IN  EndOfIteration(r.q, r.samples, <<>>, Tail(wire))
    /\ UNCHANGED <<now, sent, clientPkts>>

\* Chaos: any client datagram, at any tick.
ClientPacket ==
    /\ Chaos
    /\ clientPkts < MaxClientPkts
    /\ LET r == CheckReply(q, now, client_rtt)
       IN  EndOfIteration(r.q, r.samples, <<>>, wire)
    /\ clientPkts' = clientPkts + 1
    /\ UNCHANGED <<now, sent>>

\* Conn::timeout is Some(0): client_rtt is measured and the head flowlet's
\* deadline has come.
TimerDue ==
    IF q.flowlets = <<>> \/ client_rtt = 0 THEN FALSE ELSE Deadline(q, client_rtt) <= now

\* The loop saw timeout() = 0: process_timeout -> Conn::on_timeout.
Timer ==
    /\ TimerDue
    /\ LET r == OnTimeout(q, now, client_rtt, <<>>)
       IN  EndOfIteration(r.q, r.samples, <<>>, wire)
    /\ UNCHANGED <<now, sent, clientPkts>>

\* Chaos: an RTT calibration whose error exceeds the allowance resets the
\* queue (Conn::rtt_calibration, the queue and client_rtt part).
Calibration ==
    /\ Chaos
    /\ \E s \in RttValues :
         /\ Abs(s - client_rtt) > (FlowletTimeout(q) * EndFactorNum) \div EndFactorDen
         /\ q' = ResetDueToRttDeviation(q)
         /\ client_rtt' = s
    /\ UNCHANGED <<now, wire, sent, clientPkts, dropped, reported, retransCount>>
    /\ stepSamples' = <<>>

\* Time passes only when no timer is due and no reply is due now.
Tick ==
    /\ now < MaxTime
    /\ ~TimerDue
    /\ IF wire = <<>> THEN TRUE ELSE Head(wire).due > now
    /\ now' = now + 1
    /\ stepSamples' = <<>>
    /\ UNCHANGED <<q, client_rtt, wire, sent, clientPkts, dropped, reported, retransCount>>

\* The last tick of the bounded behaviour.
Done == now = MaxTime /\ UNCHANGED vars

Next == ServerPacket \/ ClientReply \/ ClientPacket \/ Timer \/ Calibration \/ Tick \/ Done

Spec == Init /\ [][Next]_vars

----------------------------------------------------------------------------
(* Properties.                                                             *)

Packet == [number : Nat, timestamp : Nat, raw : BOOLEAN, payload : Payloads]
Flowlet == [pkt_nums : Seq(Nat), reply_pkt_times : Seq(Nat),
            begin_time : Nat, end_time : Nat, complete : BOOLEAN]

TypeOK ==
    /\ q.packets \in Seq(Packet) /\ q.detected_loss = <<>>
    /\ q.flowlets \in Seq(Flowlet)
    /\ q.processed \in Nat /\ q.reply_nums \in Nat
    /\ q.smoothed_interval \in Nat \ {0} /\ q.eliciting_threshold \in {1, 2}
    /\ client_rtt \in Nat /\ now \in 0..MaxTime
    /\ wire \in Seq([due : Nat, num : Nat])
    /\ dropped \subseteq Nat /\ reported \subseteq Nat /\ stepSamples \in Seq(Nat)
    /\ retransCount \in [Payloads -> Nat]

(* The queue arena the code relies on (remove_a_complete_flowlet's        *)
(* assert_eq, get_packet's offset arithmetic, reset_due_to_rtt_deviation's *)
(* pop): the flowlets, in order, partition the queued packets, whose      *)
(* numbers are consecutive; every flowlet is non-empty, no queued flowlet  *)
(* is marked complete between iterations, and a flowlet's begin and end   *)
(* are the timestamps of its first and last packet.                        *)
QueueConsistent ==
    LET nums == [i \in 1..Len(q.packets) |-> q.packets[i].number]
        fl   == q.flowlets
    IN  /\ FlattenSeq([k \in 1..Len(fl) |-> fl[k].pkt_nums]) = nums
        /\ \A i \in 1..Len(nums) - 1 : nums[i + 1] = nums[i] + 1
        /\ nums # <<>> => nums[Len(nums)] = q.processed
        /\ \A k \in 1..Len(fl) :
             /\ fl[k].pkt_nums # <<>> /\ ~fl[k].complete
             /\ fl[k].begin_time = GetPacket(q, fl[k].pkt_nums[1]).timestamp
             /\ fl[k].end_time = GetPacket(q, Last(fl[k].pkt_nums)).timestamp

(* A payload the server sent is retransmitted by PEMI at most once,        *)
(* whatever the client's datagrams and the calibrations do: a lost         *)
(* Retrans packet is never pushed to detected_loss again.                  *)
AtMostOneRetransmission == \A p \in Payloads : retransCount[p] <= 1

(* Ideal client: every packet PEMI reports lost (and so retransmits) was   *)
(* really dropped on the PEMI->client link.  The used_rtt choice of        *)
(* match_sent_part_reply is meant to keep the DP matching right when the  *)
(* tail of a flowlet is lost.                                              *)
NoSpuriousLoss == reported \subseteq dropped

\* Queue numbers of the packets of a queue.
QueuedNums(qq) == {qq.packets[i].number : i \in 1..Len(qq.packets)}

(* Ideal client: whenever an iteration completes flowlets (check_reply's  *)
(* search or the timer), a completed flowlet of at most FLOWLET_MAX_PKTS   *)
(* packets none of which was dropped reports none of them lost, and when  *)
(* every flowlet it completes is such a flowlet, every RTT sample it hands *)
(* to update_client_rtt is the true round-trip time.  Reply windows, the   *)
(* too-early / too-late filters, the smoothed interval and the timer       *)
(* deadline must agree for this.  Flowlets longer than FLOWLET_MAX_PKTS,    *)
(* which check_reply completes on their first reply, do report delivered   *)
(* packets lost (the spurious_loss finding); the run lets them occur and   *)
(* checks that they leave the other flowlets' verdicts exact.              *)
CleanFlowletsExact ==
    [][LET gone  == {k \in 1..Len(q.flowlets) : q.flowlets[k].pkt_nums[1] \notin QueuedNums(q')}
           Clean(k) == /\ ToSet(q.flowlets[k].pkt_nums) \cap dropped = {}
                       /\ Len(q.flowlets[k].pkt_nums) <= FlowletMaxPkts
       IN  /\ \A k \in gone : Clean(k) => ToSet(q.flowlets[k].pkt_nums) \cap reported' = {}
           /\ (\A k \in gone : Clean(k)) => ToSet(stepSamples') \subseteq {TrueRtt}
      ]_vars

=============================================================================
