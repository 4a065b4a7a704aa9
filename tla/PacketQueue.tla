---------------------------- MODULE PacketQueue ----------------------------
(***************************************************************************)
(* The per-direction packet queue of a PEMI connection                     *)
(* (src/pemi/src/queue.rs, struct PacketQueue and struct Flowlet).         *)
(*                                                                         *)
(* A queue is a record value; every operation of the code is an operator   *)
(* from a queue (and its inputs) to the queue after the call, so that the  *)
(* modules that own queues (ToClientQueue, Conn) can apply them to their   *)
(* own variables.  Time is an integer number of ticks; Instant - Instant   *)
(* saturates at zero as in Rust (SatSub).                                  *)
(*                                                                         *)
(* A packet is [number, timestamp, raw, payload]: raw = TRUE is            *)
(* Packet::Raw, FALSE is Packet::Retrans.  payload names the datagram; the *)
(* code keeps no payload for a Retrans packet, so there it is a ghost that *)
(* only the environment and the properties read.  Flowlet.reply_pkt_nums   *)
(* is left out: the code only tests it for emptiness, and it always has    *)
(* the length of reply_pkt_times.  close_count is only logged.             *)
(***************************************************************************)
EXTENDS PartialMatch

CONSTANTS
    IntervalFactor,     \* flowlet_interval_factor (CLI -f, default 2.0)
    EndFactorNum,       \* flowlet_end_factor = EndFactorNum / EndFactorDen
    EndFactorDen,       \*   (CLI -e, default 0.5)
    InitInterval,       \* initial smoothed_interval (1 ms)
    FlowletMaxPkts,     \* FLOWLET_MAX_PKTS (100)
    ElicitingPeriod     \* WHEN_MEASURE_ELICITING_THRESHOLD (50)

ASSUME /\ IntervalFactor \in Nat /\ EndFactorNum \in Nat /\ EndFactorDen \in Nat \ {0}
       /\ InitInterval \in Nat \ {0} /\ FlowletMaxPkts \in Nat \ {0}
       /\ ElicitingPeriod \in Nat \ {0} /\ CloseThreshold \in Nat

CeilDiv(a, b) == (a + b - 1) \div b

\* PacketQueue::new(now): last_packet_time is Instant::now() at creation.
NewQueue(now) ==
    [packets            |-> <<>>,
     detected_loss      |-> <<>>,
     flowlets           |-> <<>>,
     processed          |-> 0,
     last_packet_time   |-> now,
     smoothed_interval  |-> InitInterval,
     eliciting_threshold |-> 1,
     reply_nums         |-> 0]

NewFlowlet(num, ts) ==
    [pkt_nums |-> <<num>>, reply_pkt_times |-> <<>>,
     begin_time |-> ts, end_time |-> ts, complete |-> FALSE]

\* flowlet_timeout: the gap that separates two flowlets.
FlowletTimeout(q) == q.smoothed_interval * IntervalFactor

\* flowlet_end_timeout(reply_rtt) = reply_rtt + flowlet_timeout x end factor.
FlowletEndTimeout(q, rtt) == rtt + (FlowletTimeout(q) * EndFactorNum) \div EndFactorDen

\* record_packet_interval: EWMA with weight 1/8.  Duration::mul_f64 works
\* in nanoseconds; at tick resolution the result is rounded up so that the
\* interval, positive in the code, stays positive.
\* Mutant: the EWMA rounded down, so the interval can reach zero.
RecordPacketIntervalFloor(q, now) ==
    [q EXCEPT !.last_packet_time  = now,
              !.smoothed_interval = (7 * @ + SatSub(now, q.last_packet_time)) \div 8]

RecordPacketInterval(q, now) ==
    [q EXCEPT !.last_packet_time  = now,
              !.smoothed_interval = CeilDiv(7 * @ + SatSub(now, q.last_packet_time), 8)]

\* measure_eliciting_threshold: reply_nums < (processed * 0.6) as u64.
MeasureElicitingThreshold(q) ==
    [q EXCEPT !.eliciting_threshold =
                 IF q.reply_nums < (q.processed * 6) \div 10 THEN 2 ELSE 1]

(***************************************************************************)
(* add(forward_ts, payload, side_rtt, _): a Raw packet (isRaw) updates the *)
(* smoothed interval; every packet takes the next number, re-measures the  *)
(* eliciting threshold every ElicitingPeriod packets, and joins the last   *)
(* flowlet when it follows the newest packet within flowlet_timeout,       *)
(* otherwise opens a new flowlet.  Returns the queue and new_flowlet.      *)
(* The panic when more than 1000 packets are queued is AddPanics.          *)
(***************************************************************************)
AddPanics(q) == Len(q.packets) > 1000

Add(q, now, isRaw, payload) ==
    LET q1  == IF isRaw THEN RecordPacketInterval(q, now) ELSE q
        num == q1.processed + 1
        q2  == [q1 EXCEPT !.processed = num]
        q3  == IF num % ElicitingPeriod = 0 THEN MeasureElicitingThreshold(q2) ELSE q2
        joins == /\ q3.packets # <<>>
                 /\ SatSub(now, q3.packets[Len(q3.packets)].timestamp) <= FlowletTimeout(q3)
        last == Len(q3.flowlets)
        fls == IF joins
               THEN [q3.flowlets EXCEPT ![last].pkt_nums = Append(@, num),
                                        ![last].end_time = now]
               ELSE Append(q3.flowlets, NewFlowlet(num, now))
        pkt == [number |-> num, timestamp |-> now, raw |-> isRaw, payload |-> payload]
    IN  [q |-> [q3 EXCEPT !.flowlets = fls, !.packets = Append(@, pkt)],
         new_flowlet |-> ~joins]

\* get_packet: packets hold consecutive numbers, so the offset is direct.
GetPacket(q, num) == q.packets[num - q.packets[1].number + 1]

(***************************************************************************)
(* remove_a_complete_flowlet: pop the head flowlet and as many packets     *)
(* from the front of the queue; a lost Raw packet goes to detected_loss,   *)
(* a lost Retrans packet is dropped (never retransmitted twice).          *)
(***************************************************************************)
\* Mutant: lost Retrans packets are queued for retransmission as well.
RemoveACompleteFlowletAll(q, lostNums) ==
    LET k       == Len(q.flowlets[1].pkt_nums)
        removed == SubSeq(q.packets, 1, k)
    IN  [q EXCEPT !.flowlets      = Tail(@),
                  !.packets       = SubSeq(@, k + 1, Len(@)),
                  !.detected_loss = @ \o SelectSeq(removed, LAMBDA p : p.number \in lostNums)]

RemoveACompleteFlowlet(q, lostNums) ==
    LET k       == Len(q.flowlets[1].pkt_nums)
        removed == SubSeq(q.packets, 1, k)
        lostRaw == SelectSeq(removed, LAMBDA p : p.number \in lostNums /\ p.raw)
    IN  [q EXCEPT !.flowlets      = Tail(@),
                  !.packets       = SubSeq(@, k + 1, Len(@)),
                  !.detected_loss = @ \o lostRaw]

(***************************************************************************)
(* complete_one_flowlet: classify the head flowlet by its reply count and  *)
(* derive the lost packet numbers and the RTT samples, then remove it.    *)
(***************************************************************************)
CompleteOneFlowlet(q, rtt) ==
    LET fl      == q.flowlets[1]
        n       == Len(fl.pkt_nums)
        m       == Len(fl.reply_pkt_times)
        times   == [i \in 1..n |-> GetPacket(q, fl.pkt_nums[i]).timestamp]
        replies == fl.reply_pkt_times
        mapping == MatchSentReplyDp(times, replies,
                                    UsedRtt(times, replies, fl.begin_time, fl.end_time, rtt))
        lostIdx == CASE n < m  -> {}
                   []   n = m  -> {}
                   []   m = 0  -> 1..n
                   []   OTHER  -> ExtractPartLoss(times, mapping, q.eliciting_threshold)
        samples == CASE n < m  -> <<>>
                   []   n = m  -> [i \in 1..n |-> SatSub(replies[i], times[i])]
                   []   m = 0  -> <<>>
                   []   OTHER  -> ExtractRttSamples(times, replies, mapping)
    IN  [q |-> RemoveACompleteFlowlet(q, {fl.pkt_nums[i] : i \in lostIdx}),
         samples |-> samples]

\* The drain loop shared by check_reply: complete head flowlets while marked.
RECURSIVE DrainComplete(_, _, _)
DrainComplete(q, rtt, acc) ==
    IF q.flowlets # <<>> /\ q.flowlets[1].complete
    THEN LET r == CompleteOneFlowlet(q, rtt) IN DrainComplete(r.q, rtt, acc \o r.samples)
    ELSE [q |-> q, samples |-> acc]

(***************************************************************************)
(* check_reply(now, pkt_num, reply_rtt): the flowlet a reply arriving now  *)
(* belongs to.  With several flowlets: the first whose window              *)
(* [begin + rtt, end + rtt] holds now, else the first with the least      *)
(* distance to its window.                                                 *)
(***************************************************************************)
MatchError(fl, now, rtt) ==
    IF now > fl.end_time + rtt THEN now - fl.end_time - rtt ELSE fl.begin_time + rtt - now

ReplyTarget(q, now, rtt) ==
    LET idx   == 1..Len(q.flowlets)
        exact == {i \in idx : q.flowlets[i].begin_time + rtt <= now
                               /\ now <= q.flowlets[i].end_time + rtt}
        best  == {i \in idx : \A k \in idx : MatchError(q.flowlets[i], now, rtt)
                                              <= MatchError(q.flowlets[k], now, rtt)}
    IN  IF exact # {} THEN Min(exact) ELSE Min(best)

TooEarly(q, now, rtt) ==
    /\ now < q.flowlets[1].begin_time + rtt - (FlowletEndTimeout(q, rtt) - rtt)
    /\ q.flowlets[1].reply_pkt_times = <<>>

TooLate(q, now, rtt) ==
    now > q.flowlets[Len(q.flowlets)].end_time + rtt + (FlowletEndTimeout(q, rtt) - rtt)

\* Returns the queue and the RTT samples of the flowlets it completed.
CheckReply(q, now, rtt) ==
    LET q0 == [q EXCEPT !.reply_nums = @ + 1]
    IN  IF q0.flowlets = <<>> \/ TooEarly(q0, now, rtt) \/ TooLate(q0, now, rtt)
        THEN [q |-> q0, samples |-> <<>>]
        ELSE IF Len(q0.flowlets) = 1
        THEN LET fl  == q0.flowlets[1]
                 fl1 == [fl EXCEPT !.reply_pkt_times = Append(@, now),
                                   !.complete = @ \/ Len(fl.pkt_nums) > FlowletMaxPkts]
             IN  DrainComplete([q0 EXCEPT !.flowlets[1] = fl1], rtt, <<>>)
        ELSE LET t == ReplyTarget(q0, now, rtt)
                 fls == [i \in 1..Len(q0.flowlets) |->
                           IF i = t
                           THEN [q0.flowlets[i] EXCEPT !.reply_pkt_times = Append(@, now)]
                           ELSE IF i < t THEN [q0.flowlets[i] EXCEPT !.complete = TRUE]
                           ELSE q0.flowlets[i]]
             IN  DrainComplete([q0 EXCEPT !.flowlets = fls], rtt, <<>>)

(***************************************************************************)
(* timeout(now, reply_rtt): Some(time left) for the head flowlet, or None  *)
(* (the empty set) without flowlets.                                       *)
(***************************************************************************)
\* Mutant: the deadline without the flowlet_end_factor allowance.
DeadlineAtRtt(q, rtt) == q.flowlets[1].end_time + rtt

Deadline(q, rtt) == q.flowlets[1].end_time + FlowletEndTimeout(q, rtt)

Timeout(q, now, rtt) == IF q.flowlets = <<>> THEN {} ELSE {SatSub(Deadline(q, rtt), now)}

(***************************************************************************)
(* on_timeout(now, reply_rtt): complete head flowlets whose deadline has   *)
(* passed.  The code tests now > deadline; the main loop calls it once     *)
(* timeout() is zero and polls again until it fires, before reading any   *)
(* datagram, so at tick resolution it fires at the deadline tick itself.  *)
(***************************************************************************)
RECURSIVE OnTimeout(_, _, _, _)
OnTimeout(q, now, rtt, acc) ==
    IF q.flowlets # <<>> /\ now >= Deadline(q, rtt)
    THEN LET r == CompleteOneFlowlet([q EXCEPT !.flowlets[1].complete = TRUE], rtt)
         IN  OnTimeout(r.q, now, rtt, acc \o r.samples)
    ELSE [q |-> q, samples |-> acc]

(***************************************************************************)
(* reset_due_to_rtt_deviation: drop head flowlets that have a reply, and   *)
(* their packets, up to the first flowlet without one.                     *)
(***************************************************************************)
\* Mutant: the flowlets are popped but their packets stay queued.
RECURSIVE ResetKeepPackets(_)
ResetKeepPackets(q) ==
    IF q.flowlets # <<>> /\ q.flowlets[1].reply_pkt_times # <<>>
    THEN ResetKeepPackets([q EXCEPT !.flowlets = Tail(@)])
    ELSE q

RECURSIVE ResetDueToRttDeviation(_)
ResetDueToRttDeviation(q) ==
    IF q.flowlets # <<>> /\ q.flowlets[1].reply_pkt_times # <<>>
    THEN LET k == Len(q.flowlets[1].pkt_nums)
         IN  ResetDueToRttDeviation([q EXCEPT !.flowlets = Tail(@),
                                              !.packets = SubSeq(@, k + 1, Len(@))])
    ELSE q

\* Task::from_queue drains detected_loss (pop_retransmit_front until empty).
DrainDetectedLoss(q) == [q EXCEPT !.detected_loss = <<>>]

\* oldest_ts: timestamp of the oldest queued packet (Conn's first RTTs).
OldestTs(q) == q.packets[1].timestamp

=============================================================================
