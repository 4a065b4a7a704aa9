---------------------------- MODULE RetransLimit ----------------------------
(***************************************************************************)
(* PEMI's retransmission rate limit (src/pemi/src/lib.rs): Stats counts    *)
(* the datagrams process_packet handles (pkts) and the retransmitted       *)
(* packets (retrans_pkts); PEMI::process_retrans_task sends the packets of *)
(* a task one by one, skipping each one while match_retrans_limit()        *)
(* (retrans_pkts / pkts > retrans_rate_limit = 0.1) and pkts() > 100.      *)
(*                                                                         *)
(* Every iteration of main's loop runs one handler and then drains         *)
(* retrans_tasks: process_packet (pkts + 1) or process_timeout (no count), *)
(* and each may leave tasks of any number of packets (the queues' lost     *)
(* packets; the Conn and ToClientQueue modules model which).  The         *)
(* counters are the code's, with its constants: the f64 test              *)
(* retrans / pkts > 0.1 is 10 * retrans > pkts on these integers.          *)
(***************************************************************************)
EXTENDS Naturals

CONSTANTS
    MaxPkts,       \* bound on process_packet calls
    MaxTaskPkts,   \* packets the tasks of one handler hold
    MaxRetrans     \* bound on retransmitted packets

VARIABLES
    pkts,          \* Stats.pkts
    retrans_pkts,  \* Stats.retrans_pkts
    settled        \* the rate has been within the limit with pkts > 100

vars == <<pkts, retrans_pkts, settled>>

MinPkts == 100               \* process_retrans_task: self.pkts() > 100
RETRANS_HELP == TRUE         \* lib.rs

\* match_retrans_limit: retrans_pkts as f64 / pkts as f64 > 0.1 (NaN at 0).
MatchRetransLimit(p, r) == p > 0 /\ 10 * r > p

(***************************************************************************)
(* process_retrans_task for the n packets of the drained tasks: a packet   *)
(* is skipped while the limit matches past 100 packets, otherwise sent     *)
(* and counted by Stats::new_retrans_pkt.  Returns retrans_pkts.           *)
(***************************************************************************)
\* Mutant: the limit is tested once for the whole task, not per packet.
ProcessRetransTaskCheckOnce(p, r, n) ==
    IF MatchRetransLimit(p, r) /\ p > MinPkts THEN r ELSE r + n

RECURSIVE ProcessRetransTask(_, _, _)
ProcessRetransTask(p, r, n) ==
    IF n = 0 \/ ~RETRANS_HELP THEN r
    ELSE IF MatchRetransLimit(p, r) /\ p > MinPkts
         THEN ProcessRetransTask(p, r, n - 1)
         ELSE ProcessRetransTask(p, r + 1, n - 1)

\* The rate is within the limit once pkts > 100.
Settles(p, r) == p > MinPkts /\ ~MatchRetransLimit(p, r)

Init == pkts = 0 /\ retrans_pkts = 0 /\ settled = FALSE

\* A handler, then the drain of its tasks; the counters give what follows.
Handler(p, n) ==
    LET r == ProcessRetransTask(p, retrans_pkts, n)
    IN  /\ r <= MaxRetrans
        /\ pkts' = p
        /\ retrans_pkts' = r
        /\ settled' = (settled \/ Settles(p, retrans_pkts) \/ Settles(p, r))

\* process_packet (Stats::new_pkt) and the tasks it leaves.
ProcessPacket ==
    /\ pkts < MaxPkts
    /\ \E n \in 0..MaxTaskPkts : Handler(pkts + 1, n)

\* process_timeout and the tasks of the timed-out connections.
ProcessTimeout ==
    \E n \in 1..MaxTaskPkts : Handler(pkts, n)

Done == pkts = MaxPkts /\ UNCHANGED vars

Next == ProcessPacket \/ ProcessTimeout \/ Done

Spec == Init /\ [][Next]_vars

----------------------------------------------------------------------------
(* Spec section 8: "retrans_pkts / pkts <= 0.1 + eps once pkts > 100",     *)
(* eps one packet.  The limit is not applied up to 100 packets, so what    *)
(* was retransmitted before is still there at packet 101.                  *)
RetransRateBounded == pkts > MinPkts => 10 * (retrans_pkts - 1) <= pkts

(* Once the rate has been within 0.1 past 100 packets, it never exceeds    *)
(* 0.1 by more than one packet again, however large the tasks drained     *)
(* after a handler: process_retrans_task tests the limit before every     *)
(* packet it sends.                                                        *)
RetransRateSettles == settled => 10 * (retrans_pkts - 1) <= pkts

=============================================================================
