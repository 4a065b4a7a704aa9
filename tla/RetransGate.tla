----------------------------- MODULE RetransGate -----------------------------
(***************************************************************************)
(* The two gates a lost packet passes before PEMI resends it, in the order *)
(* process_packet and main run them for one connection: Copa's overspeed   *)
(* verdict (Conn::to_client_retrans_task emits a task only when not        *)
(* overspeeding; the verdict is that of the last server datagram's         *)
(* on_data_send) and the global rate limit of process_retrans_task.        *)
(* Every datagram counts in Stats.pkts; the connection starts on a PEMI    *)
(* that has already handled StartPkts datagrams of earlier connections,    *)
(* StartRetrans of them retransmissions.  The connection is to-client      *)
(* dominant (the other gate, modelled in Conn).                            *)
(***************************************************************************)
EXTENDS Integers, Sequences

CONSTANTS
    InitCwnd, MinCwnd,
    RttValues,      \* client_rtt values (EWMA results and calibrations), ticks
    MaxPkts, MaxTaskPkts, MaxRetrans,
    StartPkts, StartRetrans,
    MaxTime

VARIABLES
    rtt_min_filter, rtt_standing_filter, cwnd, cwnd_change, v, direction,
    direction_change, cwnd_last_direction_change, slow_start, packet_record,
    overspeed, status, now,
    pkts, retrans_pkts, settled,
    client_rtt,     \* Conn.client_rtt, 0 until measured
    busy            \* this tick's loop iteration has run

C == INSTANCE Copa
R == INSTANCE RetransLimit

copaVars == <<rtt_min_filter, rtt_standing_filter, cwnd, cwnd_change, v,
              direction, direction_change, cwnd_last_direction_change,
              slow_start, packet_record, overspeed, status>>
statVars == <<pkts, retrans_pkts, settled>>
vars == <<copaVars, now, statVars, client_rtt, busy>>

Init ==
    /\ now = 0
    /\ C!Init
    /\ pkts \in StartPkts /\ retrans_pkts \in StartRetrans
    /\ settled = FALSE
    /\ client_rtt = 0
    /\ busy = FALSE

\* A server datagram: on_data_send once client_rtt is known; the queue's add
\* detects no loss, so the task it leaves is empty.
ServerDatagram ==
    /\ status = "Running" /\ ~busy /\ busy' = TRUE /\ pkts < MaxPkts
    /\ IF client_rtt # 0 THEN C!OnDataSend(client_rtt) ELSE UNCHANGED copaVars
    /\ R!Handler(pkts + 1, 0)
    /\ UNCHANGED <<now, client_rtt>>

(***************************************************************************)
(* What a client datagram and a timeout do to the connection, then the     *)
(* drain: check_reply (or the queue's on_timeout) may give a client RTT    *)
(* sample, which update_client_rtt folds into client_rtt before            *)
(* on_ack_send; it may complete flowlets with lost packets, which          *)
(* to_client_retrans_task puts into a task only when not overspeeding.     *)
(* client_rtt's EWMA is abstracted to any value of RttValues.              *)
(***************************************************************************)
ConnStep(np) ==
    /\ \E lost \in 0..MaxTaskPkts :
          R!Handler(np, IF overspeed THEN 0 ELSE lost)
    /\ \/ UNCHANGED <<copaVars, client_rtt>>
       \/ \E rtt \in RttValues : client_rtt' = rtt /\ C!OnAckSend(rtt)

\* process_packet for a datagram of the client.
ClientDatagram ==
    /\ status = "Running" /\ ~busy /\ busy' = TRUE /\ pkts < MaxPkts
    /\ ConnStep(pkts + 1)
    /\ UNCHANGED now

\* process_timeout: every connection's task, after on_timeout when its timer
\* is due; no datagram is counted.
Timeout ==
    /\ status = "Running" /\ ~busy /\ busy' = TRUE
    /\ ConnStep(pkts)
    /\ UNCHANGED now

(***************************************************************************)
(* Conn::rtt_calibration with a sample whose error exceeds the allowance   *)
(* (a smaller error changes nothing): client_rtt takes the sample, and the *)
(* filters are reset when it was below it (client_rtt 0 included).        *)
(***************************************************************************)
Calibration ==
    /\ status = "Running" /\ ~busy /\ busy' = TRUE
    /\ \E s \in RttValues :
          /\ s # client_rtt /\ client_rtt' = s
          /\ IF client_rtt < s THEN C!ResetRttFilters ELSE UNCHANGED copaVars
    /\ UNCHANGED <<now, statVars>>

Tick ==
    /\ now < MaxTime /\ now' = now + 1 /\ busy' = FALSE
    /\ UNCHANGED <<copaVars, statVars, client_rtt>>

Done == now = MaxTime /\ UNCHANGED vars

Next == ServerDatagram \/ ClientDatagram \/ Timeout \/ Calibration \/ Tick \/ Done

Spec == Init /\ [][Next]_vars

----------------------------------------------------------------------------
(* Copa's Duration subtraction dq = rtt_standing - rtt_min never panics:   *)
(* the 10 s filter sees every sample the standing filter sees (and the     *)
(* on_data_send ones), over a window at least as long, and                 *)
(* reset_rtt_filters clears both together.                                 *)
CopaRunning == status = "Running"

(* Copa reports overspeed only when more than cwnd packets went out within *)
(* the last client_rtt: rtt_min never exceeds the client_rtt on_data_send  *)
(* just gave the filter, so cwnd / rtt_min is at least cwnd / client_rtt.  *)
(* This is what keeps PEMI from delaying ACKs of a server within its       *)
(* window.                                                                 *)
OverspeedNeedsWindow ==
    [][packet_record' # packet_record /\ overspeed'
       => Len(packet_record') * cwnd'.den > cwnd'.num]_vars

(* Once the rate has been within 0.1 past 100 packets, it never exceeds    *)
(* 0.1 by more than one packet, whatever Copa lets through: the limit is   *)
(* tested before every packet of every task.                               *)
RetransRateSettles == R!RetransRateSettles

=============================================================================
