-------------------------------- MODULE Copa --------------------------------
(***************************************************************************)
(* PEMI's Copa controller (src/pemi/src/cc.rs), one per connection:        *)
(* on_data_send for every server datagram (once client_rtt is known)       *)
(* returns the overspeed verdict; on_ack_send for every new client_rtt     *)
(* moves cwnd, the velocity v and the direction; reset_rtt_filters after a *)
(* large upward RTT calibration.                                           *)
(*                                                                         *)
(* One tick is 10 ms: MIN_STANDING_WINDOW is one tick, MIN_RTT_WINDOW is   *)
(* 1000.  The f64 quantities are exact rationals [num, den] (cwnd and     *)
(* cwnd_last_direction_change); every test the code makes is a ratio of   *)
(* durations, so it does not depend on the tick's length.  The Minmax     *)
(* filters are not in the repository (minmax.rs); they are the windowed   *)
(* minimum the spec names, kept as the samples that can still be the      *)
(* minimum.  InitCwnd and MinCwnd are the code's 10.0 (initial cwnd and    *)
(* floor), scaled so that a handful of datagrams exceeds the window.       *)
(***************************************************************************)
EXTENDS Integers, Sequences

CONSTANTS
    InitCwnd,   \* Copa::new: cwnd = 10.0
    MinCwnd     \* cwnd_update: cwnd.max(10.0)

VARIABLES
    rtt_min_filter,       \* samples [t, v] of the 10 s minimum
    rtt_standing_filter,  \* samples [t, v] of the srtt/2 minimum
    cwnd, cwnd_change,
    v, direction, direction_change, cwnd_last_direction_change,
    slow_start,
    packet_record,        \* UsedWindow.packet_record: send times, oldest first
    overspeed,            \* Conn.overspeed, the last on_data_send verdict
    status,               \* "Running", or "Panicked" on a Duration underflow
    now

copaVars == <<rtt_min_filter, rtt_standing_filter, cwnd, cwnd_change, v,
              direction, direction_change, cwnd_last_direction_change,
              slow_start, packet_record, overspeed, status>>

MIN_RTT_WINDOW == 1000       \* 10 s
MIN_STANDING_WINDOW == 1     \* 10 ms
V_MAX == 32
DeltaReciprocal == 2         \* delta_reciprocal: 1/δ, δ = 0.5
DurationMax == 2 ^ 20        \* Duration::MAX, above every RTT of the model

----------------------------------------------------------------------------
(* f64 values as rationals.                                                *)
RECURSIVE Gcd(_, _)
Gcd(a, b) == IF b = 0 THEN a ELSE Gcd(b, a % b)

Q(n, d) == LET g == Gcd(n, d) IN [num |-> n \div g, den |-> d \div g]

\* q * a / b, q + a / b, q - a / b, and q compared with a / b.
QScale(q, a, b) == Q(q.num * a, q.den * b)
QAdd(q, a, b) == Q(q.num * b + a * q.den, q.den * b)
QSub(q, a, b) == Q(q.num * b - a * q.den, q.den * b)
QGeq(q, r) == q.num * r.den >= r.num * q.den
QMaxInt(q, k) == IF q.num >= k * q.den THEN q ELSE Q(k, 1)

----------------------------------------------------------------------------
(***************************************************************************)
(* Minmax::running_min(win, now, meas): the minimum of the samples of the  *)
(* last win, the new one included.  A sample newer and smaller than        *)
(* another makes that one useless, so only a rising run is kept.  Windows  *)
(* are doubled so that srtt/2 stays whole.                                 *)
(***************************************************************************)
InWindow(s, t, win2) == 2 * (t - s.t) <= win2

RunningMin(filter, win2, t, meas) ==
    LET kept == {s \in filter : InWindow(s, t, win2) /\ s.v < meas}
                  \cup {[t |-> t, v |-> meas]}
        m    == CHOOSE x \in {s.v : s \in kept} : \A s \in kept : x <= s.v
    IN  [filter |-> kept, min |-> m]

\* standing_window = max(client_rtt / 2, MIN_STANDING_WINDOW), doubled.
StandingWindow2(rtt) ==
    IF rtt < 2 * MIN_STANDING_WINDOW THEN 2 * MIN_STANDING_WINDOW ELSE rtt

\* UsedWindow::on_data_send: push now, pop the front while older than now - win.
RECURSIVE DropOld(_, _)
DropOld(rec, oldest) ==
    IF rec # <<>> /\ Head(rec) < oldest THEN DropOld(Tail(rec), oldest) ELSE rec

Init ==
    /\ rtt_min_filter = {} /\ rtt_standing_filter = {}
    /\ cwnd = Q(InitCwnd, 1) /\ cwnd_change = now
    /\ v = 1 /\ direction = "Up" /\ direction_change = now
    /\ cwnd_last_direction_change = Q(InitCwnd, 1)
    /\ slow_start = TRUE /\ packet_record = <<>>
    /\ overspeed = FALSE /\ status = "Running"

(***************************************************************************)
(* on_data_send(now, client_rtt): the packets sent within one client_rtt   *)
(* against cwnd / rtt_min; the 10 s filter takes client_rtt as a sample.   *)
(* rate_recent > rate_target is recent / rtt > cwnd / rtt_min.             *)
(***************************************************************************)
\* Mutant: the minimum is read without giving the filter the new sample.
OnDataSendStaleMin(rtt) ==
    LET rec  == DropOld(Append(packet_record, now), now - rtt)
        live == {s \in rtt_min_filter : InWindow(s, now, 2 * MIN_RTT_WINDOW)}
        m    == IF live = {} THEN DurationMax
                ELSE CHOOSE x \in {s.v : s \in live} : \A s \in live : x <= s.v
    IN  /\ packet_record' = rec
        /\ overspeed' = (Len(rec) * m * cwnd.den > cwnd.num * rtt)
        /\ UNCHANGED <<rtt_min_filter, rtt_standing_filter, cwnd, cwnd_change, v,
                       direction, direction_change, cwnd_last_direction_change,
                       slow_start, status>>

OnDataSend(rtt) ==
    LET rec == DropOld(Append(packet_record, now), now - rtt)
        f   == RunningMin(rtt_min_filter, 2 * MIN_RTT_WINDOW, now, rtt)
    IN  /\ packet_record' = rec
        /\ rtt_min_filter' = f.filter
        /\ overspeed' = (Len(rec) * f.min * cwnd.den > cwnd.num * rtt)
        /\ UNCHANGED <<rtt_standing_filter, cwnd, cwnd_change, v, direction,
                       direction_change, cwnd_last_direction_change, slow_start,
                       status>>

(***************************************************************************)
(* cwnd_update_slow_start and cwnd_update: the new [cwnd, cwnd_change,     *)
(* slow_start] for up = (λ <= λt).                                         *)
(***************************************************************************)
CwndUpdateSlowStart(up, rtt) ==
    IF up THEN [cwnd |-> QScale(cwnd, rtt + IF now - cwnd_change < rtt
                                            THEN now - cwnd_change ELSE rtt, rtt),
                cwnd_change |-> now, slow_start |-> TRUE]
    ELSE [cwnd |-> QScale(cwnd, 1, 2), cwnd_change |-> cwnd_change, slow_start |-> FALSE]

CwndUpdate(up, rtt) ==
    LET delta == v * DeltaReciprocal * (now - cwnd_change)   \* over rtt
    IN  [cwnd |-> IF up THEN QAdd(cwnd, delta, rtt)
                  ELSE QMaxInt(QSub(cwnd, delta, rtt), MinCwnd),
         cwnd_change |-> now, slow_start |-> FALSE]

(***************************************************************************)
(* on_ack_send(client_rtt, now): both filters take the sample; dq =        *)
(* rtt_standing - rtt_min (a Duration subtraction, which panics below      *)
(* zero); λ <= λt is cwnd / rtt_standing <= 2 / dq, always true at dq = 0  *)
(* (λt is infinite); then the velocity, once per client_rtt.               *)
(***************************************************************************)
OnAckSend(rtt) ==
    LET fm  == RunningMin(rtt_min_filter, 2 * MIN_RTT_WINDOW, now, rtt)
        fs  == RunningMin(rtt_standing_filter, StandingWindow2(rtt), now, rtt)
        dq  == fs.min - fm.min
        up  == cwnd.num * dq <= DeltaReciprocal * fs.min * cwnd.den
        c   == IF slow_start THEN CwndUpdateSlowStart(up, rtt) ELSE CwndUpdate(up, rtt)
        dir == IF QGeq(c.cwnd, cwnd_last_direction_change) THEN "Up" ELSE "Down"
    IN  /\ rtt_min_filter' = fm.filter
        /\ rtt_standing_filter' = fs.filter
        /\ IF dq < 0
           THEN /\ status' = "Panicked"
                /\ UNCHANGED <<cwnd, cwnd_change, slow_start, v, direction,
                               direction_change, cwnd_last_direction_change>>
           ELSE /\ cwnd' = c.cwnd /\ cwnd_change' = c.cwnd_change
                /\ slow_start' = c.slow_start
                /\ IF now - direction_change > rtt
                   THEN /\ direction' = dir
                        /\ v' = IF dir = direction
                                THEN (IF 2 * v < V_MAX THEN 2 * v ELSE V_MAX) ELSE 1
                        /\ cwnd_last_direction_change' = c.cwnd
                        /\ direction_change' = now
                   ELSE UNCHANGED <<direction, v, cwnd_last_direction_change,
                                    direction_change>>
                /\ UNCHANGED status
        /\ UNCHANGED <<packet_record, overspeed>>

\* Mutant: only the 10 s filter is cleared.
ResetRttFiltersMinOnly ==
    /\ rtt_min_filter' = {}
    /\ UNCHANGED <<rtt_standing_filter, cwnd, cwnd_change, v, direction,
                   direction_change, cwnd_last_direction_change, slow_start,
                   packet_record, overspeed, status>>

\* reset_rtt_filters: both filters back to Minmax::new(Duration::MAX).
ResetRttFilters ==
    /\ rtt_min_filter' = {} /\ rtt_standing_filter' = {}
    /\ UNCHANGED <<cwnd, cwnd_change, v, direction, direction_change,
                   cwnd_last_direction_change, slow_start, packet_record,
                   overspeed, status>>

=============================================================================
