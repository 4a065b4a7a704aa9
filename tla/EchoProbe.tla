----------------------------- MODULE EchoProbe ------------------------------
(***************************************************************************)
(* What PEMI's RTT detector promises (spec.md section 3, "ICMP echo        *)
(* requests measure the end-to-end RTT to a receiver"): a probe sent to a  *)
(* destination at time t is answered, if its reply is not lost, by a       *)
(* sample of now - t taken when that reply arrives, and a probe is         *)
(* answered at most once.  Probes and replies carry no numbers here.       *)
(***************************************************************************)
EXTENDS Integers

CONSTANTS Ips, MaxTime

VARIABLES
    probes,   \* unanswered probes: [ip, t]
    replies,  \* replies in flight: [ip, t] of the probe they answer
    sample,   \* the last RTT sample, or NoSample
    now

NoSample == -1

Init ==
    /\ probes = {} /\ replies = {} /\ sample = NoSample /\ now = 0

Probe(ip) ==
    /\ probes' = probes \cup {[ip |-> ip, t |-> now]}
    /\ replies' = replies \cup {[ip |-> ip, t |-> now]}
    /\ UNCHANGED <<sample, now>>

\* A reply arrives and answers its own probe.
Answer(r) ==
    /\ r \in probes
    /\ sample' = now - r.t
    /\ probes' = probes \ {r}
    /\ replies' = replies \ {r}
    /\ UNCHANGED now

Lose(r) ==
    /\ replies' = replies \ {r}
    /\ UNCHANGED <<probes, sample, now>>

Tick ==
    /\ now < MaxTime /\ now' = now + 1
    /\ UNCHANGED <<probes, replies, sample>>

Next ==
    \/ \E ip \in Ips : Probe(ip)
    \/ \E r \in replies : Answer(r) \/ Lose(r)
    \/ Tick

Spec == Init /\ [][Next]_<<probes, replies, sample, now>>

=============================================================================
