---------------------------- MODULE RttDetector -----------------------------
(***************************************************************************)
(* PEMI's ICMP echo RTT detector (src/pemi/src/rtt_det.rs): per destination *)
(* IP an IpRequests of a u16 sequence counter (starting at 1) and a map of  *)
(* pending requests seq -> send time; send_request stamps the echo request *)
(* with the counter, records it and increments the counter; recv_response *)
(* takes the reply's sequence number, removes the pending request and      *)
(* returns now minus its send time.  The reply of each request travels in  *)
(* a network that reorders, and may lose or duplicate it (Faults).         *)
(*                                                                         *)
(* The counter is SeqBits wide (16 in the code).  Whether `seq += 1`       *)
(* panics or wraps at the top depends on the build (overflow checks in a   *)
(* debug build): Build is "debug", "release", or both.                     *)
(***************************************************************************)
EXTENDS Integers, FiniteSets, Functions, TLC

CONSTANTS
    Ips,          \* destination IPs
    SeqBits,      \* width of IpRequests.seq
    Builds,       \* subset of {"debug", "release"}
    MaxRequests,  \* bound on send_request calls
    MaxTime,
    Faults        \* subset of {"Loss", "Duplicate"}

ASSUME Builds \subseteq {"debug", "release"} /\ Builds # {}

VARIABLES
    seq,        \* IpRequests.seq per IP, NoIpRequests before the first request
    requests,   \* IpRequests.requests per IP: a function seq -> send time
    net,        \* echo replies in flight: [ip, seq, sent]
    sample,     \* the RTT recv_response last returned, or NoSample
    now,
    lastSend,   \* time of the last send_request (one per processing step)
    sends,      \* send_request calls so far
    status,     \* "Running" or "Panicked"
    build       \* the build PEMI runs as

vars == <<seq, requests, net, sample, now, lastSend, sends, status, build>>

NoIpRequests == -1
NoSample == -1
Overflow == -2   \* a checked `+= 1` at the top: "attempt to add with overflow"
SeqMod == 2 ^ SeqBits

\* u16 `+= 1`: the next value, or Overflow when the build checks.
Incr(s, b) ==
    IF s + 1 < SeqMod THEN s + 1
    ELSE IF b = "release" THEN 0 ELSE Overflow

\* Instant::duration_since saturates at zero.
Elapsed(t, since) == IF t >= since THEN t - since ELSE 0

Init ==
    /\ seq = [ip \in Ips |-> NoIpRequests]
    /\ requests = [ip \in Ips |-> <<>>]
    /\ net = {}
    /\ sample = NoSample
    /\ now = 0
    /\ lastSend = -1
    /\ sends = 0
    /\ status = "Running"
    /\ build \in Builds

(***************************************************************************)
(* RttDetector::send_request(dest), called by process_packet on a new      *)
(* flowlet: create the IpRequests if missing, stamp the request with its   *)
(* seq, insert (seq -> now), overwriting an older entry, and increment.    *)
(* A checked overflow panics before send_to.                               *)
(***************************************************************************)
\* Mutant: the counter is incremented before the entry is recorded.
SendRequestIncrFirst(ip) ==
    LET s    == IF seq[ip] = NoIpRequests THEN 1 ELSE seq[ip]
        next == Incr(s, build)
    IN  /\ status = "Running" /\ sends < MaxRequests /\ lastSend < now /\ now < MaxTime
        /\ sends' = sends + 1 /\ lastSend' = now
        /\ IF next = Overflow
           THEN /\ status' = "Panicked" /\ UNCHANGED <<seq, requests, net>>
           ELSE /\ seq' = [seq EXCEPT ![ip] = next]
                /\ requests' = [requests EXCEPT ![ip] = (next :> now) @@ @]
                /\ net' = net \cup {[ip |-> ip, seq |-> s, sent |-> now]}
                /\ UNCHANGED status
        /\ UNCHANGED <<sample, now, build>>

SendRequest(ip) ==
    LET s    == IF seq[ip] = NoIpRequests THEN 1 ELSE seq[ip]
        next == Incr(s, build)
    IN  /\ status = "Running" /\ sends < MaxRequests /\ lastSend < now /\ now < MaxTime
        /\ sends' = sends + 1 /\ lastSend' = now
        /\ requests' = [requests EXCEPT ![ip] = (s :> now) @@ @]
        /\ IF next = Overflow
           THEN /\ status' = "Panicked" /\ UNCHANGED <<seq, net>>
           ELSE /\ seq' = [seq EXCEPT ![ip] = next]
                /\ net' = net \cup {[ip |-> ip, seq |-> s, sent |-> now]}
                /\ UNCHANGED status
        /\ UNCHANGED <<sample, now, build>>

(***************************************************************************)
(* The ICMP socket is readable and recv_response takes reply m: the reply  *)
(* of a pending seq gives the sample; a seq with no pending request        *)
(* panics (expect("No response for seq")).  A duplicated reply stays in    *)
(* the network.  The reply comes from an IP that was pinged, so the       *)
(* "No requests found for addr" panic is not reached.                     *)
(***************************************************************************)
\* Mutant: the pending request is read, not removed.
RecvResponseKeep(m, dup) ==
    /\ status = "Running" /\ now > m.sent
    /\ IF m.seq \in DOMAIN requests[m.ip]
       THEN /\ sample' = Elapsed(now, requests[m.ip][m.seq])
            /\ UNCHANGED <<status, requests>>
       ELSE /\ status' = "Panicked"
            /\ UNCHANGED <<sample, requests>>
    /\ net' = IF dup THEN net ELSE net \ {m}
    /\ UNCHANGED <<seq, now, lastSend, sends, build>>

RecvResponse(m, dup) ==
    /\ status = "Running" /\ now > m.sent
    /\ IF m.seq \in DOMAIN requests[m.ip]
       THEN /\ sample' = Elapsed(now, requests[m.ip][m.seq])
            /\ requests' = [requests EXCEPT ![m.ip] = Restrict(@, DOMAIN @ \ {m.seq})]
            /\ UNCHANGED status
       ELSE /\ status' = "Panicked"
            /\ UNCHANGED <<sample, requests>>
    /\ net' = IF dup THEN net ELSE net \ {m}
    /\ UNCHANGED <<seq, now, lastSend, sends, build>>

Lose(m) ==
    /\ "Loss" \in Faults
    /\ net' = net \ {m}
    /\ UNCHANGED <<seq, requests, sample, now, lastSend, sends, status, build>>

Tick ==
    /\ now < MaxTime /\ now' = now + 1
    /\ UNCHANGED <<seq, requests, net, sample, lastSend, sends, status, build>>

Done == now = MaxTime /\ UNCHANGED vars

Next ==
    \/ \E ip \in Ips : SendRequest(ip)
    \/ \E m \in net, dup \in IF "Duplicate" \in Faults THEN BOOLEAN ELSE {FALSE} :
          RecvResponse(m, dup)
    \/ \E m \in net : Lose(m)
    \/ Tick \/ Done

Spec == Init /\ [][Next]_vars

(***************************************************************************)
(* The event loop's tokio::select! picks at random among ready branches,   *)
(* and a queued reply keeps the ICMP socket readable, so a deliverable     *)
(* reply is eventually received; time passes.                              *)
(***************************************************************************)
Receiving == \E m \in net : RecvResponse(m, FALSE)

FairSpec == Spec /\ WF_vars(Receiving) /\ WF_vars(Tick)

----------------------------------------------------------------------------
(***************************************************************************)
(* Refinement mapping to EchoProbe: the pending requests of every IP are   *)
(* the unanswered probes, each reply in flight answers the probe of its    *)
(* send time.                                                              *)
(***************************************************************************)
Probes ==
    UNION {{[ip |-> ip, t |-> requests[ip][s]] : s \in DOMAIN requests[ip]} : ip \in Ips}

Replies == {[ip |-> m.ip, t |-> m.sent] : m \in net}

Abstract == INSTANCE EchoProbe WITH probes <- Probes, replies <- Replies

(* The detector implements EchoProbe: a sample is always now minus the     *)
(* send time of the request the arriving reply answers, and that request,  *)
(* and only it, stops being pending.  The u16 counters per IP, the         *)
(* overwriting insert and the remove on recv_response must keep requests   *)
(* and replies paired however replies are reordered or lost.               *)
Refinement == Abstract!Spec

(* Every echo reply that is not lost is eventually received and answered:  *)
(* recv_response never panics on the reply of a request send_request       *)
(* recorded, so the detector keeps serving the loop.  Requests are         *)
(* bounded, so replies in flight lead to none in flight exactly when each  *)
(* of them is eventually taken.                                            *)
EveryReplyAnswered == net # {} ~> net = {}

(* Spec section 7 keeps PEMI running on what the network does to ICMP; the *)
(* detector ends it on a reply with no pending request, and a debug build  *)
(* on the u16 counter's overflow.                                          *)
DetectorRunning == status = "Running"

=============================================================================
