----------------------------- MODULE RtcService -----------------------------
(***************************************************************************)
(* What the RTC media server and client promise each other: a client asks *)
(* for `want` frames; once the server has taken the request it produces   *)
(* frames, never more than were asked for; they are delivered in the      *)
(* order produced; the client succeeds exactly when it has all of them,   *)
(* and may instead fail at any time before.                               *)
(***************************************************************************)
EXTENDS Naturals

CONSTANTS Clients, RequestFrames

VARIABLES
    phase,  \* [c -> "Waiting" | "Streaming" | "Ok" | "Failed"]
    want,   \* frames requested
    sent,   \* frames produced
    got     \* frames delivered

vars == <<phase, want, sent, got>>

Init ==
    /\ phase = [c \in Clients |-> "Waiting"]
    /\ want \in [Clients -> RequestFrames]
    /\ sent = [c \in Clients |-> 0]
    /\ got = [c \in Clients |-> 0]

\* The server takes the request.
Admit(c) ==
    /\ phase[c] = "Waiting"
    /\ phase' = [phase EXCEPT ![c] = "Streaming"]
    /\ UNCHANGED <<want, sent, got>>

\* One more frame, never past the request.
Produce(c) ==
    /\ phase[c] = "Streaming"
    /\ sent[c] < want[c]
    /\ sent' = [sent EXCEPT ![c] = @ + 1]
    /\ UNCHANGED <<phase, want, got>>

\* The next produced frame reaches the client; the last one completes it.
Deliver(c) ==
    /\ phase[c] = "Streaming"
    /\ got[c] < sent[c]
    /\ got' = [got EXCEPT ![c] = @ + 1]
    /\ phase' = [phase EXCEPT ![c] = IF got[c] + 1 = want[c] THEN "Ok" ELSE @]
    /\ UNCHANGED <<want, sent>>

Fail(c) ==
    /\ phase[c] \in {"Waiting", "Streaming"}
    /\ phase' = [phase EXCEPT ![c] = "Failed"]
    /\ UNCHANGED <<want, sent, got>>

Next == \E c \in Clients : Admit(c) \/ Produce(c) \/ Deliver(c) \/ Fail(c)

Spec == Init /\ [][Next]_vars

====
