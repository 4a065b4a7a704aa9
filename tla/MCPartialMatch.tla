--------------------------- MODULE MCPartialMatch ---------------------------
(***************************************************************************)
(* Checks the flowlet matching algorithms of PartialMatch against          *)
(* reference definitions over every bounded input: sent times of a         *)
(* flowlet (n packets), the reply times that landed in it (1 <= m < n,     *)
(* the "partly replied" case of complete_one_flowlet), the RTT used and    *)
(* the eliciting threshold.                                                *)
(***************************************************************************)
EXTENDS PartialMatch, FiniteSetsExt

CONSTANTS MaxSent,     \* longest flowlet enumerated
          MaxTick,     \* times are drawn from 0..MaxTick
          RttValues    \* used_rtt values enumerated

VARIABLES sent, reply, rtt, threshold

vars == <<sent, reply, rtt, threshold>>

\* Nondecreasing sequences of length k over 0..MaxTick.
Sorted(k) == {s \in [1..k -> 0..MaxTick] : \A i \in 1..k - 1 : s[i] <= s[i + 1]}

Init ==
    /\ \E n \in 2..MaxSent :
         /\ sent \in Sorted(n)
         /\ \E m \in 1..n - 1 : reply \in {r \in Sorted(m) : r[1] >= sent[1]}
    /\ rtt \in RttValues
    /\ threshold \in {1, 2}

\* Inputs are fixed: each state is one test case.
Next == UNCHANGED vars

Spec == Init /\ [][Next]_vars

----------------------------------------------------------------------------
(* Reference definitions.                                                  *)

\* Order-preserving assignments of every reply j to a distinct sent f[j].
Matchings == {f \in [1..Len(reply) -> 1..Len(sent)] :
                \A j \in 1..Len(reply) - 1 : f[j] < f[j + 1]}

MatchCost(f) == MapThenSumSet(LAMBDA j : Abs((reply[j] - sent[f[j]]) - rtt), DOMAIN f)

\* Packet k and i are joined by gaps all below CloseThreshold.
Joined(k, i) ==
    \A x \in (IF k < i THEN k..i - 1 ELSE i..k - 1) : sent[x + 1] - sent[x] < CloseThreshold

\* The packets the code means to consider unreplied after a matching.
IntendedLoss(mapping) ==
    LET n == Len(sent)
        replied1 == {k \in 1..n : \E i \in 1..n : mapping[i] # NoMatch /\ Joined(k, i)}
        \* a maximal run l..r of unreplied packets that ends before the last packet
        shortInner == {k \in 1..n : \E l, r \in 1..n :
                          /\ l <= k /\ k <= r /\ r < n
                          /\ \A x \in l..r : x \notin replied1
                          /\ (l = 1 \/ l - 1 \in replied1) /\ r + 1 \in replied1
                          /\ r - l + 1 < threshold}
    IN  (1..n) \ (replied1 \cup (IF threshold >= 2 THEN shortInner ELSE {}))

----------------------------------------------------------------------------
(* Properties.                                                             *)

(* match_sent_reply_dp assigns every reply to exactly one sent packet,     *)
(* in order, and no order-preserving assignment has a smaller total        *)
(* |reply - sent - used_rtt| error: the DP recurrence, the "match unless   *)
(* skipping is strictly cheaper" choice and the backtracking from (n, m)  *)
(* together yield an optimal matching.                                     *)
DpOptimal ==
    LET mapping == MatchSentReplyDp(sent, reply, rtt)
        matched == {i \in 1..Len(sent) : mapping[i] # NoMatch}
        asF == [j \in 1..Len(reply) |-> CHOOSE i \in matched : mapping[i] = j]
    IN  /\ {mapping[i] : i \in matched} = 1..Len(reply)
        /\ Cardinality(matched) = Len(reply)
        /\ asF \in Matchings
        /\ \A f \in Matchings : MatchCost(asF) <= MatchCost(f)

(* extract_part_loss reports lost exactly the packets that are neither     *)
(* matched nor joined to a matched packet by sub-CloseThreshold gaps and,  *)
(* with eliciting threshold 2, not an isolated gap before the tail: the    *)
(* two walks that stop at already-assigned packets and the two-pointer    *)
(* scan compute this set.                                                  *)
LossAsIntended ==
    LET mapping == MatchSentReplyDp(sent, reply, rtt)
    IN  ExtractPartLoss(sent, mapping, threshold) = IntendedLoss(mapping)

=============================================================================
