---------------------------- MODULE PartialMatch ----------------------------
(***************************************************************************)
(* The partial sent/reply matching of a completed flowlet                  *)
(* (src/pemi/src/queue.rs, Flowlet::match_sent_part_reply,                 *)
(* match_sent_reply_dp, extract_part_loss, extract_rtt_samples).           *)
(*                                                                         *)
(* Times are integers (ticks). Sequences are 1-based, so a reply index is  *)
(* 1..m and the code's "unmatched" value usize::MAX is NoMatch = 0.        *)
(***************************************************************************)
EXTENDS Integers, Sequences, SequencesExt, FiniteSets

CONSTANT CloseThreshold   \* CLOSE_THRESHOLD: gaps below it are "replied together"

NoMatch == 0

Abs(x) == IF x < 0 THEN -x ELSE x

\* Instant - Instant saturates at zero in the Rust standard library.
SatSub(a, b) == IF a >= b THEN a - b ELSE 0

MinOf(a, b) == IF a <= b THEN a ELSE b

(***************************************************************************)
(* match_sent_part_reply: choose used_rtt, then run the DP.  The reply     *)
(* duration is compared with 0.8 x the sent duration (5 rd < 4 sd).        *)
(***************************************************************************)
UsedRtt(sentTimes, replyTimes, flBegin, flEnd, replyRtt) ==
    LET sentDuration  == flEnd - flBegin
        replyDuration == SatSub(replyTimes[Len(replyTimes)], replyTimes[1])
    IN  IF 5 * replyDuration < 4 * sentDuration
        THEN replyRtt
        ELSE SatSub(replyTimes[Len(replyTimes)], flEnd)

(***************************************************************************)
(* match_sent_reply_dp.  Dp[i, j] is the least total error of matching the *)
(* first j replies to the first i sent packets; Step[i, j] is the choice   *)
(* the code records in prev[i][j]: "match" (sent i with reply j) or        *)
(* "skip" (sent i unmatched).  Entries with j > i are never set (infinite  *)
(* in the code), so "skip" is only compared when j <= i - 1.  The code     *)
(* prefers "match" and switches to "skip" only when strictly cheaper.      *)
(***************************************************************************)
DpTable(sent, reply, rtt) ==
    LET n == Len(sent)
        m == Len(reply)
        Cost(i, j) == Abs((reply[j] - sent[i]) - rtt)
        Dp[ij \in (0..n) \X (0..m)] ==
            LET i == ij[1]
                j == ij[2]
            IN  IF j = 0 THEN 0
                ELSE IF i = 0 \/ j > MinOf(i, m) THEN -1        \* unset (inf)
                ELSE LET matchCost == Dp[<<i - 1, j - 1>>] + Cost(i, j)
                     IN  IF j <= i - 1 /\ Dp[<<i - 1, j>>] < matchCost
                         THEN Dp[<<i - 1, j>>]
                         ELSE matchCost
    IN  Dp

\* Mutant: "skip" also compared when j = i, where dp[i-1][i] is unset.
DpStepOffByOne(sent, reply, rtt, i, j) ==
    LET Dp == DpTable(sent, reply, rtt)
        matchCost == Dp[<<i - 1, j - 1>>] + Abs((reply[j] - sent[i]) - rtt)
    IN  IF j = 0 THEN "skip"
        ELSE IF j <= i /\ Dp[<<i - 1, j>>] < matchCost THEN "skip"
        ELSE "match"

DpStep(sent, reply, rtt, i, j) ==
    LET Dp == DpTable(sent, reply, rtt)
        matchCost == Dp[<<i - 1, j - 1>>] + Abs((reply[j] - sent[i]) - rtt)
    IN  IF j = 0 THEN "skip"
        ELSE IF j <= i - 1 /\ Dp[<<i - 1, j>>] < matchCost THEN "skip"
        ELSE "match"

\* The backtracking loop from (n, m) down to i = 0.
MatchSentReplyDp(sent, reply, rtt) ==
    LET RECURSIVE Back(_, _, _)
        Back(i, j, mapping) ==
            IF i = 0 THEN mapping
            ELSE IF DpStep(sent, reply, rtt, i, j) = "match"
                 THEN Back(i - 1, j - 1, [mapping EXCEPT ![i] = j])
                 ELSE Back(i - 1, j, mapping)
    IN  Back(Len(sent), Len(reply), [i \in 1..Len(sent) |-> NoMatch])

(***************************************************************************)
(* extract_part_loss.  Phase 1: every matched packet lends its reply to    *)
(* the unassigned neighbours reachable through gaps < CloseThreshold,      *)
(* walking back and then forward, in index order.  Phase 2 (eliciting     *)
(* threshold 2): a run of unassigned packets shorter than the threshold   *)
(* that does not reach the end of the flowlet is marked replied (the code *)
(* marks it with reply index 0; here any value # NoMatch).                 *)
(***************************************************************************)
\* Mutant: neighbours joined through gaps <= CLOSE_THRESHOLD.
ClosePropagationLe(times, mapping) ==
    LET n == Len(times)
        RECURSIVE WalkBack(_, _, _), WalkFwd(_, _, _)
        WalkBack(inf, j, r) ==
            IF j >= 1 /\ inf[j] = NoMatch /\ times[j + 1] - times[j] <= CloseThreshold
            THEN WalkBack([inf EXCEPT ![j] = r], j - 1, r)
            ELSE inf
        WalkFwd(inf, j, r) ==
            IF j <= n /\ inf[j] = NoMatch /\ times[j] - times[j - 1] <= CloseThreshold
            THEN WalkFwd([inf EXCEPT ![j] = r], j + 1, r)
            ELSE inf
        Visit(inf, i) ==
            IF mapping[i] = NoMatch THEN inf
            ELSE WalkFwd(WalkBack([inf EXCEPT ![i] = mapping[i]], i - 1, mapping[i]),
                         i + 1, mapping[i])
    IN  FoldLeft(Visit, [i \in 1..n |-> NoMatch], [k \in 1..n |-> k])

ClosePropagation(times, mapping) ==
    LET n == Len(times)
        RECURSIVE WalkBack(_, _, _), WalkFwd(_, _, _)
        WalkBack(inf, j, r) ==
            IF j >= 1 /\ inf[j] = NoMatch /\ times[j + 1] - times[j] < CloseThreshold
            THEN WalkBack([inf EXCEPT ![j] = r], j - 1, r)
            ELSE inf
        WalkFwd(inf, j, r) ==
            IF j <= n /\ inf[j] = NoMatch /\ times[j] - times[j - 1] < CloseThreshold
            THEN WalkFwd([inf EXCEPT ![j] = r], j + 1, r)
            ELSE inf
        Visit(inf, i) ==
            IF mapping[i] = NoMatch THEN inf
            ELSE WalkFwd(WalkBack([inf EXCEPT ![i] = mapping[i]], i - 1, mapping[i]),
                         i + 1, mapping[i])
    IN  FoldLeft(Visit, [i \in 1..n |-> NoMatch], [k \in 1..n |-> k])

ElicitingFill(inf, threshold) ==
    LET n == Len(inf)
        RECURSIVE RunEnd(_, _), Scan(_, _)
        RunEnd(f, r) == IF r <= n /\ f[r] = NoMatch THEN RunEnd(f, r + 1) ELSE r
        Scan(f, left) ==
            IF left > n THEN f
            ELSE IF f[left] # NoMatch THEN Scan(f, left + 1)
            ELSE LET right == RunEnd(f, left)
                 IN  IF right = n + 1 THEN f                    \* tail run: break
                     ELSE IF right - left < threshold
                          THEN Scan([k \in 1..n |-> IF k >= left /\ k < right
                                                    THEN 1 ELSE f[k]], right)
                          ELSE Scan(f, right)
    IN  IF threshold >= 2 THEN Scan(inf, 1) ELSE inf

\* The indices (into the flowlet) of the packets reported lost.
ExtractPartLoss(times, mapping, threshold) ==
    LET inf == ElicitingFill(ClosePropagation(times, mapping), threshold)
    IN  {i \in 1..Len(times) : inf[i] = NoMatch}

\* extract_rtt_samples: one sample reply - sent per matched packet, in order.
ExtractRttSamples(times, replyTimes, mapping) ==
    LET Add(acc, i) == IF mapping[i] = NoMatch THEN acc
                       ELSE Append(acc, SatSub(replyTimes[mapping[i]], times[i]))
    IN  FoldLeft(Add, <<>>, [k \in 1..Len(times) |-> k])

=============================================================================
