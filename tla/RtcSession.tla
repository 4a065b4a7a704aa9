----------------------------- MODULE RtcSession -----------------------------
(***************************************************************************)
(* The RTC media session of src/apps: quinn-rtc-server.rs serving          *)
(* quinn-rtc-client.rs processes over QUIC, with the statistics of         *)
(* rtc/src/lib.rs (the `common` module of both binaries).                  *)
(*                                                                         *)
(* A client connects, sends "GetN <N>\r\n" on a bidirectional stream and   *)
(* accepts unidirectional streams, one frame each, until it has N; then it *)
(* closes the connection and exits.  The server's accept loop refuses,     *)
(* retries or accepts each Incoming; the spawned handle_connection task    *)
(* reads the request, sends one frame per tick of FRAME_INTERVAL, and then *)
(* waits for the client's close before closing its side.                   *)
(*                                                                         *)
(* QUIC itself is abstracted to reliable streams: what is in flight per    *)
(* connection is the Initial, the handshake answer, the request bytes, the *)
(* number of open frame streams (bounded by the client's                   *)
(* max_concurrent_uni_streams, quinn's default 100, here MaxUni) and the   *)
(* client's CONNECTION_CLOSE.  The connection ends "idle" when quinn's     *)
(* idle timer fires (nothing in flight, both ends waiting on the other),   *)
(* or "outage" on a path failure (the fault "Outage").  The client's close *)
(* is lost when the process exits before quinn's driver sends it (the      *)
(* select! on closed() returns at once after a local close; the fault      *)
(* "CloseLost").                                                           *)
(***************************************************************************)
EXTENDS Integers, Sequences, FiniteSets

CONSTANTS
    Clients,        \* client processes, model values
    RequestFrames,  \* values of the client's --request-frames
    LimitOptions,   \* values of --connection-limit: {} is None, {n} is Some(n)
    MaxUni,         \* the client's max_concurrent_uni_streams
    FrameSize,      \* --frame-size, in abstract bytes
    Faults          \* subset of {"Outage", "CloseLost"}

VARIABLES
    limit, block, retry,   \* the server's options, fixed at start
    initial,    \* [c -> "none" | "fresh" | "validated"]: Initial in flight
    hs,         \* [c -> "none" | "accept" | "refuse" | "done"]
    spc,        \* [c -> server-side state of c's connection]
    reqFrames,  \* MediaClient.request_frames
    frameCount, \* MediaClient.frame_count
    bytesSent,  \* MediaClient.stats.bytes_sent (Stats)
    req,        \* request bytes in flight on the bi stream, <<>> if none
    uni,        \* frame streams opened and not yet read by the client
    closeMsg,   \* the client's CONNECTION_CLOSE in flight
    lost,       \* [c -> "no" | "idle" | "outage"]: connection timed out
    cpc,        \* [c -> client process state]
    want,       \* the client's request_frames
    recved,     \* the client's recved_frames
    bytesRecv, intervalRecv   \* ClientStats.bytes_recv, .interval_recv

srvVars == <<reqFrames, frameCount, bytesSent>>
netVars == <<initial, hs, req, uni, closeMsg, lost>>
cliVars == <<cpc, want, recved, bytesRecv, intervalRecv>>
vars == <<limit, block, retry, spc, reqFrames, frameCount, bytesSent,
         initial, hs, req, uni, closeMsg, lost,
         cpc, want, recved, bytesRecv, intervalRecv>>

MaxN == CHOOSE n \in RequestFrames : \A m \in RequestFrames : m <= n

(***************************************************************************)
(* The request codec.  Bytes are one-character strings, "CR" and "LF"      *)
(* stand for \r and \n.                                                    *)
(***************************************************************************)
DigitChar == <<"0", "1", "2", "3", "4", "5", "6", "7", "8", "9">>

RECURSIVE Decimal(_)
Decimal(n) == IF n < 10 THEN <<DigitChar[n + 1]>>
              ELSE Decimal(n \div 10) \o <<DigitChar[(n % 10) + 1]>>

\* format!("GetN {}\r\n", request_frames)
FormatRequest(n) == <<"G", "e", "t", "N", " ">> \o Decimal(n) \o <<"CR", "LF">>

IsSpace(ch) == ch \in {" ", "CR", "LF"}

RECURSIVE Trim(_)
Trim(s) == IF s # <<>> /\ IsSpace(Head(s)) THEN Trim(Tail(s))
           ELSE IF s # <<>> /\ IsSpace(s[Len(s)]) THEN Trim(SubSeq(s, 1, Len(s) - 1))
           ELSE s

DigitValue(ch) == CHOOSE d \in 0..9 : DigitChar[d + 1] = ch

RECURSIVE ParseDigits(_, _)
ParseDigits(s, acc) == IF s = <<>> THEN acc
                       ELSE ParseDigits(Tail(s), 10 * acc + DigitValue(Head(s)))

\* str::parse::<usize>: an optional '+', then one or more digits
ParseUsize(s) ==
    LET t == IF s # <<>> /\ Head(s) = "+" THEN Tail(s) ELSE s
    IN IF t # <<>> /\ \A i \in 1..Len(t) : t[i] \in {DigitChar[d] : d \in 1..10}
       THEN [ok |-> TRUE, n |-> ParseDigits(t, 0)]
       ELSE [ok |-> FALSE, n |-> 0]

Err == [ok |-> FALSE, n |-> 0]

\* process_get: "GetN <N>\r\n" gives N, anything else an error
ProcessGet(x) ==
    IF Len(x) >= 5 /\ SubSeq(x, 1, 5) = <<"G", "e", "t", "N", " ">>
    THEN IF Len(x) < 7 \/ SubSeq(x, Len(x) - 1, Len(x)) # <<"CR", "LF">>
         THEN Err
         ELSE ParseUsize(Trim(SubSeq(x, 6, Len(x) - 2)))
    ELSE Err

(***************************************************************************)
(* The server.                                                             *)
(***************************************************************************)
Live == {"Handshake", "AwaitBi", "Sending", "Opening", "AwaitClosed"}

\* endpoint.open_connections(): connections the endpoint still holds
OpenConnections == Cardinality({c \in Clients : spc[c] \in Live})

Init ==
    /\ limit \in LimitOptions
    /\ block \in {{}} \cup {{c} : c \in Clients}
    /\ retry \in BOOLEAN
    /\ initial = [c \in Clients |-> "fresh"]
    /\ hs = [c \in Clients |-> "none"]
    /\ spc = [c \in Clients |-> "None"]
    /\ reqFrames = [c \in Clients |-> 0]
    /\ frameCount = [c \in Clients |-> 0]
    /\ bytesSent = [c \in Clients |-> 0]
    /\ req = [c \in Clients |-> <<>>]
    /\ uni = [c \in Clients |-> 0]
    /\ closeMsg = [c \in Clients |-> FALSE]
    /\ lost = [c \in Clients |-> "no"]
    /\ cpc = [c \in Clients |-> "Connecting"]
    /\ want \in [Clients -> RequestFrames]
    /\ recved = [c \in Clients |-> 0]
    /\ bytesRecv = [c \in Clients |-> 0]
    /\ intervalRecv = [c \in Clients |-> 0]

\* The accept loop of run(): refuse over the limit or from the blocked
\* address, ask an unvalidated address to retry, or spawn handle_connection.
\* Only an unvalidated address is retried, so conn.retry() cannot fail.
ServerAccept(c) ==
    /\ initial[c] \in {"fresh", "validated"}
    /\ \/ /\ \/ \E n \in limit : OpenConnections >= n
             \/ c \in block
          /\ initial' = [initial EXCEPT ![c] = "none"]
          /\ hs' = [hs EXCEPT ![c] = "refuse"]
          /\ UNCHANGED spc
       \/ /\ ~(\E n \in limit : OpenConnections >= n)
          /\ c \notin block
          /\ retry /\ initial[c] = "fresh"
          \* the client's endpoint answers the Retry with a validated Initial
          /\ initial' = [initial EXCEPT ![c] = "validated"]
          /\ UNCHANGED <<hs, spc>>
       \/ /\ ~(\E n \in limit : OpenConnections >= n)
          /\ c \notin block
          /\ ~(retry /\ initial[c] = "fresh")
          /\ initial' = [initial EXCEPT ![c] = "none"]
          /\ hs' = [hs EXCEPT ![c] = "accept"]
          /\ spc' = [spc EXCEPT ![c] = "Handshake"]
    /\ UNCHANGED <<limit, block, retry, req, uni, closeMsg, lost>>
    /\ UNCHANGED srvVars /\ UNCHANGED cliVars

\* conn.await in handle_connection completes with the client's handshake.
ServerHandshake(c) ==
    /\ spc[c] = "Handshake" /\ hs[c] = "done" /\ lost[c] = "no"
    /\ spc' = [spc EXCEPT ![c] = "AwaitBi"]
    /\ UNCHANGED <<limit, block, retry>>
    /\ UNCHANGED srvVars /\ UNCHANGED netVars /\ UNCHANGED cliVars

\* accept_bi, handle_request; on a bad request `continue`, else finish the
\* response stream, request_recved and set_request_frames.
ServerReadRequest(c) ==
    /\ spc[c] = "AwaitBi" /\ req[c] # <<>> /\ lost[c] = "no"
    /\ LET r == ProcessGet(req[c])
       IN /\ spc' = [spc EXCEPT ![c] = IF r.ok THEN "Sending" ELSE "AwaitBi"]
          /\ reqFrames' = [reqFrames EXCEPT ![c] = IF r.ok THEN r.n ELSE @]
    /\ req' = [req EXCEPT ![c] = <<>>]
    /\ UNCHANGED <<limit, block, retry, frameCount, bytesSent>>
    /\ UNCHANGED <<initial, hs, uni, closeMsg, lost>> /\ UNCHANGED cliVars

\* Mutant: all frames count as sent only past request_frames.
AllFramesSentPastLast(c) == frameCount[c] > reqFrames[c]

\* MediaClient::all_frames_sent, with its assert
AllFramesSent(c) == frameCount[c] = reqFrames[c]
AllFramesAssert(c) == frameCount[c] <= reqFrames[c]

\* Mutant: the loop runs while frame_count <= request_frames; past the last
\* frame send_next_frame returns at once.
ServerLoopPastLast(c) ==
    /\ spc[c] = "Sending" /\ lost[c] = "no"
    /\ frameCount[c] < reqFrames[c]
    /\ spc' = [spc EXCEPT ![c] = "Opening"]
    /\ frameCount' = [frameCount EXCEPT ![c] = @ + 1]
    /\ UNCHANGED <<limit, block, retry, reqFrames, bytesSent>>
    /\ UNCHANGED netVars /\ UNCHANGED cliVars

\* `while !client.all_frames_sent()`: after the last frame, finish_request
\* and wait for the client's close; otherwise a tick of the ticker and
\* send_next_frame, which counts the frame before it opens its stream.
\* A failed assert panics the spawned task alone.
ServerLoop(c) ==
    /\ spc[c] = "Sending" /\ lost[c] = "no"
    /\ spc' = [spc EXCEPT ![c] = IF ~AllFramesAssert(c) THEN "Panicked"
                                 ELSE IF AllFramesSent(c) THEN "AwaitClosed"
                                 ELSE "Opening"]
    /\ frameCount' = [frameCount EXCEPT ![c] =
                        IF AllFramesAssert(c) /\ ~AllFramesSent(c) THEN @ + 1 ELSE @]
    /\ UNCHANGED <<limit, block, retry, reqFrames, bytesSent>>
    /\ UNCHANGED netVars /\ UNCHANGED cliVars

\* Mutant: the frame stream is opened without waiting for credit.
SendNextFrameNoCredit(c) ==
    /\ spc[c] = "Opening" /\ lost[c] = "no"
    /\ uni' = [uni EXCEPT ![c] = @ + 1]
    /\ bytesSent' = [bytesSent EXCEPT ![c] = @ + FrameSize]
    /\ spc' = [spc EXCEPT ![c] = "Sending"]
    /\ UNCHANGED <<limit, block, retry, reqFrames, frameCount>>
    /\ UNCHANGED <<initial, hs, req, closeMsg, lost>> /\ UNCHANGED cliVars

\* open_uni waits for stream credit; write_all, finish and stats.bytes_sent.
SendNextFrame(c) ==
    /\ spc[c] = "Opening" /\ lost[c] = "no"
    /\ uni[c] < MaxUni
    /\ uni' = [uni EXCEPT ![c] = @ + 1]
    /\ bytesSent' = [bytesSent EXCEPT ![c] = @ + FrameSize]
    /\ spc' = [spc EXCEPT ![c] = "Sending"]
    /\ UNCHANGED <<limit, block, retry, reqFrames, frameCount>>
    /\ UNCHANGED <<initial, hs, req, closeMsg, lost>> /\ UNCHANGED cliVars

\* connection.closed() returns on the client's close; then close and Ok.
ServerClosed(c) ==
    /\ spc[c] = "AwaitClosed" /\ closeMsg[c]
    /\ closeMsg' = [closeMsg EXCEPT ![c] = FALSE]
    /\ spc' = [spc EXCEPT ![c] = "Done"]
    /\ UNCHANGED <<limit, block, retry>> /\ UNCHANGED srvVars
    /\ UNCHANGED <<initial, hs, req, uni, lost>> /\ UNCHANGED cliVars

\* A timed-out connection: conn.await and accept_bi return the error
\* (handle_connection fails); a failing open_uni breaks the frame loop,
\* after which, as after the last frame, closed() returns at once.
ServerSeesLoss(c) ==
    /\ lost[c] # "no"
    /\ spc[c] \in Live
    /\ spc' = [spc EXCEPT ![c] = IF spc[c] \in {"Handshake", "AwaitBi"}
                                 THEN "Err" ELSE "Done"]
    /\ UNCHANGED <<limit, block, retry>> /\ UNCHANGED srvVars
    /\ UNCHANGED netVars /\ UNCHANGED cliVars

(***************************************************************************)
(* The client.                                                             *)
(***************************************************************************)

\* connect().await succeeds; open_bi, write_all of the request, finish.
ClientConnected(c) ==
    /\ cpc[c] = "Connecting" /\ hs[c] = "accept" /\ lost[c] = "no"
    /\ hs' = [hs EXCEPT ![c] = "done"]
    /\ req' = [req EXCEPT ![c] = FormatRequest(want[c])]
    /\ cpc' = [cpc EXCEPT ![c] = "Receiving"]
    /\ UNCHANGED <<limit, block, retry, spc>> /\ UNCHANGED srvVars
    /\ UNCHANGED <<initial, uni, closeMsg, lost, want, recved, bytesRecv, intervalRecv>>

\* connect().await fails on a refused connection: run returns Err.
ClientRefused(c) ==
    /\ cpc[c] = "Connecting" /\ hs[c] = "refuse"
    /\ cpc' = [cpc EXCEPT ![c] = "Failed"]
    /\ UNCHANGED <<limit, block, retry, spc>> /\ UNCHANGED srvVars
    /\ UNCHANGED netVars
    /\ UNCHANGED <<want, recved, bytesRecv, intervalRecv>>

\* Mutant: the print interval resets the total instead of the interval.
BytesRecvResetTotal(c, n, tick) ==
    /\ bytesRecv' = [bytesRecv EXCEPT ![c] = IF tick THEN 0 ELSE @ + n]
    /\ intervalRecv' = [intervalRecv EXCEPT ![c] = IF tick THEN 0 ELSE @ + n]

\* ClientStats::bytes_recv; `tick` is last_print_time.elapsed() >= 1 s.
BytesRecv(c, n, tick) ==
    /\ bytesRecv' = [bytesRecv EXCEPT ![c] = @ + n]
    /\ intervalRecv' = [intervalRecv EXCEPT ![c] = IF tick THEN 0 ELSE @ + n]

\* Mutant: request_frames is compared before the frame is counted.
ClientRecvFrameCheckFirst(c) ==
    /\ cpc[c] = "Receiving" /\ uni[c] > 0 /\ lost[c] = "no"
    /\ uni' = [uni EXCEPT ![c] = @ - 1]
    /\ \E tick \in BOOLEAN : BytesRecv(c, FrameSize, tick)
    /\ recved' = [recved EXCEPT ![c] = @ + 1]
    /\ IF recved[c] = want[c]
       THEN /\ cpc' = [cpc EXCEPT ![c] = "Ok"]
            /\ closeMsg' \in {[closeMsg EXCEPT ![c] = b] :
                              b \in IF "CloseLost" \in Faults THEN BOOLEAN ELSE {TRUE}}
       ELSE UNCHANGED <<cpc, closeMsg>>
    /\ UNCHANGED <<limit, block, retry, spc>> /\ UNCHANGED srvVars
    /\ UNCHANGED <<initial, hs, req, lost, want>>

\* accept_uni, read_to_end, count the frame; at request_frames close the
\* connection and exit Ok.  The close is lost if the process exits first.
ClientRecvFrame(c) ==
    /\ cpc[c] = "Receiving" /\ uni[c] > 0 /\ lost[c] = "no"
    /\ uni' = [uni EXCEPT ![c] = @ - 1]
    /\ \E tick \in BOOLEAN : BytesRecv(c, FrameSize, tick)
    /\ recved' = [recved EXCEPT ![c] = @ + 1]
    /\ IF recved[c] + 1 = want[c]
       THEN /\ cpc' = [cpc EXCEPT ![c] = "Ok"]
            /\ closeMsg' \in {[closeMsg EXCEPT ![c] = b] :
                              b \in IF "CloseLost" \in Faults THEN BOOLEAN ELSE {TRUE}}
       ELSE UNCHANGED <<cpc, closeMsg>>
    /\ UNCHANGED <<limit, block, retry, spc>> /\ UNCHANGED srvVars
    /\ UNCHANGED <<initial, hs, req, lost, want>>

\* accept_uni or connect returns the timeout: run returns Err.
ClientSeesLoss(c) ==
    /\ lost[c] # "no"
    /\ cpc[c] \in {"Connecting", "Receiving"}
    /\ cpc' = [cpc EXCEPT ![c] = "Failed"]
    /\ UNCHANGED <<limit, block, retry, spc>> /\ UNCHANGED srvVars
    /\ UNCHANGED netVars
    /\ UNCHANGED <<want, recved, bytesRecv, intervalRecv>>

(***************************************************************************)
(* The connection.                                                         *)
(***************************************************************************)

\* Nothing in flight and each end waiting on the other, or gone.
Quiet(c) ==
    /\ lost[c] = "no"
    /\ spc[c] \in {"AwaitBi", "AwaitClosed"}
    /\ cpc[c] \in {"Receiving", "Ok", "Failed"}
    /\ req[c] = <<>> /\ uni[c] = 0 /\ ~closeMsg[c]

\* quinn's max_idle_timeout (30 s by default) ends a quiet connection.
IdleTimeout(c) ==
    /\ Quiet(c)
    /\ lost' = [lost EXCEPT ![c] = "idle"]
    /\ UNCHANGED <<limit, block, retry, spc>> /\ UNCHANGED srvVars
    /\ UNCHANGED <<initial, hs, req, uni, closeMsg>> /\ UNCHANGED cliVars

\* A path failure long enough for both idle timers to fire.
Outage(c) ==
    /\ "Outage" \in Faults
    /\ lost[c] = "no"
    /\ spc[c] \in Live \/ cpc[c] \in {"Connecting", "Receiving"}
    /\ hs[c] # "refuse"
    /\ lost' = [lost EXCEPT ![c] = "outage"]
    /\ req' = [req EXCEPT ![c] = <<>>]
    /\ uni' = [uni EXCEPT ![c] = 0]
    /\ closeMsg' = [closeMsg EXCEPT ![c] = FALSE]
    /\ UNCHANGED <<limit, block, retry, spc>> /\ UNCHANGED srvVars
    /\ initial' = [initial EXCEPT ![c] = "none"]
    /\ UNCHANGED hs /\ UNCHANGED cliVars

Finished ==
    /\ \A c \in Clients : cpc[c] \in {"Ok", "Failed"}
    /\ \A c \in Clients : spc[c] \notin Live
    /\ UNCHANGED vars

Step(c) ==
    \/ ServerAccept(c) \/ ServerHandshake(c) \/ ServerReadRequest(c)
    \/ ServerLoop(c) \/ SendNextFrame(c) \/ ServerClosed(c) \/ ServerSeesLoss(c)
    \/ ClientConnected(c) \/ ClientRefused(c) \/ ClientRecvFrame(c)
    \/ ClientSeesLoss(c) \/ IdleTimeout(c)

Next == (\E c \in Clients : Step(c) \/ Outage(c)) \/ Finished

Spec == Init /\ [][Next]_vars

\* Every process and quinn's timers make progress; an outage may not happen.
FairSpec == Spec /\ \A c \in Clients : WF_vars(Step(c))

-----------------------------------------------------------------------------
(***************************************************************************)
(* Properties                                                              *)
(***************************************************************************)

States == {"None", "Err", "Done", "Panicked"} \cup Live

TypeOK ==
    /\ limit \in LimitOptions /\ block \subseteq Clients /\ retry \in BOOLEAN
    /\ spc \in [Clients -> States]
    /\ initial \in [Clients -> {"none", "fresh", "validated"}]
    /\ hs \in [Clients -> {"none", "accept", "refuse", "done"}]
    /\ reqFrames \in [Clients -> 0..MaxN] /\ frameCount \in [Clients -> 0..MaxN]
    /\ uni \in [Clients -> 0..MaxUni]
    /\ lost \in [Clients -> {"no", "idle", "outage"}]
    /\ cpc \in [Clients -> {"Connecting", "Receiving", "Ok", "Failed"}]
    /\ recved \in [Clients -> 0..MaxN]
    /\ bytesSent \in [Clients -> 0..(MaxN * FrameSize)]
    /\ bytesRecv \in [Clients -> 0..(MaxN * FrameSize)]

\* A client that exits Ok printed the same byte count as the server's
\* finish_request (ClientStats.bytes_recv = Stats.bytes_sent), and that is
\* the request_frames frames the server parsed from the GetN request.
StatsAgree ==
    \A c \in Clients : cpc[c] = "Ok" =>
        /\ bytesRecv[c] = bytesSent[c]
        /\ bytesSent[c] = reqFrames[c] * FrameSize
        /\ reqFrames[c] = want[c]

\* The session as the service sees it: the request is taken once the
\* server's task is past ServerReadRequest; frames are produced when their
\* write completes.
AbsPhase(c) ==
    CASE cpc[c] = "Ok" -> "Ok"
      [] cpc[c] = "Failed" -> "Failed"
      [] spc[c] \in {"Sending", "Opening", "AwaitClosed", "Done"} -> "Streaming"
      [] OTHER -> "Waiting"

Service == INSTANCE RtcService WITH
    phase <- [c \in Clients |-> AbsPhase(c)],
    sent <- [c \in Clients |-> bytesSent[c] \div FrameSize],
    got <- recved

\* The server and client implement RtcService: the server never writes more
\* frames than the client's request asked for, the client reads only
\* frames the server wrote, and exits Ok exactly on the last of them.
Refinement == Service!Spec

\* Every connection the server accepts ends with the client exiting Ok,
\* unless the path failed: the idle timeout, which ends a session where
\* each side waits on the other, is never how a session ends for the client.
ClientSucceeds ==
    \A c \in Clients : spc[c] = "Handshake" ~> (cpc[c] = "Ok" \/ lost[c] = "outage")

\* Every spawned handle_connection task returns, also when the client's
\* close is lost or the path fails: no task and no connection is leaked.
HandlerEnds ==
    \A c \in Clients : spc[c] = "Handshake" ~> spc[c] \in {"Done", "Err"}

====
