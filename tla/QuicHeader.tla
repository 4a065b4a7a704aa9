----------------------------- MODULE QuicHeader -----------------------------
(***************************************************************************)
(* QUIC header recognition (src/pemi/src/quic_parse.rs) and the walk over   *)
(* the coalesced packets of a UDP datagram (Conn::first_quic_packet,        *)
(* Conn::process_quic_packet, PEMI::quic_conn_process), with the way        *)
(* PEMI::process_packet acts on the walk's result.                          *)
(*                                                                         *)
(* A datagram is a sequence of abstract bytes.  Every octets read the       *)
(* parser makes (get_u8, get_u32, a varint, one byte of a connection id)    *)
(* takes one byte of the sequence, and a byte means what the read makes of  *)
(* it, so a misplaced read of payload bytes is as arbitrary as in the code: *)
(*   as a first byte: 0 is 0x00 (short form, and UDP padding), 1 a short    *)
(*   header 0x40, 2..5 the long header forms of Initial, 0-RTT, Handshake  *)
(*   and Retry;                                                            *)
(*   as a version: 0 is version negotiation, 1 QUIC v1, larger values      *)
(*   unsupported versions;                                                 *)
(*   as a length (connection id, token, payload): its value.               *)
(* MaxCidLen stands for MAX_CID_LEN.  Reads past the end are BufferTooShort *)
(* (octets::BufferTooShortError, common.rs From impl).                      *)
(***************************************************************************)
EXTENDS Naturals, Sequences, SequencesExt

CONSTANTS
    MaxCidLen,     \* MAX_CID_LEN, scaled down
    CidLens,       \* connection id lengths the endpoints use
    TokenLens,     \* Initial token lengths
    PayloadLens,   \* packet payload lengths
    PaddingLens,   \* UDP padding after the last packet
    MaxCoalesced,  \* QUIC packets per datagram
    Faults         \* subset of {"NotQuic", "Empty"} (datagrams other than
                   \* QUIC) and "LateStart" (PEMI's table starts without a
                   \* flow whose endpoints are mid-handshake)


VARIABLES
    conn,      \* [known, hs, client] of the datagrams' connection id
    status,    \* "Running", or how PEMI ended: "Exited", "Panicked"
    pending,   \* the datagram read from the socket, not yet processed
    verdict,   \* what process_packet did with the last datagram
    peer       \* ghost: [known, hs] as far as the endpoints got

vars == <<conn, status, pending, verdict, peer>>

Bytes == 0..5
PaddingByte == 0
ShortByte == 1
LongByte == [Initial |-> 2, ZeroRTT |-> 3, Handshake |-> 4, Retry |-> 5]

ASSUME \A l \in CidLens \cup TokenLens \cup PayloadLens \cup PaddingLens : l \in Bytes
ASSUME Faults \subseteq {"NotQuic", "Empty", "LateStart"}

\* Header::is_long: the form bit of the first byte.
IsLong(b) == b >= 2

\* version_is_supported: only QUIC v1.
VersionIsSupported(v) == v = 1

\* The long header type of a first byte, and Version Negotiation for version 0.
LongType(b, version) ==
    IF version = 0 THEN "VersionNegotiation"
    ELSE CHOOSE t \in DOMAIN LongByte : LongByte[t] = b

(***************************************************************************)
(* Header::from_bytes(b, 0) on the bytes of buf after offset off.  The      *)
(* result gives the error, or the type, the offset after the header and    *)
(* the length: the varint length of Initial (after the token), Handshake   *)
(* and 0-RTT, b.cap() for Retry and Version Negotiation.  With dcid_len 0  *)
(* a short header is InvalidState.  A connection id length above           *)
(* MAX_CID_LEN of a supported version panics.                             *)
(***************************************************************************)
HdrErr(e) == [err |-> e, ty |-> "None", off |-> 0, length |-> 0]

FromBytes(buf, off) ==
    LET n     == Len(buf)
        At(i) == buf[i]                    \* the byte read at position i
        first == At(off + 1)
        pVer  == off + 2                   \* get_u32
        pDcl  == off + 3                   \* get_u8 dcid_len
        pScl  == pDcl + At(pDcl) + 1       \* get_u8 scid_len
        pEnd  == pScl + At(pScl)           \* last byte of the scid
        ty    == LongType(first, At(pVer))
        pTok  == pEnd + 1                  \* Initial: varint token length
        pLen  == IF ty = "Initial" THEN pTok + At(pTok) + 1 ELSE pEnd + 1
        Hdr(o, l) == [err |-> "None", ty |-> ty, off |-> o, length |-> l]
    IN  IF off + 1 > n THEN HdrErr("BufferTooShort")
        ELSE IF ~IsLong(first) THEN HdrErr("InvalidState")
        ELSE IF pDcl > n THEN HdrErr("BufferTooShort")
        ELSE IF VersionIsSupported(At(pVer)) /\ At(pDcl) > MaxCidLen THEN HdrErr("Panic")
        ELSE IF pScl > n THEN HdrErr("BufferTooShort")
        ELSE IF VersionIsSupported(At(pVer)) /\ At(pScl) > MaxCidLen THEN HdrErr("Panic")
        ELSE IF pEnd > n THEN HdrErr("BufferTooShort")
        ELSE IF ty \in {"Retry", "VersionNegotiation"} THEN Hdr(pEnd, n - pEnd)
        ELSE IF ty = "Initial" /\ pTok > n THEN HdrErr("BufferTooShort")
        ELSE IF pLen > n THEN HdrErr("BufferTooShort")
        ELSE Hdr(pLen, At(pLen))

(***************************************************************************)
(* After a header: b.skip(length), then the bytes left are UDP padding     *)
(* when the next one is 0x00 (Header::is_udp_padding), and the packet has  *)
(* read the whole rest of the slice; otherwise it has read b.off().  The   *)
(* slice starts at off, so its buf.len() is Len(buf) - off.                *)
(***************************************************************************)
\* Mutant: no UDP padding test; the packet has read b.off().
SkipPayloadNoPadding(buf, off, hdr) ==
    LET end == hdr.off + hdr.length
    IN  IF end > Len(buf) THEN [err |-> "BufferTooShort", read |-> 0]
        ELSE [err |-> "None", read |-> end - off]

SkipPayload(buf, off, hdr) ==
    LET end == hdr.off + hdr.length
    IN  IF end > Len(buf) THEN [err |-> "BufferTooShort", read |-> 0]
        ELSE IF end < Len(buf) /\ buf[end + 1] = PaddingByte
             THEN [err |-> "None", read |-> Len(buf) - off]
             ELSE [err |-> "None", read |-> end - off]

\* Conn::first_quic_packet: the packet at off must be an Initial.
FirstQuicPacket(buf, off) ==
    LET hdr == FromBytes(buf, off)
    IN  IF hdr.err # "None" THEN [err |-> hdr.err, read |-> 0]
        ELSE IF hdr.ty # "Initial" THEN [err |-> "MayNotQUIC", read |-> 0]
        ELSE SkipPayload(buf, off, hdr)

(* Conn::process_quic_packet: before the handshake, parse the packet and   *)
(* set Handshaked on a Handshake packet, asserting it is not from the      *)
(* client; after it, the whole rest is read unparsed.                      *)
ProcessQuicPacket(buf, off, handshaked, fromClient) ==
    LET hdr == FromBytes(buf, off)
        isHs == hdr.err = "None" /\ hdr.ty = "Handshake"
    IN  IF handshaked THEN [err |-> "None", read |-> Len(buf) - off, hs |-> TRUE]
        ELSE IF hdr.err # "None" THEN [err |-> hdr.err, read |-> 0, hs |-> FALSE]
        ELSE IF isHs /\ fromClient THEN [err |-> "Panic", read |-> 0, hs |-> FALSE]
        ELSE LET skip == SkipPayload(buf, off, hdr)
             IN  [err |-> skip.err, read |-> skip.read, hs |-> isHs]

(***************************************************************************)
(* The connection as the walk sees it: whether conns holds it (known),     *)
(* whether it is Handshaked (hs), and client_addr (the source of the       *)
(* datagram that created it).                                              *)
(*                                                                         *)
(* PEMI::quic_conn_process: while bytes are left, the first packet of an   *)
(* unknown connection goes to first_quic_packet, which creates it          *)
(* (new_conn), and every later one to process_quic_packet; the first      *)
(* error ends the walk with the table as it is.  left -= read underflows   *)
(* if a packet reads more than is left.                                    *)
(***************************************************************************)
RECURSIVE QuicConnProcess(_, _, _, _)
QuicConnProcess(buf, off, c, src) ==
    LET left == Len(buf) - off
        r    == IF c.known THEN ProcessQuicPacket(buf, off, c.hs, src = c.client)
                ELSE FirstQuicPacket(buf, off)
        c2   == IF c.known THEN [c EXCEPT !.hs = r.hs]
                ELSE [known |-> TRUE, hs |-> FALSE, client |-> src]
    IN  IF left = 0 THEN [err |-> "None", conn |-> c]
        ELSE IF r.err # "None" THEN [err |-> r.err, conn |-> c]
        ELSE IF r.read > left THEN [err |-> "Panic", conn |-> c2]
        ELSE QuicConnProcess(buf, off + r.read, c2, src)

(***************************************************************************)
(* What PEMI::process_packet makes of the walk: InvalidState and           *)
(* MayNotQUIC forward the datagram transparently and return Ok; any other  *)
(* error is returned and main's ? ends PEMI ("Exited"); on success the     *)
(* connection is fetched with expect("the connection must exist").         *)
(***************************************************************************)
PacketOutcome(r) ==
    CASE r.err \in {"InvalidState", "MayNotQUIC"} -> "Forwarded"
      [] r.err = "BufferTooShort"                 -> "Exited"
      [] r.err = "Panic"                          -> "Panicked"
      [] r.err = "None" /\ ~r.conn.known          -> "Panicked"
      [] r.err = "None" /\ r.conn.known           -> "Processed"

----------------------------------------------------------------------------
(***************************************************************************)
(* The traffic.  Endpoints send well formed coalesced QUIC datagrams: up   *)
(* to MaxCoalesced packets, where only the last may lack a length field    *)
(* (Short, Retry, Version Negotiation), and UDP padding may follow a      *)
(* packet with a length.  Connection id and payload bytes are 1.          *)
(***************************************************************************)
LengthTypes == {"Initial", "ZeroRTT", "Handshake"}
LastTypes == {"Retry", "VersionNegotiation", "Short"}

Packets ==
    [ty : LengthTypes \cup LastTypes, dcid : CidLens, scid : CidLens,
     token : TokenLens, len : PayloadLens]

Ones(k) == [i \in 1..k |-> 1]

\* The bytes of a packet of the model's form.
Encode(p) ==
    LET cids == <<p.dcid>> \o Ones(p.dcid) \o <<p.scid>> \o Ones(p.scid)
    IN  CASE p.ty = "Initial" ->
               <<LongByte.Initial, 1>> \o cids \o <<p.token>> \o Ones(p.token)
                 \o <<p.len>> \o Ones(p.len)
          [] p.ty \in {"ZeroRTT", "Handshake"} ->
               <<LongByte[p.ty], 1>> \o cids \o <<p.len>> \o Ones(p.len)
          [] p.ty = "Retry" -> <<LongByte.Retry, 1>> \o cids \o Ones(p.len)
          [] p.ty = "VersionNegotiation" -> <<LongByte.Initial, 0>> \o cids \o Ones(p.len)
          [] p.ty = "Short" -> <<ShortByte>> \o Ones(p.dcid) \o Ones(p.len)

\* Only the Initial carries a token.
Canonical(p) == p.ty # "Initial" => p.token = 0

QuicDatagrams ==
    { s \in BoundedSeq({p \in Packets : Canonical(p)}, MaxCoalesced) :
        s # <<>> /\ \A i \in 1..Len(s) - 1 : s[i].ty \in LengthTypes }

DatagramBytes(s) == FoldLeft(LAMBDA acc, p : acc \o Encode(p), <<>>, s)

\* A datagram: who sent it, its bytes, and its packets when it is QUIC.
NoPackets == <<[ty |-> "None"]>>

Traffic ==
    { [bytes |-> DatagramBytes(s) \o [i \in 1..k |-> PaddingByte], pkts |-> s] :
        s \in QuicDatagrams, k \in PaddingLens }
    \cup (IF "NotQuic" \in Faults
          THEN {[bytes |-> b, pkts |-> NoPackets] : b \in BoundedSeq(Bytes, 3) \ {<<>>}}
          ELSE {})
    \cup (IF "Empty" \in Faults THEN {[bytes |-> <<>>, pkts |-> NoPackets]} ELSE {})

HasType(d, t) == \E i \in DOMAIN d.pkts : d.pkts[i].ty = t

(***************************************************************************)
(* What endpoints of a real handshake can send: the server answers only a  *)
(* client Initial that crossed PEMI, a client opens with an Initial, and a *)
(* client has Handshake keys only after the server's Handshake crossed     *)
(* PEMI.  Other UDP traffic of the same addresses can come at any time.    *)
(* This is the endpoints' progress, which PEMI's table follows once it     *)
(* has seen the flow from its first datagram.                              *)
(***************************************************************************)
MaySend(src, d) ==
    d.pkts = NoPackets
    \/ /\ src = "Server" => peer.known
       /\ src = "Client" /\ ~peer.known => d.pkts[1].ty = "Initial"
       /\ src = "Client" /\ ~peer.hs => ~HasType(d, "Handshake")

NoConn == [known |-> FALSE, hs |-> FALSE, client |-> "None"]

(***************************************************************************)
(* PEMI::new's empty table.  With LateStart the endpoints may be further:  *)
(* PEMI was started mid-handshake, or remove_idle_conns dropped the flow   *)
(* after IDLE_TIMEOUT without traffic and the endpoints then continued.   *)
(***************************************************************************)
Init ==
    /\ conn = NoConn
    /\ status = "Running"
    /\ pending = [src |-> "None"]
    /\ verdict = "None"
    /\ peer \in IF "LateStart" \in Faults
                THEN {[known |-> k, hs |-> h] : k \in BOOLEAN, h \in BOOLEAN} \
                       {[known |-> FALSE, hs |-> TRUE]}
                ELSE {[known |-> FALSE, hs |-> FALSE]}

\* The UDP socket is readable and recvmsg returns a datagram.
Receive ==
    /\ status = "Running" /\ pending.src = "None"
    /\ \E src \in {"Client", "Server"}, d \in Traffic :
          /\ MaySend(src, d)
          /\ pending' = [src |-> src, bytes |-> d.bytes, pkts |-> d.pkts]
    /\ UNCHANGED <<conn, status, verdict, peer>>

\* PEMI::process_packet up to the connection's own processing (Conn).
ProcessPacket ==
    /\ pending.src # "None"
    /\ LET r == QuicConnProcess(pending.bytes, 0, conn, pending.src)
           o == PacketOutcome(r)
       IN  /\ conn' = r.conn
           /\ verdict' = o
           /\ status' = IF o \in {"Exited", "Panicked"} THEN o ELSE "Running"
           /\ peer' = [known |-> peer.known \/ r.conn.known,
                       hs    |-> peer.hs \/ r.conn.hs]
    /\ pending' = [src |-> "None"]

Next == Receive \/ ProcessPacket

Spec == Init /\ [][Next]_vars

----------------------------------------------------------------------------
(***************************************************************************)
(* The recognition spec.md section 4.1 describes, on the packets of a      *)
(* datagram rather than its bytes: a pre-handshake short header is         *)
(* InvalidState, a first packet of an unknown flow other than an Initial   *)
(* is not QUIC, the first Initial creates the connection, a                *)
(* server-direction Handshake makes it Handshaked, and after that nothing  *)
(* is parsed.  UDP padding and what follows the last packet are skipped.   *)
(***************************************************************************)
RECURSIVE Recognise(_, _, _)
Recognise(pkts, c, src) ==
    IF pkts = <<>> \/ c.hs THEN [err |-> "None", conn |-> c]
    ELSE LET p == Head(pkts)
         IN  IF p.ty = "Short" THEN [err |-> "InvalidState", conn |-> c]
             ELSE IF ~c.known /\ p.ty # "Initial" THEN [err |-> "MayNotQUIC", conn |-> c]
             ELSE Recognise(Tail(pkts),
                            [known  |-> TRUE,
                             hs     |-> p.ty = "Handshake" /\ src = "Server",
                             client |-> IF c.known THEN c.client ELSE src],
                            src)

(* The byte-level walk of quic_conn_process, with from_bytes's offsets,    *)
(* the Initial token, b.cap() lengths and the padding test, decides every  *)
(* well formed QUIC datagram as the packet-level rules of section 4.1 do:  *)
(* same connection table, same handshake state, same forward-or-process    *)
(* outcome, and it never reads past the datagram or gives up on one.       *)
WalkMatchesReference ==
    [][pending.src # "None" /\ pending.pkts # NoPackets =>
         LET ref == Recognise(pending.pkts, conn, pending.src)
         IN  conn' = ref.conn /\ verdict' = PacketOutcome(ref)]_vars

(* Spec section 7: a datagram that cannot be QUIC-classified, BufferTooShort *)
(* included ("same action as NotQUIC"), is forwarded transparently and     *)
(* PEMI continues.  process_packet returns every other error to main,      *)
(* whose ? ends the process, and expects a connection after an empty walk. *)
PemiSurvivesDatagrams == status = "Running"

=============================================================================
