-------------------------------- MODULE Pemi --------------------------------
(***************************************************************************)
(* PEMI's connection table and idle eviction (src/pemi/src/lib.rs): the    *)
(* conns map, the access_times min-heap of AccessTime(t, conn_id), and     *)
(* remove_idle_conns, as process_packet and process_timeout run it, with  *)
(* the idle timer of PEMI::timeout.  A connection is reduced to what       *)
(* eviction reads and writes: last_access (Conn::update_access_time) and   *)
(* whether it is handshaked (after which every datagram parses as QUIC).  *)
(*                                                                         *)
(* Datagrams of a connection are "Initial" (first_quic_packet creates the  *)
(* connection, or an existing one processes it), "Quic" (a later packet    *)
(* of a known connection; it may carry the server's Handshake) or         *)
(* "NotQuic" (a datagram that fails to parse before the handshake:         *)
(* process_quic_packet has already updated last_access, and process_packet *)
(* forwards it and returns before remove_idle_conns).  A datagram of an    *)
(* unknown connection that is not an Initial changes nothing.              *)
(***************************************************************************)
EXTENDS Naturals, FiniteSets, TLC

CONSTANTS
    Conns,        \* connection ids
    IdleTimeout,  \* IDLE_TIMEOUT in ticks
    MaxTime

ASSUME IdleTimeout \in Nat \ {0}

VARIABLES
    conns,         \* ids in the conns map
    last_access,   \* Conn.last_access of each id (meaningful for ids in conns)
    handshaked,    \* Conn.state = Handshaked
    access_times,  \* the heap: a set of [t, c], one per AccessTime pushed
    now,
    evicting       \* the last step ran remove_idle_conns

vars == <<conns, last_access, handshaked, access_times, now, evicting>>

\* Mutant: idle only strictly after IDLE_TIMEOUT.
IsIdleStrict(la, c, t) == t - la[c] > IdleTimeout

\* Conn::is_idle.
IsIdle(la, c, t) == t - la[c] >= IdleTimeout

\* BinaryHeap::peek on the reversed order: an entry of least time.
Oldest(heap) == CHOOSE e \in heap : \A f \in heap : e.t <= f.t

(***************************************************************************)
(* remove_idle_conns(now): while the oldest entry is IDLE_TIMEOUT old,     *)
(* remove its connection when it is idle, otherwise pop the entry and push *)
(* it again with time now.  Returns the heap and the table.               *)
(***************************************************************************)
\* Mutant: the entry of a busy connection is popped and not pushed again.
RECURSIVE RemoveIdleConnsNoRepush(_, _, _, _)
RemoveIdleConnsNoRepush(heap, cs, la, t) ==
    IF heap = {} THEN [heap |-> heap, conns |-> cs]
    ELSE LET top == Oldest(heap)
         IN  IF t - top.t < IdleTimeout THEN [heap |-> heap, conns |-> cs]
             ELSE IF IsIdle(la, top.c, t)
                  THEN RemoveIdleConnsNoRepush(heap \ {top}, cs \ {top.c}, la, t)
                  ELSE RemoveIdleConnsNoRepush(heap \ {top}, cs, la, t)

\* Mutant: the loop stops at the first connection that is still active.
RECURSIVE RemoveIdleConnsBreak(_, _, _, _)
RemoveIdleConnsBreak(heap, cs, la, t) ==
    IF heap = {} THEN [heap |-> heap, conns |-> cs]
    ELSE LET top == Oldest(heap)
         IN  IF t - top.t < IdleTimeout THEN [heap |-> heap, conns |-> cs]
             ELSE IF IsIdle(la, top.c, t)
                  THEN RemoveIdleConnsBreak(heap \ {top}, cs \ {top.c}, la, t)
                  ELSE [heap |-> heap, conns |-> cs]

RECURSIVE RemoveIdleConns(_, _, _, _)
RemoveIdleConns(heap, cs, la, t) ==
    IF heap = {} THEN [heap |-> heap, conns |-> cs]
    ELSE LET top == Oldest(heap)
         IN  IF t - top.t < IdleTimeout THEN [heap |-> heap, conns |-> cs]
             ELSE IF IsIdle(la, top.c, t)
                  THEN RemoveIdleConns(heap \ {top}, cs \ {top.c}, la, t)
                  ELSE RemoveIdleConns((heap \ {top}) \cup {[t |-> t, c |-> top.c]}, cs, la, t)

\* Apply remove_idle_conns at now to the table left by the step.
Evict(heap, cs, la) ==
    LET r == RemoveIdleConns(heap, cs, la, now)
    IN  /\ access_times' = r.heap
        /\ conns' = r.conns
        /\ evicting' = TRUE

Init ==
    /\ conns = {}
    /\ last_access = [c \in Conns |-> 0]
    /\ handshaked = [c \in Conns |-> FALSE]
    /\ access_times = {}
    /\ now = 0
    /\ evicting = FALSE

(***************************************************************************)
(* process_packet for an Initial of an unknown connection: quic_conn_process *)
(* creates it (Conn::new: last_access = now) and new_conn pushes its       *)
(* AccessTime; then remove_idle_conns.                                     *)
(***************************************************************************)
NewConnection(c) ==
    /\ c \notin conns
    /\ last_access' = [last_access EXCEPT ![c] = now]
    /\ handshaked' = [handshaked EXCEPT ![c] = FALSE]
    /\ Evict(access_times \cup {[t |-> now, c |-> c]}, conns \cup {c},
          [last_access EXCEPT ![c] = now])
    /\ UNCHANGED now

\* process_packet for a QUIC datagram of a known connection: the access
\* time, maybe the handshake, then remove_idle_conns.
QuicDatagram(c) ==
    /\ c \in conns
    /\ last_access' = [last_access EXCEPT ![c] = now]
    /\ \E hs \in {handshaked[c], TRUE} : handshaked' = [handshaked EXCEPT ![c] = hs]
    /\ Evict(access_times, conns, [last_access EXCEPT ![c] = now])
    /\ UNCHANGED now

\* A datagram of a known, not yet handshaked connection that does not parse:
\* the access time is updated and process_packet returns early.
NotQuicDatagram(c) ==
    /\ c \in conns /\ ~handshaked[c]
    /\ last_access' = [last_access EXCEPT ![c] = now]
    /\ evicting' = FALSE
    /\ UNCHANGED <<conns, handshaked, access_times, now>>

\* PEMI::timeout's idle timer is zero.
IdleDue == access_times # {} /\ now - Oldest(access_times).t >= IdleTimeout

\* process_timeout, when the idle timer or a connection's reply timer is
\* due: remove_idle_conns (the reply timeouts are Conn's).
ProcessTimeout ==
    /\ conns # {}
    /\ Evict(access_times, conns, last_access)
    /\ UNCHANGED <<last_access, handshaked, now>>

\* The loop sleeps until the earliest timer; time passes only when the idle
\* timer is not due.
Tick ==
    /\ now < MaxTime /\ ~IdleDue
    /\ now' = now + 1 /\ evicting' = FALSE
    /\ UNCHANGED <<conns, last_access, handshaked, access_times>>

\* The last tick of the bounded behaviour.
Done == now = MaxTime /\ UNCHANGED vars

Next ==
    \/ \E c \in Conns : NewConnection(c) \/ QuicDatagram(c) \/ NotQuicDatagram(c)
    \/ ProcessTimeout \/ Tick \/ Done

Spec == Init /\ [][Next]_vars

(* main runs process_timeout at the top of every loop iteration in which   *)
(* PEMI::timeout() is zero, before it waits on any socket.                 *)
FairSpec == Spec /\ WF_vars(ProcessTimeout)

\* Connection ids are interchangeable.
Symmetry == Permutations(Conns)

----------------------------------------------------------------------------
(* Properties.                                                             *)

(* The heap holds exactly one AccessTime per connection of the table: no   *)
(* entry names a removed connection (remove_idle_conns expects "the        *)
(* connection must exist") and no connection has lost its entry, which    *)
(* would never be evicted.  new_conn's push and the pop-and-push of a busy *)
(* connection keep this together.                                          *)
HeapTracksConns ==
    /\ {e.c : e \in access_times} = conns
    /\ Cardinality(access_times) = Cardinality(conns)

(* A connection is removed within twice IDLE_TIMEOUT of its last access:   *)
(* the idle timer wakes the loop when the oldest entry is IDLE_TIMEOUT     *)
(* old, and a busy connection's entry is renewed at most IDLE_TIMEOUT      *)
(* after its access.                                                       *)
EvictedWithinTwiceIdle ==
    \A c \in conns : now - last_access[c] < 2 * IdleTimeout

(* A due idle timer is eventually served: once the oldest AccessTime is    *)
(* IDLE_TIMEOUT old, process_timeout's remove_idle_conns leaves a heap     *)
(* whose oldest entry is younger, so PEMI::timeout() stops returning zero  *)
(* and the loop does not spin on process_timeout.                          *)
IdleTimerServed == IdleDue ~> ~IdleDue

(* Spec: "the ingress engine removes entries after any processing step     *)
(* whose now - last_access >= IDLE_TIMEOUT".  After every step that runs   *)
(* remove_idle_conns, no idle connection is left in the table.  The code   *)
(* does not keep this (see the lib.rs:420 hazard in PROJECT.json).        *)
EvictedWhenIdle ==
    [][evicting' => \A c \in conns' : now' - last_access'[c] < IdleTimeout]_vars

=============================================================================
