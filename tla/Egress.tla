------------------------------ MODULE Egress ------------------------------
(***************************************************************************)
(* The egress proxy (src/egress/proxy.py): admission under two limits, the *)
(* decision on a request, the address check, and a tunnel of two copying   *)
(* tasks bounded in time and bytes, each connection audited at its end.    *)
(*                                                                         *)
(* Time is kept as ages that stop growing once every limit is passed, so   *)
(* that behaviours need no bound on the clock. The event loop serves a     *)
(* timer before the clock moves past it (Tick); what arrives at that very  *)
(* moment may still win. Clients, registries and the resolver are external.*)
(***************************************************************************)
EXTENDS Integers, Sequences, FiniteSets, FiniteSetsExt

CONSTANTS
    Clients,            \* connections, each made once
    MostLimit,          \* the largest max_connections and max_connections_per_minute tried
    Minute,             \* the 60 seconds of the rate window, in ticks
    HeaderTime,         \* header_timeout_seconds
    ConnectTime,        \* connect_timeout_seconds
    IdleTime,           \* idle_timeout_seconds
    Lifetime,           \* max_tunnel_seconds
    TunnelBytes         \* max_tunnel_bytes, in chunks

ASSUME ConnectionsAreFinite == IsFiniteSet(Clients)
ASSUME LimitsAreNumbers ==
    /\ MostLimit \in Nat /\ Minute \in Nat /\ HeaderTime \in Nat /\ ConnectTime \in Nat
    /\ IdleTime \in Nat /\ Lifetime \in Nat /\ TunnelBytes \in Nat

VARIABLES
    policy,     \* self.policy, from the environment
    tunnel,     \* connection -> [at, admitted, age, wait, up, down, sent]
    copy,       \* connection -> direction -> [at, idle]: the tasks of _pump
    openTunnels,     \* self.active
    recent,     \* self._recent, as ages
    audit       \* connection -> its audit lines

egressVars == <<policy, tunnel, copy, openTunnels, recent, audit>>

Directions == {"up", "down"}
Open == {"head", "resolving", "connecting", "pump"}
Hosts == {"registry", "elsewhere"}
NoCopy == [d \in Directions |-> [at |-> "none", idle |-> 0]]
-----------------------------------------------------------------------------
(***************************************************************************)
(* Ending a connection.                                                    *)
(***************************************************************************)
\* handle: a denial or an error before or after the connection was counted: _log, _respond,
\* close.
Deny(c, counted) ==
    /\ tunnel' = [tunnel EXCEPT ![c].at = "done"]
    /\ audit' = [audit EXCEPT ![c] = Append(@, [allowed |-> FALSE, bytes |-> 0])]
    /\ openTunnels' = IF counted THEN openTunnels - 1 ELSE openTunnels

\* A connection closed without a byte: neither answered nor audited.
LeaveUnheard(c) ==
    /\ tunnel' = [tunnel EXCEPT ![c].at = "done"] /\ openTunnels' = openTunnels - 1
    /\ UNCHANGED audit

\* The window of the last minute: popleft while the oldest admission is out of it.
KeptRecent ==
    LET popped == Max({0} \cup {k \in DOMAIN recent : \A j \in 1..k : recent[j] >= Minute})
    IN  SubSeq(recent, popped + 1, Len(recent))

\* handle, up to the await of _tunnel.
Arrive(c) ==
    /\ tunnel[c].at = "new"
    /\ \/ openTunnels >= policy.connections /\ Deny(c, FALSE) /\ UNCHANGED recent
       \/ /\ openTunnels < policy.connections /\ Len(KeptRecent) >= policy.perMinute
          /\ Deny(c, FALSE) /\ recent' = KeptRecent
       \/ /\ openTunnels < policy.connections /\ Len(KeptRecent) < policy.perMinute
          /\ recent' = Append(KeptRecent, 0) /\ openTunnels' = openTunnels + 1
          /\ tunnel' = [tunnel EXCEPT ![c].at = "head", ![c].admitted = TRUE]
          /\ UNCHANGED audit
    /\ UNCHANGED copy
-----------------------------------------------------------------------------
(***************************************************************************)
(* _tunnel, up to the pump.                                                *)
(***************************************************************************)
Goes(c, at) == tunnel' = [tunnel EXCEPT ![c].at = at, ![c].wait = 0]

\* evaluate, host_allowed: one allowlisted host.
Evaluate(host) == host = "registry"

\* The request head: nothing, nothing well-formed in time, or a request for a host.
ReadHead(c) ==
    /\ tunnel[c].at = "head"
    /\ \/ LeaveUnheard(c) \/ Deny(c, TRUE)
       \/ \E host \in Hosts :
            IF Evaluate(host) THEN Goes(c, "resolving") /\ UNCHANGED <<openTunnels, audit>>
            ELSE Deny(c, TRUE)
    /\ UNCHANGED <<copy, recent>>

\* resolve_public: refused unless every address is public.
Resolve(c) ==
    /\ tunnel[c].at = "resolving"
    /\ \E addresses \in SUBSET {"public", "private"} :
        IF addresses = {"public"} THEN Goes(c, "connecting") /\ UNCHANGED <<openTunnels, audit>>
        ELSE Deny(c, TRUE)
    /\ UNCHANGED <<copy, recent>>

\* The connection upstream, and the answer to the client: either may fail.
Connect(c) ==
    /\ tunnel[c].at = "connecting"
    /\ \/ Deny(c, TRUE) /\ UNCHANGED copy
       \/ /\ Goes(c, "pump") /\ UNCHANGED <<openTunnels, audit>>
          /\ copy' = [copy EXCEPT ![c] = [d \in Directions |-> [at |-> "reading", idle |-> 0]]]
    /\ UNCHANGED recent
-----------------------------------------------------------------------------
(***************************************************************************)
(* _pump: one task for each direction.                                     *)
(***************************************************************************)
CopyGoes(c, d, at) ==
    /\ copy' = [copy EXCEPT ![c][d] = [at |-> at, idle |-> 0]]
    /\ UNCHANGED <<openTunnels, recent, audit>>

\* A chunk: counted, refused when the tunnel is over its bytes, else written.
ChunkUncounted(c, d) ==
    /\ copy[c][d].at = "reading"
    /\ tunnel[c].up + tunnel[c].down <= TunnelBytes
    /\ tunnel' = [tunnel EXCEPT ![c][d] = @ + 1, ![c].sent = @ + 1]
    /\ CopyGoes(c, d, "draining")
Chunk(c, d) ==
    /\ copy[c][d].at = "reading"
    /\ IF tunnel[c].up + tunnel[c].down + 1 > TunnelBytes
       THEN tunnel' = [tunnel EXCEPT ![c][d] = @ + 1] /\ CopyGoes(c, d, "ended")
       ELSE /\ tunnel' = [tunnel EXCEPT ![c][d] = @ + 1, ![c].sent = @ + 1]
            /\ CopyGoes(c, d, "draining")

\* The write is taken: the next read, unless the tunnel has lived long enough.
Drained(c, d) ==
    /\ copy[c][d].at = "draining"
    /\ CopyGoes(c, d, IF tunnel[c].age >= Lifetime THEN "ended" ELSE "reading")
    /\ UNCHANGED tunnel

\* The timeout of a read: the idle time, or what remained of the tunnel's when it began.
Expired(c, d) ==
    /\ copy[c][d].at = "reading"
    /\ copy[c][d].idle >= IdleTime \/ tunnel[c].age >= Lifetime

\* A timeout, the end of the source, or a connection that breaks.
CopyEnds(c, d) ==
    /\ copy[c][d].at \in {"reading", "draining"}
    /\ CopyGoes(c, d, "ended") /\ UNCHANGED tunnel

\* The rest of _pump and _tunnel once the first task has ended: the other is cancelled, the
\* upstream closed, the tunnel audited with what its tasks counted.
Settle(c) ==
    /\ tunnel[c].at = "pump" /\ \E d \in Directions : copy[c][d].at = "ended"
    /\ tunnel' = [tunnel EXCEPT ![c].at = "done"] /\ copy' = [copy EXCEPT ![c] = NoCopy]
    /\ audit' = [audit EXCEPT ![c] = Append(@,
            [allowed |-> TRUE, bytes |-> tunnel[c].up + tunnel[c].down])]
    /\ openTunnels' = openTunnels - 1 /\ UNCHANGED recent
-----------------------------------------------------------------------------
\* A timer that the event loop has to serve before the clock moves on.
TimerDue(c) ==
    \/ tunnel[c].at = "head" /\ tunnel[c].wait >= HeaderTime
    \/ tunnel[c].at = "connecting" /\ tunnel[c].wait >= ConnectTime
    \/ tunnel[c].at = "pump" /\ \E d \in Directions : Expired(c, d) \/ copy[c][d].at = "ended"

Older(age, most) == IF age < most THEN age + 1 ELSE age

Tick ==
    /\ \E c \in Clients : tunnel[c].at \in Open
    /\ \A c \in Clients : ~TimerDue(c)
    /\ tunnel' = [c \in Clients |->
            IF tunnel[c].at = "new" THEN tunnel[c]
            ELSE [tunnel[c] EXCEPT !.age = Older(@, Max({Minute, Lifetime})),
                                   !.wait = Older(@, Max({HeaderTime, ConnectTime}))]]
    /\ copy' = [c \in Clients |-> [d \in Directions |->
            IF copy[c][d].at = "reading" THEN [copy[c][d] EXCEPT !.idle = Older(@, IdleTime)]
            ELSE copy[c][d]]]
    /\ recent' = [k \in DOMAIN recent |-> Older(recent[k], Minute)]
    /\ UNCHANGED <<openTunnels, audit>>

EgressInit ==
    /\ policy \in [connections : 1..MostLimit, perMinute : 1..MostLimit]
    /\ tunnel = [c \in Clients |->
            [at |-> "new", admitted |-> FALSE, age |-> 0, wait |-> 0,
             up |-> 0, down |-> 0, sent |-> 0]]
    /\ copy = [c \in Clients |-> NoCopy]
    /\ openTunnels = 0 /\ recent = <<>> /\ audit = [c \in Clients |-> <<>>]

\* What asyncio and its timeouts bring about for a connection. A registry reads what it is
\* sent; a client may stop reading for ever.
Handling(c) == ReadHead(c) \/ Resolve(c) \/ Connect(c) \/ Settle(c)
RegistrySide(c) ==
    \/ Drained(c, "up")
    \/ \E d \in Directions : Expired(c, d) /\ CopyEnds(c, d)

EgressNext ==
    /\ \/ Tick
       \/ \E c \in Clients :
            \/ Arrive(c) \/ Handling(c)
            \/ \E d \in Directions : Chunk(c, d) \/ Drained(c, d) \/ CopyEnds(c, d)
    /\ UNCHANGED policy

EgressSpec ==
    /\ EgressInit /\ [][EgressNext]_egressVars /\ WF_egressVars(UNCHANGED policy /\ Tick)
    /\ \A c \in Clients : /\ WF_egressVars(UNCHANGED policy /\ Handling(c))
                          /\ WF_egressVars(UNCHANGED policy /\ RegistrySide(c))
-----------------------------------------------------------------------------
(***************************************************************************)
(* Properties.                                                             *)
(***************************************************************************)
\* The count that admits connections is the number of open ones, on every path out of a
\* handler, and never above the limit (self.active in handle).
SlotsAreReturned ==
    /\ openTunnels = Cardinality({c \in Clients : tunnel[c].at \in Open})
    /\ openTunnels <= policy.connections

\* No minute sees more than max_connections_per_minute admitted connections, open or ended
\* (self._recent in handle): those still in the window are those admitted within it.
RateHolds ==
    Cardinality({c \in Clients :
        tunnel[c].admitted /\ tunnel[c].age < Minute}) <= policy.perMinute

\* However the two directions interleave, no tunnel forwards more than max_tunnel_bytes.
BytesHold == \A c \in Clients : tunnel[c].sent <= TunnelBytes

\* Every connection that said anything leaves one audit line, which says it was allowed when
\* anything was forwarded, and accounts for every forwarded byte.
AuditIsComplete ==
    \A c \in Clients :
        /\ tunnel[c].at # "done" => audit[c] = <<>>
        /\ Len(audit[c]) <= 1
        /\ tunnel[c].at = "done" /\ tunnel[c].sent > 0 =>
            audit[c] # <<>> /\ audit[c][1].allowed /\ audit[c][1].bytes >= tunnel[c].sent

\* The proxy's books are right: no interleaving of connections gets past a limit of the
\* policy or moves bytes that the audit does not show.
CountsAreRight == SlotsAreReturned /\ RateHolds /\ BytesHold /\ AuditIsComplete

\* Every connection ends and gives its slot back, even when its client stops reading.
TunnelsAreClosed ==
    \A c \in Clients : tunnel[c].at \in Open ~> tunnel[c].at = "done"
=============================================================================
