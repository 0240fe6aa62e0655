---------------------------- MODULE EgressProofs ----------------------------
(***************************************************************************)
(* Proofs about module Egress: the proxy's books are right for every set   *)
(* of clients, every policy, every length of the timers and every order of *)
(* what the connections do.                                                *)
(***************************************************************************)
EXTENDS Egress, FiniteSetTheorems, SequenceTheorems, TLAPS

(***************************************************************************)
(* The invariant.                                                          *)
(***************************************************************************)
Tunnels ==
    [at : {"new", "done"} \cup Open, admitted : BOOLEAN, age : Nat, wait : Nat,
     up : Nat, down : Nat, sent : Nat]

Copies == [Directions -> [at : {"none", "reading", "draining", "ended"}, idle : Nat]]

Lines == [allowed : BOOLEAN, bytes : Nat]

EgressTypeOK ==
    /\ policy \in [connections : Nat, perMinute : Nat]
    /\ tunnel \in [Clients -> Tunnels]
    /\ copy \in [Clients -> Copies]
    /\ openTunnels \in Int
    /\ recent \in Seq(Nat)
    /\ audit \in [Clients -> Seq(Lines)]

\* The bytes of a tunnel: sent at most what was counted, and within the limit;
\* nothing is copied or sent but by a pump.
BytesCounted(t, cp) ==
    /\ t.sent <= t.up + t.down /\ t.sent <= TunnelBytes
    /\ t.at # "pump" => \A d \in Directions : cp[d].at = "none"
    /\ t.at \in {"new", "head", "resolving", "connecting"} => t.sent = 0
    /\ t.at = "new" => ~t.admitted

\* The audit lines of a connection.
Audited(t, lines) ==
    /\ t.at # "done" => lines = <<>>
    /\ Len(lines) <= 1
    /\ t.at = "done" /\ t.sent > 0 =>
           lines # <<>> /\ lines[1].allowed /\ lines[1].bytes >= t.sent

\* Connections admitted within the last minute.
Young == {c \in Clients : tunnel[c].admitted /\ tunnel[c].age < Minute}

\* Each of them still has a place of its own in the window, no older than it.
Placed(slot) ==
    /\ slot \in [Young -> DOMAIN recent]
    /\ \A c, e \in Young : slot[c] = slot[e] => c = e
    /\ \A c \in Young : recent[slot[c]] <= tunnel[c].age

WindowHolds == Len(recent) <= policy.perMinute /\ \E slot : Placed(slot)

EgressInv ==
    /\ EgressTypeOK /\ SlotsAreReturned /\ WindowHolds
    /\ \A c \in Clients : BytesCounted(tunnel[c], copy[c]) /\ Audited(tunnel[c], audit[c])

-----------------------------------------------------------------------------
(* Facts about the model's operators.                                      *)

\* The larger of two numbers.
LEMMA MaxOfTwo ==
    ASSUME NEW a \in Nat, NEW b \in Nat
    PROVE  Max({a, b}) \in Nat /\ a <= Max({a, b}) /\ b <= Max({a, b})
<1>1. \E x \in {a, b} : \A y \in {a, b} : x >= y
  OBVIOUS
<1>2. Max({a, b}) \in {a, b} /\ \A y \in {a, b} : Max({a, b}) >= y
  BY <1>1 DEF Max
<1> QED BY <1>2

\* A set of positions with 0 in it has a last one: what lies beyond the others
\* is a well-founded family of finite sets.
LEMMA LastOf ==
    ASSUME NEW n \in Nat, NEW M, M \subseteq 0..n, M # {}
    PROVE  Max(M) \in M
<1> DEFINE Beyond(m) == {k \in M : k > m}
           F == {Beyond(m) : m \in M}
<1>1. IsFiniteSet(0..n)
  <2>1. 0 \in Int /\ n \in Int
    OBVIOUS
  <2> QED BY <2>1, FS_Interval
<1>2. IsFiniteSet(M) /\ M \subseteq Nat
  <2>1. M \in SUBSET (0..n)
    OBVIOUS
  <2>2. IsFiniteSet(M)
    BY <1>1, <2>1, FS_Subset
  <2> QED BY <2>2
<1>3. F \subseteq FiniteSubsetsOf(M)
  <2>1. \A m \in M : Beyond(m) \in SUBSET M
    OBVIOUS
  <2> QED BY <1>2, <2>1, FS_FiniteSubsetsOfFinite
<1>4. F # {}
  OBVIOUS
<1>5. PICK s \in F : \A t \in F : ~(<<t, s>> \in StrictSubsetOrdering(M))
  BY <1>3, <1>4, FS_StrictSubsetOrderingWellFounded, WFMin
<1>6. PICK m \in M : s = Beyond(m)
  OBVIOUS
<1>7. ASSUME NEW k \in M, k > m PROVE FALSE
  <2>1. Beyond(k) \subseteq s
    <3>1. \A i \in M : i > k => i > m
      BY <1>2, <1>7
    <3> QED BY <1>6, <3>1
  <2>2. k \notin Beyond(k)
    BY <1>2
  <2>3. k \in s /\ Beyond(k) \in F
    BY <1>6, <1>7
  <2>4. s \in SUBSET M /\ Beyond(k) \in SUBSET M
    BY <1>6
  <2>5. <<Beyond(k), s>> \in StrictSubsetOrdering(M)
    BY <2>1, <2>2, <2>3, <2>4 DEF StrictSubsetOrdering
  <2> QED BY <1>5, <2>3, <2>5
<1>8. \A k \in M : m >= k
  BY <1>2, <1>7
<1> QED BY <1>6, <1>8 DEF Max

\* The window after popleft: a number of old entries are gone from its left
\* end, and nothing else.
LEMMA KeptFacts ==
    ASSUME recent \in Seq(Nat)
    PROVE  /\ KeptRecent \in Seq(Nat) /\ Len(KeptRecent) <= Len(recent)
           /\ \E p \in 0..Len(recent) :
                /\ Len(KeptRecent) = Len(recent) - p
                /\ \A j \in 1..p : recent[j] >= Minute
                /\ \A k \in 1..(Len(recent) - p) : KeptRecent[k] = recent[p + k]
<1> DEFINE M == {0} \cup {k \in DOMAIN recent : \A j \in 1..k : recent[j] >= Minute}
           p == Max(M)
<1>1. Len(recent) \in Nat /\ DOMAIN recent = 1..Len(recent)
  OBVIOUS
<1>2. M \subseteq 0..Len(recent) /\ M # {}
  BY <1>1
<1>3. p \in M
  <2> HIDE DEF M
  <2> QED BY <1>1, <1>2, LastOf
<1>4. p \in 0..Len(recent) /\ \A j \in 1..p : recent[j] >= Minute
  <2> HIDE DEF p
  <2>1. CASE p = 0
    BY <1>1, <2>1
  <2>2. CASE p # 0
    BY <1>1, <1>3, <2>2
  <2> QED BY <2>1, <2>2
<1>5. KeptRecent = SubSeq(recent, p + 1, Len(recent))
  BY DEF KeptRecent
<1> HIDE DEF p
<1>6. p + 1 \in Int /\ Len(recent) \in Int /\ \A i \in (p + 1)..Len(recent) : recent[i] \in Nat
  BY <1>1, <1>4
<1>7. /\ KeptRecent \in Seq(Nat)
      /\ Len(KeptRecent) = IF p + 1 <= Len(recent) THEN Len(recent) - (p + 1) + 1 ELSE 0
      /\ \A i \in 1..(Len(recent) - (p + 1) + 1) : KeptRecent[i] = recent[(p + 1) + i - 1]
  BY <1>5, <1>6, SubSeqProperties
<1>8. Len(KeptRecent) = Len(recent) - p /\ Len(KeptRecent) <= Len(recent)
  <2>1. p \in Nat /\ p <= Len(recent)
    BY <1>1, <1>4
  <2>2. CASE p + 1 <= Len(recent)
    BY <1>1, <1>7, <2>1, <2>2
  <2>3. CASE ~(p + 1 <= Len(recent))
    <3>1. Len(KeptRecent) = 0
      BY <1>7, <2>3
    <3>2. p = Len(recent)
      <4>1. \A a, b \in Nat : (a <= b /\ ~(a + 1 <= b)) => a = b
        OBVIOUS
      <4>2. p \in Nat /\ Len(recent) \in Nat
        BY <1>1, <2>1
      <4> QED BY <4>1, <4>2, <2>1, <2>3
    <3> QED BY <1>1, <3>1, <3>2
  <2> QED BY <2>2, <2>3
<1>9. ASSUME NEW k \in 1..(Len(recent) - p) PROVE KeptRecent[k] = recent[p + k]
  <2>1. k \in 1..(Len(recent) - (p + 1) + 1) /\ (p + 1) + k - 1 = p + k
    BY <1>1, <1>4
  <2> QED BY <1>7, <2>1
<1> QED BY <1>4, <1>7, <1>8, <1>9

-----------------------------------------------------------------------------
(* The parts of the invariant.                                             *)

OpenClients == {c \in Clients : tunnel[c].at \in Open}

\* A connection that leaves gives back one slot.
LEMMA SlotGivenBack ==
    ASSUME EgressInv, UNCHANGED policy, NEW c \in Clients, tunnel[c].at \in Open,
           tunnel'[c].at = "done", \A x \in Clients \ {c} : tunnel'[x].at = tunnel[x].at,
           openTunnels' = openTunnels - 1
    PROVE  SlotsAreReturned'
<1>1. IsFiniteSet(OpenClients)
  BY ConnectionsAreFinite, FS_Subset DEF OpenClients
<1>2. OpenClients' = OpenClients \ {c} /\ c \in OpenClients
  BY DEF OpenClients, Open
<1>3. Cardinality(OpenClients') = Cardinality(OpenClients) - 1
  BY <1>1, <1>2, FS_RemoveElement
<1>4. openTunnels = Cardinality(OpenClients) /\ openTunnels <= policy.connections
      /\ openTunnels \in Int /\ policy.connections \in Nat
  BY DEF EgressInv, SlotsAreReturned, OpenClients, EgressTypeOK
<1>5. openTunnels' = Cardinality(OpenClients') /\ openTunnels' <= policy'.connections
  BY <1>3, <1>4
<1> QED BY <1>5 DEF SlotsAreReturned, OpenClients

\* A step that opens and closes no connection.
LEMMA SlotsStay ==
    ASSUME EgressInv, UNCHANGED <<policy, openTunnels>>,
           \A x \in Clients : tunnel'[x].at \in Open <=> tunnel[x].at \in Open
    PROVE  SlotsAreReturned'
<1>1. OpenClients' = OpenClients
  BY DEF OpenClients
<1> QED BY <1>1 DEF EgressInv, SlotsAreReturned, OpenClients

\* A step after which fewer connections are young, in the same window.
LEMMA WindowStays ==
    ASSUME EgressInv, UNCHANGED <<policy, recent>>,
           \A x \in Clients : /\ tunnel'[x].admitted = tunnel[x].admitted
                              /\ tunnel'[x].age = tunnel[x].age
    PROVE  WindowHolds'
<1>1. Young' = Young
  BY DEF Young
<1>2. PICK slot : Placed(slot)
  BY DEF EgressInv, WindowHolds
<1>3. Placed(slot)'
  BY <1>1, <1>2 DEF Placed, Young
<1> QED BY <1>3 DEF EgressInv, WindowHolds

\* Popping old entries from the window leaves the young connections theirs.
LEMMA WindowPopped ==
    ASSUME EgressInv, NEW slot, Placed(slot)
    PROVE  \E new \in [Young -> 1..Len(KeptRecent)] :
               /\ \A c, e \in Young : new[c] = new[e] => c = e
               /\ \A c \in Young : KeptRecent[new[c]] <= tunnel[c].age
<1>1. recent \in Seq(Nat) /\ tunnel \in [Clients -> Tunnels] /\ Minute \in Nat
  BY LimitsAreNumbers DEF EgressInv, EgressTypeOK
<1>2. PICK p \in 0..Len(recent) :
        /\ Len(KeptRecent) = Len(recent) - p
        /\ \A j \in 1..p : recent[j] >= Minute
        /\ \A k \in 1..(Len(recent) - p) : KeptRecent[k] = recent[p + k]
  BY <1>1, KeptFacts
<1>3. Len(recent) \in Nat /\ p \in Nat /\ DOMAIN recent = 1..Len(recent)
  BY <1>1
<1>4. ASSUME NEW c \in Young
      PROVE  /\ slot[c] \in Nat /\ slot[c] - p \in 1..(Len(recent) - p)
             /\ recent[slot[c]] <= tunnel[c].age
  <2>1. slot[c] \in 1..Len(recent) /\ recent[slot[c]] <= tunnel[c].age
    BY <1>3 DEF Placed
  <2>2. recent[slot[c]] \in Nat /\ tunnel[c].age \in Nat /\ tunnel[c].age < Minute
    BY <1>1, <2>1 DEF Young, Tunnels
  <2>3. ~(recent[slot[c]] >= Minute)
    BY <1>1, <2>1, <2>2
  <2>4. slot[c] \notin 1..p
    BY <1>2, <2>3
  <2>5. slot[c] - p \in 1..(Len(recent) - p)
    BY <1>3, <2>1, <2>4
  <2> QED BY <2>1, <2>5
<1> DEFINE new == [c \in Young |-> slot[c] - p]
<1>5. new \in [Young -> 1..Len(KeptRecent)]
  BY <1>2, <1>4
<1>6. ASSUME NEW c \in Young, NEW e \in Young, new[c] = new[e] PROVE c = e
  <2>1. slot[c] - p = slot[e] - p
    BY <1>6
  <2>2. slot[c] = slot[e]
    BY <1>3, <1>4, <2>1
  <2> QED BY <2>2 DEF Placed
<1>7. ASSUME NEW c \in Young PROVE KeptRecent[new[c]] <= tunnel[c].age
  <2>1. p + (slot[c] - p) = slot[c]
    BY <1>3, <1>4
  <2>2. KeptRecent[slot[c] - p] = recent[p + (slot[c] - p)]
    BY <1>2, <1>4
  <2> QED BY <1>4, <2>1, <2>2
<1> QED BY <1>5, <1>6, <1>7

-----------------------------------------------------------------------------
(* Ending a connection.                                                    *)

RowHolds(c) == BytesCounted(tunnel[c], copy[c]) /\ Audited(tunnel[c], audit[c])

\* The rows of the connections a step leaves alone still hold.
LEMMA RowsStay ==
    ASSUME EgressInv, NEW c \in Clients, RowHolds(c)',
           \A x \in Clients \ {c} : /\ tunnel'[x] = tunnel[x] /\ copy'[x] = copy[x]
                                    /\ audit'[x] = audit[x]
    PROVE  \A x \in Clients : RowHolds(x)'
BY DEF EgressInv, RowHolds

\* A denial, before or after the connection was counted: it is audited, gives
\* back its slot if it had one, and has sent nothing.
LEMMA DenyKeeps ==
    ASSUME EgressInv, NEW c \in Clients, NEW counted \in BOOLEAN, Deny(c, counted),
           IF counted THEN tunnel[c].at \in {"head", "resolving", "connecting"}
                      ELSE tunnel[c].at = "new",
           UNCHANGED <<policy, copy>>
    PROVE  /\ tunnel' \in [Clients -> Tunnels] /\ audit' \in [Clients -> Seq(Lines)]
           /\ openTunnels' \in Int /\ SlotsAreReturned'
           /\ \A x \in Clients : RowHolds(x)'
           /\ \A x \in Clients : /\ tunnel'[x].admitted = tunnel[x].admitted
                                 /\ tunnel'[x].age = tunnel[x].age
<1>0. /\ tunnel \in [Clients -> Tunnels] /\ audit \in [Clients -> Seq(Lines)]
      /\ openTunnels \in Int /\ BytesCounted(tunnel[c], copy[c])
      /\ Audited(tunnel[c], audit[c])
  BY DEF EgressInv, EgressTypeOK
<1>1. /\ tunnel' = [tunnel EXCEPT ![c].at = "done"]
      /\ audit' = [audit EXCEPT ![c] = Append(@, [allowed |-> FALSE, bytes |-> 0])]
      /\ openTunnels' = IF counted THEN openTunnels - 1 ELSE openTunnels
  BY DEF Deny
<1>2. tunnel' \in [Clients -> Tunnels]
  BY <1>0, <1>1 DEF Tunnels
<1>3. /\ tunnel'[c].at = "done" /\ tunnel'[c].sent = tunnel[c].sent
      /\ tunnel'[c].up = tunnel[c].up /\ tunnel'[c].down = tunnel[c].down
      /\ tunnel'[c].age = tunnel[c].age /\ tunnel'[c].admitted = tunnel[c].admitted
  BY <1>0, <1>1 DEF Tunnels
<1>4. \A x \in Clients \ {c} : tunnel'[x] = tunnel[x] /\ audit'[x] = audit[x]
  BY <1>0, <1>1
<1>5. audit[c] = <<>> /\ tunnel[c].sent = 0 /\ tunnel[c].at # "pump" /\ tunnel[c].at # "done"
  BY <1>0 DEF BytesCounted, Audited
<1>6. audit'[c] = Append(<<>>, [allowed |-> FALSE, bytes |-> 0])
  BY <1>0, <1>1, <1>5
<1>7. [allowed |-> FALSE, bytes |-> 0] \in Lines
  BY DEF Lines
<1>8. Len(audit'[c]) = 1 /\ audit'[c] \in Seq(Lines)
  BY <1>6, <1>7
<1>9. audit' \in [Clients -> Seq(Lines)]
  BY <1>0, <1>1, <1>4, <1>8
<1>10. SlotsAreReturned'
  <2>1. CASE counted
    <3>1. tunnel[c].at \in Open
      BY <2>1 DEF Open
    <3>2. openTunnels' = openTunnels - 1 /\ \A x \in Clients \ {c} : tunnel'[x].at = tunnel[x].at
      BY <1>1, <1>4, <2>1
    <3> QED BY <1>3, <3>1, <3>2, SlotGivenBack
  <2>2. CASE ~counted
    <3>1. tunnel[c].at \notin Open /\ tunnel'[c].at \notin Open /\ UNCHANGED openTunnels
      BY <1>1, <1>3, <2>2 DEF Open
    <3>2. \A x \in Clients : tunnel'[x].at \in Open <=> tunnel[x].at \in Open
      BY <1>4, <3>1
    <3> QED BY <3>1, <3>2, SlotsStay
  <2> QED BY <2>1, <2>2
<1>11. RowHolds(c)'
  <2>1. BytesCounted(tunnel'[c], copy'[c])
    BY <1>0, <1>3, <1>5 DEF BytesCounted
  <2>2. Audited(tunnel'[c], audit'[c])
    BY <1>3, <1>5, <1>8 DEF Audited
  <2> QED BY <2>1, <2>2 DEF RowHolds
<1>12. \A x \in Clients : RowHolds(x)'
  BY <1>4, <1>11, RowsStay
<1>13. openTunnels' \in Int
  BY <1>0, <1>1
<1>14. \A x \in Clients : /\ tunnel'[x].admitted = tunnel[x].admitted
                          /\ tunnel'[x].age = tunnel[x].age
  BY <1>3, <1>4
<1> QED BY <1>2, <1>9, <1>10, <1>12, <1>13, <1>14

\* So a denial in the tunnel keeps the invariant.
LEMMA DenialKeeps ==
    ASSUME EgressInv, NEW c \in Clients, Deny(c, TRUE),
           tunnel[c].at \in {"head", "resolving", "connecting"},
           UNCHANGED <<policy, copy, recent>>
    PROVE  EgressInv'
<1>1. /\ tunnel' \in [Clients -> Tunnels] /\ audit' \in [Clients -> Seq(Lines)]
      /\ openTunnels' \in Int /\ SlotsAreReturned'
      /\ \A x \in Clients : RowHolds(x)'
      /\ \A x \in Clients : /\ tunnel'[x].admitted = tunnel[x].admitted
                            /\ tunnel'[x].age = tunnel[x].age
  <2>1. TRUE \in BOOLEAN
    OBVIOUS
  <2> QED BY <2>1, DenyKeeps
<1>2. WindowHolds'
  BY <1>1, WindowStays
<1>3. EgressTypeOK'
  BY <1>1 DEF EgressInv, EgressTypeOK
<1> QED BY <1>1, <1>2, <1>3 DEF EgressInv, RowHolds

\* handle, up to the await: refused by either limit, or counted and given a
\* place at the right end of the window.
LEMMA ArriveKeeps ==
    ASSUME EgressInv, NEW c \in Clients, Arrive(c), UNCHANGED policy
    PROVE  EgressInv'
<1>0. /\ EgressTypeOK /\ tunnel[c].at = "new" /\ UNCHANGED copy
      /\ tunnel \in [Clients -> Tunnels] /\ audit \in [Clients -> Seq(Lines)]
      /\ openTunnels \in Int /\ recent \in Seq(Nat)
      /\ policy.connections \in Nat /\ policy.perMinute \in Nat
  BY DEF EgressInv, EgressTypeOK, Arrive
<1>a. FALSE \in BOOLEAN
  OBVIOUS
<1>b. PICK slot : Placed(slot)
  BY DEF EgressInv, WindowHolds
<1>c. KeptRecent \in Seq(Nat) /\ Len(KeptRecent) <= Len(recent)
  BY <1>0, KeptFacts
<1>d. PICK new \in [Young -> 1..Len(KeptRecent)] :
          /\ \A x, e \in Young : new[x] = new[e] => x = e
          /\ \A x \in Young : KeptRecent[new[x]] <= tunnel[x].age
  BY <1>b, WindowPopped
<1>1. CASE Deny(c, FALSE) /\ recent' \in {recent, KeptRecent}
  <2>1. /\ tunnel' \in [Clients -> Tunnels] /\ audit' \in [Clients -> Seq(Lines)]
        /\ openTunnels' \in Int /\ SlotsAreReturned'
        /\ \A x \in Clients : RowHolds(x)'
        /\ \A x \in Clients : /\ tunnel'[x].admitted = tunnel[x].admitted
                              /\ tunnel'[x].age = tunnel[x].age
    BY <1>0, <1>1, <1>a, DenyKeeps
  <2>2. EgressTypeOK'
    BY <1>0, <1>1, <1>c, <2>1 DEF EgressTypeOK
  <2>3. WindowHolds'
    <3>1. CASE recent' = recent
      BY <2>1, <3>1, WindowStays
    <3>2. CASE recent' = KeptRecent
      <4>1. Young' = Young
        BY <2>1 DEF Young
      <4>2. DOMAIN recent' = 1..Len(KeptRecent)
        BY <1>c, <3>2
      <4>3. Placed(new)'
        BY <1>d, <2>1, <3>2, <4>1, <4>2 DEF Placed, Young
      <4>4. Len(recent') <= policy'.perMinute
        <5>1. Len(recent) <= policy.perMinute
          BY DEF EgressInv, WindowHolds
        <5> QED BY <1>0, <1>c, <3>2, <5>1
      <4> QED BY <4>3, <4>4 DEF WindowHolds
    <3> QED BY <1>1, <3>1, <3>2
  <2> QED BY <2>1, <2>2, <2>3 DEF EgressInv, RowHolds
<1>2. CASE /\ openTunnels < policy.connections /\ Len(KeptRecent) < policy.perMinute
           /\ recent' = Append(KeptRecent, 0) /\ openTunnels' = openTunnels + 1
           /\ tunnel' = [tunnel EXCEPT ![c].at = "head", ![c].admitted = TRUE]
           /\ UNCHANGED audit
  <2>1. tunnel' \in [Clients -> Tunnels]
    <3> DEFINE row == [tunnel[c] EXCEPT !.at = "head", !.admitted = TRUE]
    <3>1. tunnel[c] \in Tunnels
      BY <1>0
    <3>2. row \in Tunnels
      BY ONLY <3>1 DEF Tunnels, Open
    <3>3. tunnel' = [tunnel EXCEPT ![c] = row]
      BY <1>0, <1>2
    <3> HIDE DEF row
    <3> QED BY <1>0, <3>2, <3>3
  <2>2. /\ tunnel'[c].at = "head" /\ tunnel'[c].sent = tunnel[c].sent
        /\ tunnel'[c].up = tunnel[c].up /\ tunnel'[c].down = tunnel[c].down
        /\ tunnel'[c].age = tunnel[c].age
    BY <1>0, <1>2 DEF Tunnels
  <2>3. \A x \in Clients \ {c} : tunnel'[x] = tunnel[x]
    BY <1>0, <1>2
  <2>4. /\ Len(recent') = Len(KeptRecent) + 1 /\ recent' \in Seq(Nat)
        /\ recent'[Len(KeptRecent) + 1] = 0
        /\ \A k \in 1..Len(KeptRecent) : recent'[k] = KeptRecent[k]
    BY <1>2, <1>c, AppendProperties
  <2>5. EgressTypeOK'
    BY <1>0, <1>2, <2>1, <2>4 DEF EgressTypeOK
  <2>6. SlotsAreReturned'
    <3>1. IsFiniteSet(OpenClients)
      BY ConnectionsAreFinite, FS_Subset DEF OpenClients
    <3>2. OpenClients' = OpenClients \cup {c} /\ c \notin OpenClients
      BY <1>0, <2>2, <2>3 DEF OpenClients, Open
    <3>3. Cardinality(OpenClients') = Cardinality(OpenClients) + 1
      BY <3>1, <3>2, FS_AddElement
    <3>4. openTunnels = Cardinality(OpenClients)
      BY DEF EgressInv, SlotsAreReturned, OpenClients
    <3>5. openTunnels' = Cardinality(OpenClients')
      BY <1>2, <3>3, <3>4
    <3>6. openTunnels' <= policy'.connections
      BY <1>0, <1>2
    <3> QED BY <3>5, <3>6 DEF SlotsAreReturned, OpenClients
  <2>7. WindowHolds'
    <3> DEFINE last == Len(KeptRecent) + 1
               place == [x \in Young' |-> IF x = c THEN last ELSE new[x]]
    <3>0. last \in Nat /\ DOMAIN recent' = 1..last /\ last = Len(recent')
      BY <1>c, <2>4
    <3>1. \A x \in Young' : x # c => x \in Young
      BY <2>3 DEF Young
    <3>2. \A x \in Young' : x # c => /\ place[x] = new[x] /\ new[x] \in 1..Len(KeptRecent)
                                     /\ new[x] # last
      BY <1>c, <1>d, <3>1
    <3>3. place \in [Young' -> 1..last]
      <4>1. \A x \in Young' : place[x] \in 1..last
        BY <1>c, <3>0, <3>2
      <4> QED BY <4>1
    <3>4. ASSUME NEW x \in Young', NEW e \in Young', place[x] = place[e] PROVE x = e
      <4>1. CASE x = c \/ e = c
        BY <3>2, <3>4, <4>1
      <4>2. CASE x # c /\ e # c
        BY <1>d, <3>1, <3>2, <3>4, <4>2
      <4> QED BY <4>1, <4>2
    <3>5. ASSUME NEW x \in Young' PROVE recent'[place[x]] <= tunnel'[x].age
      <4>1. CASE x = c
        <5>1. tunnel'[x].age \in Nat /\ recent'[place[x]] = 0
          BY <2>1, <2>4, <4>1 DEF Tunnels
        <5> QED BY <5>1
      <4>2. CASE x # c
        <5>1. x \in Young /\ place[x] = new[x] /\ new[x] \in 1..Len(KeptRecent)
          BY <3>1, <3>2, <4>2
        <5>2. recent'[place[x]] = KeptRecent[new[x]]
          BY <2>4, <5>1
        <5>3. tunnel'[x] = tunnel[x]
          BY <2>3, <4>2 DEF Young
        <5> QED BY <1>d, <5>1, <5>2, <5>3
      <4> QED BY <4>1, <4>2
    <3> HIDE DEF place
    <3>6. PICK found : found = place
      OBVIOUS
    <3>7. Placed(found)'
      BY <3>0, <3>3, <3>4, <3>5, <3>6 DEF Placed
    <3>8. Len(recent') <= policy'.perMinute
      BY <1>0, <1>2, <1>c, <2>4
    <3> QED BY <3>7, <3>8 DEF WindowHolds
  <2>8. RowHolds(c)'
    <3>1. BytesCounted(tunnel[c], copy[c]) /\ Audited(tunnel[c], audit[c])
      BY DEF EgressInv
    <3> QED BY <1>0, <1>2, <2>2, <3>1 DEF RowHolds, BytesCounted, Audited
  <2>9. \A x \in Clients : RowHolds(x)'
    BY <1>0, <1>2, <2>3, <2>8, RowsStay
  <2> QED BY <2>5, <2>6, <2>7, <2>9 DEF EgressInv, RowHolds
<1> QED BY <1>1, <1>2 DEF Arrive

-----------------------------------------------------------------------------
(* _tunnel, up to the pump, and the pump.                                  *)

\* A step of one open connection that leaves it open, with what it needs to
\* keep the invariant: the types, and the row of the connection.
LEMMA OpenStep ==
    ASSUME EgressInv, NEW c \in Clients,
           NEW t \in Tunnels, NEW cp \in Copies,
           tunnel' = [tunnel EXCEPT ![c] = t], copy' = [copy EXCEPT ![c] = cp],
           UNCHANGED <<policy, openTunnels, recent, audit>>,
           tunnel[c].at \in Open, t.at \in Open,
           t.admitted = tunnel[c].admitted, t.age = tunnel[c].age,
           BytesCounted(t, cp)
    PROVE  EgressInv'
<1>0. EgressTypeOK /\ tunnel \in [Clients -> Tunnels] /\ copy \in [Clients -> Copies]
  BY DEF EgressInv, EgressTypeOK
<1>1. /\ tunnel' \in [Clients -> Tunnels] /\ copy' \in [Clients -> Copies]
      /\ tunnel'[c] = t /\ copy'[c] = cp
      /\ \A x \in Clients \ {c} : tunnel'[x] = tunnel[x] /\ copy'[x] = copy[x]
  BY <1>0
<1>2. EgressTypeOK'
  BY <1>0, <1>1 DEF EgressTypeOK
<1>3. SlotsAreReturned'
  <2>1. \A x \in Clients : tunnel'[x].at \in Open <=> tunnel[x].at \in Open
    BY <1>1
  <2> QED BY <2>1, SlotsStay
<1>4. WindowHolds'
  <2>1. \A x \in Clients : /\ tunnel'[x].admitted = tunnel[x].admitted
                           /\ tunnel'[x].age = tunnel[x].age
    BY <1>1
  <2> QED BY <2>1, WindowStays
<1>5. RowHolds(c)'
  <2>1. tunnel[c].at # "done" /\ t.at # "done"
    BY DEF Open
  <2>2. Audited(tunnel[c], audit[c])
    BY DEF EgressInv
  <2>3. Audited(tunnel'[c], audit'[c])
    BY <1>1, <2>1, <2>2 DEF Audited
  <2> QED BY <1>1, <2>3 DEF RowHolds
<1>6. \A x \in Clients : RowHolds(x)'
  BY <1>1, <1>5, RowsStay
<1> QED BY <1>2, <1>3, <1>4, <1>6 DEF EgressInv, RowHolds

\* A connection closed without a byte gives back its slot and has sent nothing.
LEMMA UnheardKeeps ==
    ASSUME EgressInv, NEW c \in Clients, tunnel[c].at = "head", LeaveUnheard(c),
           UNCHANGED <<policy, copy, recent>>
    PROVE  EgressInv'
<1>0. /\ EgressTypeOK /\ tunnel \in [Clients -> Tunnels] /\ openTunnels \in Int
      /\ BytesCounted(tunnel[c], copy[c]) /\ Audited(tunnel[c], audit[c])
  BY DEF EgressInv, EgressTypeOK
<1>1. /\ tunnel' = [tunnel EXCEPT ![c].at = "done"]
      /\ openTunnels' = openTunnels - 1 /\ UNCHANGED audit
  BY DEF LeaveUnheard
<1>2. tunnel' \in [Clients -> Tunnels]
  BY <1>0, <1>1 DEF Tunnels
<1>3. /\ tunnel'[c].at = "done" /\ tunnel'[c].sent = tunnel[c].sent
      /\ tunnel'[c].up = tunnel[c].up /\ tunnel'[c].down = tunnel[c].down
      /\ tunnel'[c].age = tunnel[c].age /\ tunnel'[c].admitted = tunnel[c].admitted
      /\ \A x \in Clients \ {c} : tunnel'[x] = tunnel[x]
  BY <1>0, <1>1 DEF Tunnels
<1>4. EgressTypeOK'
  BY <1>0, <1>1, <1>2 DEF EgressTypeOK
<1>5. SlotsAreReturned'
  BY <1>1, <1>3, SlotGivenBack DEF Open
<1>6. WindowHolds'
  <2>1. \A x \in Clients : /\ tunnel'[x].admitted = tunnel[x].admitted
                           /\ tunnel'[x].age = tunnel[x].age
    BY <1>3
  <2> QED BY <2>1, WindowStays
<1>7. audit[c] = <<>> /\ tunnel[c].sent = 0
  BY <1>0 DEF BytesCounted, Audited
<1>8. RowHolds(c)'
  <2>1. BytesCounted(tunnel'[c], copy'[c])
    BY <1>0, <1>3, <1>7 DEF BytesCounted
  <2>2. Audited(tunnel'[c], audit'[c])
    BY <1>0, <1>1, <1>3, <1>7 DEF Audited
  <2> QED BY <2>1, <2>2 DEF RowHolds
<1>9. \A x \in Clients : RowHolds(x)'
  BY <1>1, <1>3, <1>8, RowsStay
<1> QED BY <1>4, <1>5, <1>6, <1>9 DEF EgressInv, RowHolds

\* The connection goes on to the next await.
LEMMA GoesKeeps ==
    ASSUME EgressInv, NEW c \in Clients, tunnel[c].at \in {"head", "resolving"},
           NEW at \in {"resolving", "connecting"}, Goes(c, at),
           UNCHANGED <<policy, copy, openTunnels, recent, audit>>
    PROVE  EgressInv'
<1> DEFINE t == [tunnel[c] EXCEPT !.at = at, !.wait = 0]
<1>0. /\ tunnel \in [Clients -> Tunnels] /\ copy \in [Clients -> Copies]
      /\ BytesCounted(tunnel[c], copy[c])
  BY DEF EgressInv, EgressTypeOK
<1>1. tunnel' = [tunnel EXCEPT ![c] = t]
  BY <1>0 DEF Goes
<1>2. /\ t \in Tunnels /\ t.at = at /\ t.admitted = tunnel[c].admitted
      /\ t.age = tunnel[c].age /\ t.sent = tunnel[c].sent
      /\ t.up = tunnel[c].up /\ t.down = tunnel[c].down
  BY <1>0 DEF Tunnels, Open
<1>3. copy' = [copy EXCEPT ![c] = copy[c]] /\ copy[c] \in Copies
  BY <1>0
<1> HIDE DEF t
<1>4. BytesCounted(t, copy[c])
  BY <1>0, <1>2 DEF BytesCounted
<1>5. tunnel[c].at \in Open /\ t.at \in Open
  BY <1>2 DEF Open
<1> QED BY <1>1, <1>2, <1>3, <1>4, <1>5, OpenStep

\* The upstream is connected: two copying tasks start.
LEMMA ConnectKeeps ==
    ASSUME EgressInv, NEW c \in Clients, Connect(c), UNCHANGED policy
    PROVE  EgressInv'
<1>1. CASE Deny(c, TRUE) /\ UNCHANGED copy
  BY <1>1, DenialKeeps DEF Connect
<1>2. CASE /\ Goes(c, "pump") /\ UNCHANGED <<openTunnels, audit>>
           /\ copy' = [copy EXCEPT ![c] = [d \in Directions |-> [at |-> "reading", idle |-> 0]]]
  <2> DEFINE t == [tunnel[c] EXCEPT !.at = "pump", !.wait = 0]
             cp == [d \in Directions |-> [at |-> "reading", idle |-> 0]]
  <2>0. /\ tunnel \in [Clients -> Tunnels] /\ copy \in [Clients -> Copies]
        /\ BytesCounted(tunnel[c], copy[c]) /\ tunnel[c].at = "connecting"
        /\ UNCHANGED recent
    BY DEF EgressInv, EgressTypeOK, Connect
  <2>1. /\ tunnel' = [tunnel EXCEPT ![c] = t] /\ copy' = [copy EXCEPT ![c] = cp]
        /\ UNCHANGED <<openTunnels, audit>>
    BY <1>2, <2>0 DEF Goes
  <2>2. /\ t \in Tunnels /\ t.at = "pump" /\ t.admitted = tunnel[c].admitted
        /\ t.age = tunnel[c].age /\ t.sent = tunnel[c].sent
        /\ t.up = tunnel[c].up /\ t.down = tunnel[c].down
    BY <2>0 DEF Tunnels, Open
  <2>3. cp \in Copies
    BY DEF Copies
  <2> HIDE DEF t, cp
  <2>4. BytesCounted(t, cp)
    BY <2>0, <2>2 DEF BytesCounted
  <2>5. tunnel[c].at \in Open /\ t.at \in Open
    BY <2>0, <2>2 DEF Open
  <2> QED BY <2>0, <2>1, <2>2, <2>3, <2>4, <2>5, OpenStep
<1> QED BY <1>1, <1>2 DEF Connect

\* What a copying task does keeps the pump's row: a chunk that would go over
\* the limit is counted and not sent.
LEMMA CopyKeeps ==
    ASSUME EgressInv, NEW c \in Clients, NEW d \in Directions,
           Chunk(c, d) \/ Drained(c, d) \/ CopyEnds(c, d), UNCHANGED policy
    PROVE  EgressInv'
<1>0. /\ tunnel \in [Clients -> Tunnels] /\ copy \in [Clients -> Copies]
      /\ BytesCounted(tunnel[c], copy[c]) /\ TunnelBytes \in Nat
  BY LimitsAreNumbers DEF EgressInv, EgressTypeOK
<1>1. /\ tunnel[c].up \in Nat /\ tunnel[c].down \in Nat /\ tunnel[c].sent \in Nat
      /\ tunnel[c].sent <= tunnel[c].up + tunnel[c].down
      /\ tunnel[c].sent <= TunnelBytes
  BY <1>0 DEF Tunnels, BytesCounted
<1>2. tunnel[c].at = "pump"
  BY <1>0 DEF BytesCounted, Chunk, Drained, CopyEnds
<1>3. ASSUME NEW at \in {"reading", "draining", "ended"}, CopyGoes(c, d, at),
             NEW t \in Tunnels, tunnel' = [tunnel EXCEPT ![c] = t], t.at = "pump",
             t.admitted = tunnel[c].admitted, t.age = tunnel[c].age,
             t.sent <= t.up + t.down, t.sent <= TunnelBytes
      PROVE  EgressInv'
  <2> DEFINE cp == [copy[c] EXCEPT ![d] = [at |-> at, idle |-> 0]]
  <2>1. copy' = [copy EXCEPT ![c] = cp] /\ UNCHANGED <<openTunnels, recent, audit>>
    BY <1>0, <1>3 DEF CopyGoes
  <2>2. cp \in Copies
    BY <1>0 DEF Copies
  <2> HIDE DEF cp
  <2>3. BytesCounted(t, cp)
    BY <1>3 DEF BytesCounted
  <2>4. tunnel[c].at \in Open /\ t.at \in Open
    BY <1>2, <1>3 DEF Open
  <2> QED BY <1>3, <2>1, <2>2, <2>3, <2>4, OpenStep
<1>4. CASE Drained(c, d) \/ CopyEnds(c, d)
  <2>1. UNCHANGED tunnel /\ (CopyGoes(c, d, "ended") \/ CopyGoes(c, d, "reading"))
    BY <1>4 DEF Drained, CopyEnds
  <2>2. tunnel' = [tunnel EXCEPT ![c] = tunnel[c]] /\ tunnel[c] \in Tunnels
    BY <1>0, <2>1
  <2> QED BY <1>1, <1>2, <1>3, <2>1, <2>2
<1>5. CASE Chunk(c, d)
  <2> DEFINE counted == [tunnel[c] EXCEPT ![d] = @ + 1]
             sent == [counted EXCEPT !.sent = @ + 1]
  <2>1. /\ counted \in Tunnels /\ counted.at = "pump" /\ counted.age = tunnel[c].age
        /\ counted.admitted = tunnel[c].admitted /\ counted.sent = tunnel[c].sent
        /\ counted.up + counted.down = tunnel[c].up + tunnel[c].down + 1
    <3>0. tunnel[c] \in Tunnels
      BY <1>0
    <3>1. CASE d = "up"
      <4>1. counted = [tunnel[c] EXCEPT !.up = tunnel[c].up + 1]
        BY ONLY <3>0, <3>1 DEF Tunnels
      <4> HIDE DEF counted
      <4> QED BY ONLY <1>1, <1>2, <3>0, <4>1 DEF Tunnels
    <3>2. CASE d = "down"
      <4>1. counted = [tunnel[c] EXCEPT !.down = tunnel[c].down + 1]
        BY ONLY <3>0, <3>2 DEF Tunnels
      <4> HIDE DEF counted
      <4> QED BY ONLY <1>1, <1>2, <3>0, <4>1 DEF Tunnels
    <3> QED BY <3>1, <3>2 DEF Directions
  <2>2. /\ sent \in Tunnels /\ sent.at = "pump" /\ sent.age = tunnel[c].age
        /\ sent.admitted = tunnel[c].admitted /\ sent.sent = tunnel[c].sent + 1
        /\ sent.up + sent.down = tunnel[c].up + tunnel[c].down + 1
    <3> HIDE DEF counted
    <3>1. /\ sent \in Tunnels /\ sent.at = counted.at /\ sent.age = counted.age
          /\ sent.admitted = counted.admitted /\ sent.sent = counted.sent + 1
          /\ sent.up = counted.up /\ sent.down = counted.down
      BY <1>1, <2>1 DEF Tunnels
    <3> QED BY <2>1, <3>1
  <2>3. CASE tunnel[c].up + tunnel[c].down + 1 > TunnelBytes
    <3>1. tunnel' = [tunnel EXCEPT ![c] = counted] /\ CopyGoes(c, d, "ended")
      BY <1>0, <1>5, <2>3 DEF Chunk
    <3> HIDE DEF counted
    <3>2. counted.sent <= counted.up + counted.down
      BY <1>1, <2>1
    <3> QED BY <1>1, <1>3, <2>1, <3>1, <3>2
  <2>4. CASE ~(tunnel[c].up + tunnel[c].down + 1 > TunnelBytes)
    <3>1. tunnel' = [tunnel EXCEPT ![c] = sent] /\ CopyGoes(c, d, "draining")
      <4>1. /\ tunnel' = [tunnel EXCEPT ![c][d] = @ + 1, ![c].sent = @ + 1]
            /\ CopyGoes(c, d, "draining")
        BY <1>5, <2>4 DEF Chunk
      <4>2. CASE d = "up"
        BY <1>0, <4>1, <4>2 DEF Tunnels
      <4>3. CASE d = "down"
        BY <1>0, <4>1, <4>3 DEF Tunnels
      <4> QED BY <4>2, <4>3 DEF Directions
    <3> HIDE DEF sent
    <3>2. sent.sent <= sent.up + sent.down
      BY <1>1, <2>2
    <3>3. sent.sent <= TunnelBytes
      BY <1>0, <1>1, <2>2, <2>4
    <3> QED BY <1>3, <2>2, <3>1, <3>2, <3>3
  <2> QED BY <2>3, <2>4
<1> QED BY <1>4, <1>5

\* The end of a pump: audited as allowed, with the bytes its tasks counted.
LEMMA SettleKeeps ==
    ASSUME EgressInv, NEW c \in Clients, Settle(c), UNCHANGED policy
    PROVE  EgressInv'
<1> DEFINE line == [allowed |-> TRUE, bytes |-> tunnel[c].up + tunnel[c].down]
<1>0. /\ EgressTypeOK /\ tunnel \in [Clients -> Tunnels] /\ copy \in [Clients -> Copies]
      /\ audit \in [Clients -> Seq(Lines)] /\ openTunnels \in Int
      /\ BytesCounted(tunnel[c], copy[c]) /\ Audited(tunnel[c], audit[c])
  BY DEF EgressInv, EgressTypeOK
<1>1. /\ tunnel[c].at = "pump"
      /\ tunnel' = [tunnel EXCEPT ![c].at = "done"]
      /\ copy' = [copy EXCEPT ![c] = NoCopy]
      /\ audit' = [audit EXCEPT ![c] = Append(@, line)]
      /\ openTunnels' = openTunnels - 1 /\ UNCHANGED recent
  BY DEF Settle
<1>2. /\ tunnel[c].up \in Nat /\ tunnel[c].down \in Nat /\ tunnel[c].sent \in Nat
      /\ tunnel[c].sent <= tunnel[c].up + tunnel[c].down /\ audit[c] = <<>>
  BY <1>0, <1>1 DEF Tunnels, BytesCounted, Audited
<1>3. line \in Lines /\ line.allowed = TRUE /\ line.bytes >= tunnel[c].sent
  BY <1>2 DEF Lines
<1> HIDE DEF line
<1>4. /\ tunnel' \in [Clients -> Tunnels]
      /\ \A x \in Clients \ {c} : tunnel'[x] = tunnel[x]
  BY <1>0, <1>1 DEF Tunnels
<1>5. /\ tunnel'[c].at = "done" /\ tunnel'[c].sent = tunnel[c].sent
      /\ tunnel'[c].up = tunnel[c].up /\ tunnel'[c].down = tunnel[c].down
      /\ tunnel'[c].age = tunnel[c].age /\ tunnel'[c].admitted = tunnel[c].admitted
  BY <1>0, <1>1 DEF Tunnels
<1>6. NoCopy \in Copies /\ \A d \in Directions : NoCopy[d].at = "none"
  BY DEF NoCopy, Copies
<1>7. /\ copy' \in [Clients -> Copies] /\ copy'[c] = NoCopy
      /\ \A x \in Clients \ {c} : copy'[x] = copy[x] /\ audit'[x] = audit[x]
  BY <1>0, <1>1, <1>6
<1>8. audit'[c] = Append(<<>>, line)
  BY <1>0, <1>1, <1>2
<1>9. /\ audit'[c] \in Seq(Lines) /\ Len(audit'[c]) = 1 /\ audit'[c] # <<>>
      /\ audit'[c][1] = line
  BY <1>3, <1>8
<1>10. audit' \in [Clients -> Seq(Lines)]
  BY <1>0, <1>1, <1>7, <1>9
<1>11. EgressTypeOK'
  BY <1>0, <1>1, <1>4, <1>7, <1>10 DEF EgressTypeOK
<1>12. SlotsAreReturned'
  BY <1>1, <1>4, <1>5, SlotGivenBack DEF Open
<1>13. WindowHolds'
  <2>1. \A x \in Clients : /\ tunnel'[x].admitted = tunnel[x].admitted
                           /\ tunnel'[x].age = tunnel[x].age
    BY <1>4, <1>5
  <2> QED BY <1>1, <2>1, WindowStays
<1>14. RowHolds(c)'
  <2>1. BytesCounted(tunnel'[c], copy'[c])
    BY <1>0, <1>1, <1>5, <1>6, <1>7 DEF BytesCounted
  <2>2. Audited(tunnel'[c], audit'[c])
    BY <1>3, <1>5, <1>9 DEF Audited
  <2> QED BY <2>1, <2>2 DEF RowHolds
<1>15. \A x \in Clients : RowHolds(x)'
  BY <1>4, <1>7, <1>14, RowsStay
<1> QED BY <1>11, <1>12, <1>13, <1>15 DEF EgressInv, RowHolds

-----------------------------------------------------------------------------
(* The clock.                                                              *)

\* Ages grow, and up to the limit they grow together.
LEMMA OlderFacts ==
    ASSUME NEW age \in Nat, NEW most \in Nat
    PROVE  /\ Older(age, most) \in Nat /\ age <= Older(age, most)
           /\ age < most => Older(age, most) = age + 1
           /\ Older(age, most) <= age + 1
BY DEF Older

\* A tick makes the window and the young connections in it older together, so
\* each keeps its place or is young no more.
LEMMA TickKeeps ==
    ASSUME EgressInv, Tick, UNCHANGED policy
    PROVE  EgressInv'
<1> DEFINE old == Max({Minute, Lifetime})
           late == Max({HeaderTime, ConnectTime})
<1>0. /\ EgressTypeOK /\ tunnel \in [Clients -> Tunnels] /\ copy \in [Clients -> Copies]
      /\ recent \in Seq(Nat) /\ UNCHANGED <<openTunnels, audit>> /\ Minute \in Nat
      /\ IdleTime \in Nat
      /\ \A x \in Clients : BytesCounted(tunnel[x], copy[x]) /\ Audited(tunnel[x], audit[x])
  BY LimitsAreNumbers DEF EgressInv, EgressTypeOK, Tick
<1>1. old \in Nat /\ Minute <= old /\ late \in Nat
  BY LimitsAreNumbers, MaxOfTwo
<1>2. /\ \A x \in Clients : tunnel'[x] =
            IF tunnel[x].at = "new" THEN tunnel[x]
            ELSE [tunnel[x] EXCEPT !.age = Older(@, old), !.wait = Older(@, late)]
      /\ DOMAIN tunnel' = Clients /\ tunnel' = [x \in Clients |-> tunnel'[x]]
  BY DEF Tick
<1> HIDE DEF old, late
<1>3. ASSUME NEW x \in Clients
      PROVE  /\ tunnel'[x] \in Tunnels /\ tunnel'[x].at = tunnel[x].at
             /\ tunnel'[x].admitted = tunnel[x].admitted
             /\ tunnel'[x].up = tunnel[x].up /\ tunnel'[x].down = tunnel[x].down
             /\ tunnel'[x].sent = tunnel[x].sent
             /\ tunnel[x].at # "new" => tunnel'[x].age = Older(tunnel[x].age, old)
  <2>1. tunnel[x].age \in Nat /\ tunnel[x].wait \in Nat /\ tunnel[x] \in Tunnels
    BY <1>0 DEF Tunnels
  <2>2. Older(tunnel[x].age, old) \in Nat /\ Older(tunnel[x].wait, late) \in Nat
    BY <1>1, <2>1, OlderFacts
  <2>3. CASE tunnel[x].at = "new"
    BY <1>2, <2>1, <2>3
  <2>4. CASE tunnel[x].at # "new"
    <3> DEFINE a == Older(tunnel[x].age, old)
               w == Older(tunnel[x].wait, late)
    <3>1. a \in Nat /\ w \in Nat
      BY <2>2
    <3>2. tunnel'[x] = [tunnel[x] EXCEPT !.age = a, !.wait = w]
      BY <1>2, <2>1, <2>4
    <3> HIDE DEF a, w
    <3>3. /\ tunnel'[x] \in Tunnels /\ tunnel'[x].at = tunnel[x].at
          /\ tunnel'[x].admitted = tunnel[x].admitted
          /\ tunnel'[x].up = tunnel[x].up /\ tunnel'[x].down = tunnel[x].down
          /\ tunnel'[x].sent = tunnel[x].sent /\ tunnel'[x].age = a
      BY ONLY <2>1, <3>1, <3>2 DEF Tunnels
    <3> QED BY <3>3 DEF a
  <2> QED BY <2>3, <2>4
<1>4. tunnel' \in [Clients -> Tunnels]
  BY <1>2, <1>3
<1>5. ASSUME NEW x \in Clients
      PROVE  copy'[x] \in Copies /\ \A d \in Directions : copy'[x][d].at = copy[x][d].at
  <2>1. copy'[x] = [d \in Directions |->
            IF copy[x][d].at = "reading" THEN [copy[x][d] EXCEPT !.idle = Older(@, IdleTime)]
            ELSE copy[x][d]]
    BY DEF Tick
  <2>2. ASSUME NEW d \in Directions
        PROVE  /\ copy[x][d] \in [at : {"none", "reading", "draining", "ended"}, idle : Nat]
               /\ Older(copy[x][d].idle, IdleTime) \in Nat
    <3>1. copy[x][d] \in [at : {"none", "reading", "draining", "ended"}, idle : Nat]
      BY <1>0 DEF Copies
    <3> QED BY <1>0, <3>1, OlderFacts
  <2> QED BY <2>1, <2>2 DEF Copies
<1>6. copy' \in [Clients -> Copies]
  <2>1. copy' = [x \in Clients |-> copy'[x]]
    BY DEF Tick
  <2> QED BY <1>5, <2>1
<1>7. /\ recent' \in Seq(Nat) /\ Len(recent') = Len(recent) /\ DOMAIN recent' = DOMAIN recent
      /\ \A k \in DOMAIN recent : recent'[k] = Older(recent[k], Minute) /\ recent[k] \in Nat
  <2>0. Len(recent) \in Nat /\ DOMAIN recent = 1..Len(recent)
        /\ \A k \in 1..Len(recent) : recent[k] \in Nat
    BY <1>0
  <2>1. recent' = [k \in 1..Len(recent) |-> Older(recent[k], Minute)]
    <3>1. recent' = [k \in DOMAIN recent |-> Older(recent[k], Minute)]
      BY DEF Tick
    <3> QED BY <2>0, <3>1
  <2>2. \A k \in 1..Len(recent) : recent[k] \in Nat /\ Older(recent[k], Minute) \in Nat
    BY <1>0, <2>0, OlderFacts
  <2>3. recent' \in [1..Len(recent) -> Nat]
    BY <2>1, <2>2
  <2> QED BY <2>0, <2>1, <2>2, <2>3
<1>8. EgressTypeOK'
  BY <1>0, <1>4, <1>6, <1>7 DEF EgressTypeOK
<1>9. SlotsAreReturned'
  BY <1>0, <1>3, SlotsStay
<1>10. WindowHolds'
  <2>1. PICK slot : Placed(slot)
    BY DEF EgressInv, WindowHolds
  <2>2. ASSUME NEW x \in Young'
        PROVE  /\ x \in Young /\ tunnel[x].age \in Nat /\ tunnel[x].age < Minute
               /\ tunnel'[x].age = tunnel[x].age + 1
    <3>1. x \in Clients /\ tunnel[x].admitted /\ tunnel'[x].age < Minute
          /\ tunnel'[x].age \in Nat /\ tunnel[x].age \in Nat
      BY <1>0, <1>3 DEF Young, Tunnels
    <3>2. tunnel[x].at # "new"
      BY <1>0, <3>1 DEF BytesCounted
    <3>3. tunnel'[x].age = Older(tunnel[x].age, old)
      BY <1>3, <3>1, <3>2
    <3>4. tunnel[x].age <= tunnel'[x].age
      BY <1>1, <3>1, <3>3, OlderFacts
    <3>5. tunnel[x].age < Minute /\ tunnel[x].age < old
      BY <1>0, <1>1, <3>1, <3>4
    <3>6. tunnel'[x].age = tunnel[x].age + 1
      BY <1>1, <3>1, <3>3, <3>5, OlderFacts
    <3> QED BY <3>1, <3>5, <3>6 DEF Young
  <2> DEFINE place == [x \in Young' |-> slot[x]]
  <2>3. place \in [Young' -> DOMAIN recent']
    BY <1>7, <2>1, <2>2 DEF Placed
  <2>4. \A x, e \in Young' : place[x] = place[e] => x = e
    BY <2>1, <2>2 DEF Placed
  <2>5. ASSUME NEW x \in Young' PROVE recent'[place[x]] <= tunnel'[x].age
    <3>1. slot[x] \in DOMAIN recent /\ recent[slot[x]] <= tunnel[x].age
      BY <2>1, <2>2 DEF Placed
    <3>2. recent[slot[x]] \in Nat /\ recent'[slot[x]] = Older(recent[slot[x]], Minute)
      BY <1>7, <3>1
    <3>3. recent'[slot[x]] <= recent[slot[x]] + 1 /\ recent'[slot[x]] \in Nat
      BY <1>0, <3>2, OlderFacts
    <3> QED BY <2>2, <3>1, <3>2, <3>3
  <2> HIDE DEF place
  <2>6. PICK found : found = place
    OBVIOUS
  <2>7. Placed(found)'
    BY <2>3, <2>4, <2>5, <2>6 DEF Placed
  <2>8. Len(recent') <= policy'.perMinute
    BY <1>7 DEF EgressInv, WindowHolds
  <2> QED BY <2>7, <2>8 DEF WindowHolds
<1>11. ASSUME NEW x \in Clients PROVE BytesCounted(tunnel'[x], copy'[x]) /\ Audited(tunnel'[x], audit'[x])
  <2>1. BytesCounted(tunnel'[x], copy'[x])
    BY <1>0, <1>3, <1>5 DEF BytesCounted
  <2>2. Audited(tunnel'[x], audit'[x])
    BY <1>0, <1>3 DEF Audited
  <2> QED BY <2>1, <2>2
<1> QED BY <1>8, <1>9, <1>10, <1>11 DEF EgressInv

-----------------------------------------------------------------------------
(* Theorems.                                                               *)

\* The proxy starts with no connection.
LEMMA EgressInvInit == EgressInit => EgressInv
<1> SUFFICES ASSUME EgressInit PROVE EgressInv
  OBVIOUS
<1>1. /\ policy \in [connections : Nat, perMinute : Nat]
      /\ openTunnels = 0 /\ recent = <<>>
  <2>1. 1..MostLimit \subseteq Nat
    BY LimitsAreNumbers
  <2> QED BY <2>1 DEF EgressInit
<1>2. \A c \in Clients :
        /\ tunnel[c] = [at |-> "new", admitted |-> FALSE, age |-> 0, wait |-> 0,
                        up |-> 0, down |-> 0, sent |-> 0]
        /\ copy[c] = NoCopy /\ audit[c] = <<>>
  BY DEF EgressInit
<1>3. NoCopy \in Copies /\ \A d \in Directions : NoCopy[d].at = "none"
  BY DEF NoCopy, Copies
<1>4. EgressTypeOK
  <2>1. tunnel \in [Clients -> Tunnels]
    BY DEF EgressInit, Tunnels
  <2>2. copy \in [Clients -> Copies]
    BY <1>3 DEF EgressInit
  <2>3. audit \in [Clients -> Seq(Lines)] /\ recent \in Seq(Nat)
    BY DEF EgressInit
  <2> QED BY <1>1, <2>1, <2>2, <2>3 DEF EgressTypeOK
<1>5. SlotsAreReturned
  <2>1. {c \in Clients : tunnel[c].at \in Open} = {}
    BY <1>2 DEF Open
  <2>2. 0 <= policy.connections
    BY <1>1
  <2> QED BY <1>1, <2>1, <2>2, FS_EmptySet DEF SlotsAreReturned
<1>6. WindowHolds
  <2>1. Young = {}
    BY <1>2 DEF Young
  <2>2. Placed([c \in {} |-> 0])
    BY <2>1 DEF Placed
  <2>3. Len(recent) <= policy.perMinute
    BY <1>1
  <2> QED BY <2>2, <2>3 DEF WindowHolds
<1>7. \A c \in Clients : BytesCounted(tunnel[c], copy[c]) /\ Audited(tunnel[c], audit[c])
  BY <1>2, <1>3, LimitsAreNumbers DEF BytesCounted, Audited
<1> QED BY <1>4, <1>5, <1>6, <1>7 DEF EgressInv

\* Every step keeps the invariant.
LEMMA EgressInvStep == EgressInv /\ [EgressNext]_egressVars => EgressInv'
<1> SUFFICES ASSUME EgressInv, [EgressNext]_egressVars PROVE EgressInv'
  OBVIOUS
<1>1. ASSUME Tick, UNCHANGED policy PROVE EgressInv'
  BY <1>1, TickKeeps
<1>2. ASSUME NEW c \in Clients, Arrive(c), UNCHANGED policy PROVE EgressInv'
  BY <1>2, ArriveKeeps
<1>3. ASSUME NEW c \in Clients, ReadHead(c), UNCHANGED policy PROVE EgressInv'
  <2>1. tunnel[c].at = "head" /\ UNCHANGED <<copy, recent>>
    BY <1>3 DEF ReadHead
  <2>2. CASE LeaveUnheard(c)
    BY <1>3, <2>1, <2>2, UnheardKeeps
  <2>3. CASE Deny(c, TRUE)
    BY <1>3, <2>1, <2>3, DenialKeeps
  <2>4. CASE Goes(c, "resolving") /\ UNCHANGED <<openTunnels, audit>>
    BY <1>3, <2>1, <2>4, GoesKeeps
  <2> QED BY <1>3, <2>2, <2>3, <2>4 DEF ReadHead
<1>4. ASSUME NEW c \in Clients, Resolve(c), UNCHANGED policy PROVE EgressInv'
  <2>1. tunnel[c].at = "resolving" /\ UNCHANGED <<copy, recent>>
    BY <1>4 DEF Resolve
  <2>2. CASE Deny(c, TRUE)
    BY <1>4, <2>1, <2>2, DenialKeeps
  <2>3. CASE Goes(c, "connecting") /\ UNCHANGED <<openTunnels, audit>>
    BY <1>4, <2>1, <2>3, GoesKeeps
  <2> QED BY <1>4, <2>2, <2>3 DEF Resolve
<1>5. ASSUME NEW c \in Clients, Connect(c), UNCHANGED policy PROVE EgressInv'
  BY <1>5, ConnectKeeps
<1>6. ASSUME NEW c \in Clients, Settle(c), UNCHANGED policy PROVE EgressInv'
  BY <1>6, SettleKeeps
<1>7. ASSUME NEW c \in Clients, NEW d \in Directions, UNCHANGED policy,
             Chunk(c, d) \/ Drained(c, d) \/ CopyEnds(c, d)
      PROVE  EgressInv'
  BY <1>7, CopyKeeps
<1>8. CASE UNCHANGED egressVars
  <2>1. UNCHANGED <<policy, tunnel, copy, openTunnels, recent, audit>>
    BY <1>8 DEF egressVars
  <2>2. EgressTypeOK' /\ SlotsAreReturned'
    BY <2>1 DEF EgressInv, EgressTypeOK, SlotsAreReturned
  <2>3. WindowHolds'
    BY <2>1, WindowStays
  <2> QED BY <2>1, <2>2, <2>3 DEF EgressInv
<1> QED
  BY <1>1, <1>2, <1>3, <1>4, <1>5, <1>6, <1>7, <1>8 DEF EgressNext, Handling

\* The young connections have a place each in the window, so there are no more
\* of them than its length.
LEMMA PlacesAreEnough == EgressInv => RateHolds
<1> SUFFICES ASSUME EgressInv PROVE Cardinality(Young) <= policy.perMinute
  BY DEF RateHolds, Young
<1>1. PICK slot : Placed(slot)
  BY DEF EgressInv, WindowHolds
<1>2. recent \in Seq(Nat) /\ policy.perMinute \in Nat
  BY DEF EgressInv, EgressTypeOK
<1>3. Len(recent) \in Nat /\ DOMAIN recent = 1..Len(recent)
  BY <1>2
<1>4. slot \in Injection(Young, 1..Len(recent))
  BY <1>1, <1>3 DEF Placed, Injection, IsInjective
<1>5. IsFiniteSet(1..Len(recent)) /\ Cardinality(1..Len(recent)) = Len(recent)
  <2>1. 1 \in Int /\ Len(recent) \in Int
    BY <1>3
  <2>2. IsFiniteSet(1..Len(recent))
        /\ Cardinality(1..Len(recent)) = IF 1 > Len(recent) THEN 0 ELSE Len(recent) - 1 + 1
    BY <2>1, FS_Interval
  <2> QED BY <1>3, <2>2
<1>6. IsFiniteSet(Young) /\ Cardinality(Young) <= Len(recent)
  BY <1>4, <1>5, FS_Injection
<1>7. Cardinality(Young) \in Nat
  BY <1>6, FS_CardinalityType
<1>8. Len(recent) <= policy.perMinute
  BY DEF EgressInv, WindowHolds
<1> QED BY <1>2, <1>3, <1>6, <1>7, <1>8

\* For every policy and every interleaving of the connections: the count that
\* admits them is the number that is open and within its limit, no minute sees
\* more of them than the policy allows, no tunnel sends more bytes than it may,
\* and the audit accounts for each connection and each byte.
THEOREM EgressCounts == EgressSpec => []CountsAreRight
<1>1. EgressInv => CountsAreRight
  <2> SUFFICES ASSUME EgressInv PROVE CountsAreRight
    OBVIOUS
  <2>1. BytesHold
    BY DEF EgressInv, BytesCounted, BytesHold
  <2>2. AuditIsComplete
    BY DEF EgressInv, Audited, AuditIsComplete
  <2> QED BY <2>1, <2>2, PlacesAreEnough DEF CountsAreRight, EgressInv
<1>2. EgressSpec => EgressInit /\ [][EgressNext]_egressVars
  BY PTL DEF EgressSpec
<1> QED BY <1>1, <1>2, EgressInvInit, EgressInvStep, PTL
=============================================================================
