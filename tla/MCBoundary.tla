----------------------------- MODULE MCBoundary -----------------------------
(***************************************************************************)
(* The ways out of the sandbox, for TLC: a batch written to the host file  *)
(* by file by the broker, the desktop's service that asks for batches, and *)
(* the egress proxy, one of them in each behaviour. The service sees a     *)
(* batch of the broker as one step.                                        *)
(***************************************************************************)
EXTENDS Broker, PublicationService, Egress

CONSTANTS c1, c2

VARIABLE part

boundaryVars == <<bvars, vars, egressVars, part>>

InBroker(A) == part = "broker" /\ A /\ UNCHANGED <<vars, egressVars, part>>
InService(A) == part = "service" /\ A /\ UNCHANGED <<bvars, egressVars, part>>
InEgress(A) == part = "egress" /\ A /\ UNCHANGED <<policy, bvars, vars, part>>

\* Path 1 exists at first, the others do not. Only the part a behaviour is about starts in
\* more than one state.
MCInit ==
    /\ part \in {"broker", "service", "egress"} /\ BrokerInit /\ Init /\ EgressInit
    /\ written = [p \in Paths |-> IF p = 1 THEN <<c1>> ELSE <<Absent>>]
    /\ part # "egress" => policy = [connections |-> 1, perMinute |-> 1]

MCNext == InBroker(BrokerNext) \/ InService(Next) \/ InEgress(EgressNext)

\* The fairness of FairBrokerSpec, FairSpec and EgressSpec.
MCSpec ==
    /\ MCInit /\ [][MCNext]_boundaryVars
    /\ WF_boundaryVars(InBroker(BrokerStep))
    /\ WF_boundaryVars(InService(WorkerStep))
    /\ WF_boundaryVars(InService(SlotStep))
    /\ WF_boundaryVars(InEgress(Tick))
    /\ \A c \in Clients :
        WF_boundaryVars(InEgress(Handling(c))) /\ WF_boundaryVars(InEgress(RegistrySide(c)))

\* Whatever crosses the boundary ends: a batch, a publication, a tunnel.
CrossingsEnd == BatchEnds /\ PublicationEnds /\ TunnelsAreClosed
=============================================================================
