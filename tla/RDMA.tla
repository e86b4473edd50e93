-------------------------------- MODULE RDMA --------------------------------
(***************************************************************************)
(* The RDMA engines of all the GPUs (timing/rdma/rdmaengine.go), the L1    *)
(* caches that use them to reach the memory of another GPU, the L2 caches  *)
(* they read it from, the network between them and the agent that drains   *)
(* and restarts them around a page migration.                              *)
(*                                                                         *)
(* A Tick of an engine tries its five handlers one after another; every    *)
(* handler is an action here, so that the specification allows every order *)
(* the ticks of different engines can produce and more.                    *)
(*                                                                         *)
(* An L1 request is named by its transaction t.  The request the engine    *)
(* sends to its peer is a clone with an identifier of its own, and the one *)
(* the peer sends to its L2 a clone of that clone: the three identifiers   *)
(* are the pairs <<t, "L1">>, <<t, "out">> and <<t, "L2">>.  Addresses and *)
(* data are abstracted to the engine that owns the address.                *)
(***************************************************************************)
EXTENDS Naturals, FiniteSets

CONSTANTS
  Engine,      \* the GPUs, each with one RDMA engine
  Txn,         \* L1 requests; a name is used again once it was answered
  Home,        \* Home[t] is the GPU whose L1 issues t
  OutCap,      \* messages of one engine the network holds at a time
  L1Cap,       \* responses to the L1s their connection holds at a time
  L2Cap,       \* requests the connection and the L2 hold at a time
  NoMsg        \* an empty port, a nil request

ASSUME HomeAssumption == Home \in [Txn -> Engine]
ASSUME NoMsgAssumption ==
  NoMsg \notin {"drain", "restart", "drainRsp", "restartRsp"}

ID == Txn \X {"L1", "out", "L2"}

\* Requests are told by their id, responses by the id they respond to.
Req == [kind : {"req"}, id : ID, src : Engine, dst : Engine]
Rsp == [kind : {"rsp"}, id : ID, src : Engine, dst : Engine]
Msg == Req \cup Rsp

\* TransIn and TransOut are the two uses of the struct transaction.
TransIn  == [fromInside : Req, toOutside : Req]
TransOut == [fromOutside : Req, toInside : Req]

MkReq(id, s, d) == [kind |-> "req", id |-> id, src |-> s, dst |-> d]
MkRsp(id, s, d) == [kind |-> "rsp", id |-> id, src |-> s, dst |-> d]

VARIABLES
  l1,                       \* l1[t]: "idle" or "waiting" for its response
  toL1,                     \* incoming buffer of ToL1, capacity 1
  l1Rsp,                    \* responses on their way from ToL1 to the L1s
  toOutside,                \* incoming buffer of ToOutside, capacity 1
  net,                      \* messages sent by the ToOutside ports
  toL2,                     \* incoming buffer of ToL2, capacity 1
  l2,                       \* requests on their way to, or in, the L2
  ctrlPort,                 \* incoming buffer of CtrlPort, capacity 1
  ctrlOut,                  \* its outgoing buffer, capacity 1
  isDraining, pauseIncomingReqsFromL1, currentDrainReq,
  transactionsFromInside, transactionsFromOutside,
  phase,                    \* of the agent that drains and restarts
  asked,                    \* engines it has sent its command to
  acked                     \* engines that have answered it

l1Vars   == <<l1, toL1, l1Rsp>>
netVars  == <<toOutside, net>>
l2Vars   == <<toL2, l2>>
portVars == <<ctrlPort, ctrlOut>>
engVars  == <<isDraining, pauseIncomingReqsFromL1, currentDrainReq>>
tabVars  == <<transactionsFromInside, transactionsFromOutside>>
agtVars  == <<phase, asked, acked>>
vars == <<l1Vars, netVars, l2Vars, portVars, engVars, tabVars, agtVars>>

TypeOK ==
  /\ l1 \in [Txn -> {"idle", "waiting"}]
  /\ toL1 \in [Engine -> Req \cup {NoMsg}]
  /\ l1Rsp \in [Engine -> SUBSET Rsp]
  /\ toOutside \in [Engine -> Msg \cup {NoMsg}]
  /\ net \subseteq Msg
  /\ toL2 \in [Engine -> Rsp \cup {NoMsg}]
  /\ l2 \in [Engine -> SUBSET Req]
  /\ ctrlPort \in [Engine -> {"drain", "restart", NoMsg}]
  /\ ctrlOut \in [Engine -> {"drainRsp", "restartRsp", NoMsg}]
  /\ isDraining \in [Engine -> BOOLEAN]
  /\ pauseIncomingReqsFromL1 \in [Engine -> BOOLEAN]
  /\ currentDrainReq \in [Engine -> {"drain", NoMsg}]
  /\ transactionsFromInside \in [Engine -> SUBSET TransIn]
  /\ transactionsFromOutside \in [Engine -> SUBSET TransOut]
  /\ phase \in {"run", "drain", "quiet", "restart"}
  /\ asked \in SUBSET Engine
  /\ acked \in SUBSET Engine

Init ==
  /\ l1 = [t \in Txn |-> "idle"]
  /\ toL1 = [e \in Engine |-> NoMsg]
  /\ l1Rsp = [e \in Engine |-> {}]
  /\ toOutside = [e \in Engine |-> NoMsg]
  /\ net = {}
  /\ toL2 = [e \in Engine |-> NoMsg]
  /\ l2 = [e \in Engine |-> {}]
  /\ ctrlPort = [e \in Engine |-> NoMsg]
  /\ ctrlOut = [e \in Engine |-> NoMsg]
  /\ isDraining = [e \in Engine |-> FALSE]
  /\ pauseIncomingReqsFromL1 = [e \in Engine |-> FALSE]
  /\ currentDrainReq = [e \in Engine |-> NoMsg]
  /\ transactionsFromInside = [e \in Engine |-> {}]
  /\ transactionsFromOutside = [e \in Engine |-> {}]
  /\ phase = "run"
  /\ asked = {}
  /\ acked = {}

-----------------------------------------------------------------------------
(* Ports: Send fails when the connection behind the port is full.          *)

CanSendOutside(e) == Cardinality({m \in net : m.src = e}) < OutCap
CanSendToL1(e)    == Cardinality(l1Rsp[e]) < L1Cap
CanSendToL2(e)    == Cardinality(l2[e]) < L2Cap
CanSendCtrl(e)    == ctrlOut[e] = NoMsg

-----------------------------------------------------------------------------
(* The handlers of an engine.                                              *)

\* cloneRsp with the identifier of the request that is answered
Answer(req, e) == MkRsp(req.id, e, req.src)

\* mutant: the transaction stays in the table
RemoveNothing(table, trans) == table

Remove(table, trans) == table \ {trans}

\* mutant: draining does not stop the requests of the L1s
ProcessDrainReqUnpaused(e) ==
  /\ ctrlPort[e] = "drain"
  /\ ctrlPort' = [ctrlPort EXCEPT ![e] = NoMsg]
  /\ currentDrainReq' = [currentDrainReq EXCEPT ![e] = "drain"]
  /\ isDraining' = [isDraining EXCEPT ![e] = TRUE]
  /\ UNCHANGED <<l1Vars, netVars, l2Vars, ctrlOut, pauseIncomingReqsFromL1,
                 tabVars, agtVars>>

ProcessDrainReq(e) ==
  /\ ctrlPort[e] = "drain"
  /\ ctrlPort' = [ctrlPort EXCEPT ![e] = NoMsg]
  /\ currentDrainReq' = [currentDrainReq EXCEPT ![e] = "drain"]
  /\ isDraining' = [isDraining EXCEPT ![e] = TRUE]
  /\ pauseIncomingReqsFromL1' = [pauseIncomingReqsFromL1 EXCEPT ![e] = TRUE]
  /\ UNCHANGED <<l1Vars, netVars, l2Vars, ctrlOut, tabVars, agtVars>>

\* The command leaves the port before the response is sent: when the send
\* fails the command is gone and nothing else happens.
ProcessRDMARestartReq(e) ==
  /\ ctrlPort[e] = "restart"
  /\ ctrlPort' = [ctrlPort EXCEPT ![e] = NoMsg]
  /\ IF CanSendCtrl(e)
       THEN /\ ctrlOut' = [ctrlOut EXCEPT ![e] = "restartRsp"]
            /\ currentDrainReq' = [currentDrainReq EXCEPT ![e] = NoMsg]
            /\ pauseIncomingReqsFromL1' =
                 [pauseIncomingReqsFromL1 EXCEPT ![e] = FALSE]
       ELSE UNCHANGED <<ctrlOut, currentDrainReq, pauseIncomingReqsFromL1>>
  /\ UNCHANGED <<l1Vars, netVars, l2Vars, isDraining, tabVars, agtVars>>

\* mutant: the requests of the own L1s are not waited for
FullyDrainedOutside(e) == transactionsFromOutside[e] = {}

FullyDrained(e) ==
  /\ transactionsFromOutside[e] = {}
  /\ transactionsFromInside[e] = {}

DrainRDMA(e) ==
  /\ isDraining[e]
  /\ FullyDrained(e)
  /\ CanSendCtrl(e)
  /\ ctrlOut' = [ctrlOut EXCEPT ![e] = "drainRsp"]
  /\ isDraining' = [isDraining EXCEPT ![e] = FALSE]
  /\ UNCHANGED <<l1Vars, netVars, l2Vars, ctrlPort, pauseIncomingReqsFromL1,
                 currentDrainReq, tabVars, agtVars>>

\* The remote table gives the owner of the address; L1 only routes an
\* address here that its own GPU does not hold.
ProcessReqFromL1(e) ==
  /\ ~ pauseIncomingReqsFromL1[e]
  /\ toL1[e] # NoMsg
  /\ CanSendOutside(e)
  /\ \E dst \in Engine \ {e} :
       LET req    == toL1[e]
           cloned == MkReq(<<req.id[1], "out">>, e, dst)
       IN  /\ net' = net \cup {cloned}
           /\ transactionsFromInside' =
                [transactionsFromInside EXCEPT
                   ![e] = @ \cup {[fromInside |-> req, toOutside |-> cloned]}]
  /\ toL1' = [toL1 EXCEPT ![e] = NoMsg]
  /\ UNCHANGED <<l1, l1Rsp, toOutside, l2Vars, portVars, engVars,
                 transactionsFromOutside, agtVars>>

\* mutant: a paused engine does not serve its peers either
ProcessReqFromOutsidePaused(e) ==
  /\ ~ pauseIncomingReqsFromL1[e]
  /\ toOutside[e] # NoMsg
  /\ toOutside[e].kind = "req"
  /\ CanSendToL2(e)
  /\ LET req    == toOutside[e]
         cloned == MkReq(<<req.id[1], "L2">>, e, e)
     IN  /\ l2' = [l2 EXCEPT ![e] = @ \cup {cloned}]
         /\ transactionsFromOutside' =
              [transactionsFromOutside EXCEPT
                 ![e] = @ \cup {[fromOutside |-> req, toInside |-> cloned]}]
  /\ toOutside' = [toOutside EXCEPT ![e] = NoMsg]
  /\ UNCHANGED <<l1Vars, net, toL2, portVars, engVars,
                 transactionsFromInside, agtVars>>

ProcessReqFromOutside(e) ==
  /\ toOutside[e] # NoMsg
  /\ toOutside[e].kind = "req"
  /\ CanSendToL2(e)
  /\ LET req    == toOutside[e]
         cloned == MkReq(<<req.id[1], "L2">>, e, e)
     IN  /\ l2' = [l2 EXCEPT ![e] = @ \cup {cloned}]
         /\ transactionsFromOutside' =
              [transactionsFromOutside EXCEPT
                 ![e] = @ \cup {[fromOutside |-> req, toInside |-> cloned]}]
  /\ toOutside' = [toOutside EXCEPT ![e] = NoMsg]
  /\ UNCHANGED <<l1Vars, net, toL2, portVars, engVars,
                 transactionsFromInside, agtVars>>

\* findTransactionByRspToID panics when no transaction has the identifier:
\* the step is then not enabled and NoLostTransaction is false.
ProcessRspFromL2(e) ==
  /\ toL2[e] # NoMsg
  /\ CanSendOutside(e)
  /\ \E trans \in transactionsFromOutside[e] :
       /\ trans.toInside.id = toL2[e].id
       /\ net' = net \cup {Answer(trans.fromOutside, e)}
       /\ transactionsFromOutside' =
            [transactionsFromOutside EXCEPT ![e] = Remove(@, trans)]
  /\ toL2' = [toL2 EXCEPT ![e] = NoMsg]
  /\ UNCHANGED <<l1Vars, toOutside, l2, portVars, engVars,
                 transactionsFromInside, agtVars>>

ProcessRspFromOutside(e) ==
  /\ toOutside[e] # NoMsg
  /\ toOutside[e].kind = "rsp"
  /\ CanSendToL1(e)
  /\ \E trans \in transactionsFromInside[e] :
       /\ trans.toOutside.id = toOutside[e].id
       /\ l1Rsp' = [l1Rsp EXCEPT ![e] = @ \cup {Answer(trans.fromInside, e)}]
       /\ transactionsFromInside' =
            [transactionsFromInside EXCEPT ![e] = Remove(@, trans)]
  /\ toOutside' = [toOutside EXCEPT ![e] = NoMsg]
  /\ UNCHANGED <<l1, toL1, net, l2Vars, portVars, engVars,
                 transactionsFromOutside, agtVars>>

-----------------------------------------------------------------------------
(* The caches and the network.                                             *)

L1Issue(t) ==
  /\ l1[t] = "idle"
  /\ toL1[Home[t]] = NoMsg
  /\ l1' = [l1 EXCEPT ![t] = "waiting"]
  /\ toL1' = [toL1 EXCEPT ![Home[t]] = MkReq(<<t, "L1">>, Home[t], Home[t])]
  /\ UNCHANGED <<l1Rsp, netVars, l2Vars, portVars, engVars, tabVars, agtVars>>

L1Receive(e, t) ==
  /\ \E m \in l1Rsp[e] :
       /\ m.id[1] = t
       /\ l1' = [l1 EXCEPT ![m.id[1]] = "idle"]
       /\ l1Rsp' = [l1Rsp EXCEPT ![e] = @ \ {m}]
  /\ UNCHANGED <<toL1, netVars, l2Vars, portVars, engVars, tabVars, agtVars>>

\* The network loses nothing and keeps no order between messages.
Deliver(e, t) ==
  /\ toOutside[e] = NoMsg
  /\ \E m \in net :
       /\ m.id[1] = t
       /\ m.dst = e
       /\ net' = net \ {m}
       /\ toOutside' = [toOutside EXCEPT ![e] = m]
  /\ UNCHANGED <<l1Vars, l2Vars, portVars, engVars, tabVars, agtVars>>

\* An L2 answers every request once, in any order.
L2Reply(e, t) ==
  /\ toL2[e] = NoMsg
  /\ \E m \in l2[e] :
       /\ m.id[1] = t
       /\ l2' = [l2 EXCEPT ![e] = @ \ {m}]
       /\ toL2' = [toL2 EXCEPT ![e] = MkRsp(m.id, e, e)]
  /\ UNCHANGED <<l1Vars, netVars, portVars, engVars, tabVars, agtVars>>

-----------------------------------------------------------------------------
(* The draining agent: it drains every engine, waits for all the answers,  *)
(* does its work, restarts every engine and waits for all the answers.     *)

InitiateDrain ==
  /\ phase = "run"
  /\ phase' = "drain"
  /\ asked' = {}
  /\ acked' = {}
  /\ UNCHANGED <<l1Vars, netVars, l2Vars, portVars, engVars, tabVars>>

InitiateRestart ==
  /\ phase = "quiet"
  /\ phase' = "restart"
  /\ asked' = {}
  /\ acked' = {}
  /\ UNCHANGED <<l1Vars, netVars, l2Vars, portVars, engVars, tabVars>>

\* The command has the name of the phase.
Ask(e) ==
  /\ phase \in {"drain", "restart"}
  /\ e \notin asked
  /\ ctrlPort[e] = NoMsg
  /\ ctrlPort' = [ctrlPort EXCEPT ![e] = phase]
  /\ asked' = asked \cup {e}
  /\ UNCHANGED <<l1Vars, netVars, l2Vars, ctrlOut, engVars, tabVars, phase,
                 acked>>

Ack(e) ==
  /\ ctrlOut[e] # NoMsg
  /\ ctrlOut' = [ctrlOut EXCEPT ![e] = NoMsg]
  /\ acked' = acked \cup {e}
  /\ phase' = IF acked' # Engine THEN phase
              ELSE IF phase = "drain" THEN "quiet" ELSE "run"
  /\ UNCHANGED <<l1Vars, netVars, l2Vars, ctrlPort, engVars, tabVars, asked>>

-----------------------------------------------------------------------------
EngineStep(e) ==
  \/ ProcessDrainReq(e)
  \/ ProcessRDMARestartReq(e)
  \/ DrainRDMA(e)
  \/ ProcessReqFromL1(e)
  \/ ProcessRspFromL2(e)
  \/ ProcessReqFromOutside(e)
  \/ ProcessRspFromOutside(e)

MemoryStep(e, t) == L1Receive(e, t) \/ Deliver(e, t) \/ L2Reply(e, t)

Next ==
  \/ \E e \in Engine : EngineStep(e) \/ Ask(e) \/ Ack(e)
  \/ \E e \in Engine, t \in Txn : MemoryStep(e, t)
  \/ \E t \in Txn : L1Issue(t)
  \/ InitiateDrain
  \/ InitiateRestart

Spec == Init /\ [][Next]_vars

(***************************************************************************)
(* A tick tries every handler and an engine with anything to do ticks      *)
(* again: weak fairness.  The connections and the L2 serve their messages  *)
(* in turn, each one again and again finding the port it goes to occupied: *)
(* strong fairness for each.  Nothing obliges an L1 to issue, an engine to *)
(* accept its request, or the agent to begin a drain or a restart.         *)
(***************************************************************************)
Fairness ==
  /\ \A e \in Engine :
       /\ WF_vars(ProcessDrainReq(e))
       /\ WF_vars(ProcessRDMARestartReq(e))
       /\ WF_vars(DrainRDMA(e))
       /\ WF_vars(ProcessRspFromL2(e))
       /\ WF_vars(ProcessReqFromOutside(e))
       /\ WF_vars(ProcessRspFromOutside(e))
       /\ WF_vars(Ask(e))
       /\ WF_vars(Ack(e))
  /\ \A e \in Engine, t \in Txn :
       /\ WF_vars(L1Receive(e, t))
       /\ SF_vars(Deliver(e, t))
       /\ SF_vars(L2Reply(e, t))

FairSpec == Spec /\ Fairness

-----------------------------------------------------------------------------
(* What the engines promise.                                               *)

\* The transactions whose L1 request an engine has forwarded and not yet
\* answered.
Forwarded ==
  [e \in Engine |-> {tr.fromInside.id[1] : tr \in transactionsFromInside[e]}]

\* Once every engine has acknowledged its drain (rdmaengine.go:101-122), and
\* until the restart is initiated, no request or response is left in the
\* network, in a port or in an L2, although each engine only looks at its
\* own tables, and may be given a new transaction after it acknowledged.
Quiescent ==
  phase = "quiet" =>
    /\ net = {}
    /\ \A e \in Engine :
         /\ toOutside[e] = NoMsg /\ toL2[e] = NoMsg /\ l2[e] = {}
         /\ FullyDrained(e)

\* The look-up of rdmaengine.go:307-323 never panics: the transaction a
\* response answers is still in the table of the engine that receives it,
\* also across drains and restarts.
NoLostTransaction ==
  \A e \in Engine :
    /\ toL2[e] # NoMsg =>
         \E tr \in transactionsFromOutside[e] : tr.toInside.id = toL2[e].id
    /\ (toOutside[e] # NoMsg /\ toOutside[e].kind = "rsp") =>
         \E tr \in transactionsFromInside[e] :
           tr.toOutside.id = toOutside[e].id

\* A response that reaches an L1 carries the identifier of a request that
\* this L1 made, that is still unanswered, and that no engine still holds:
\* the two translations of identifiers undo each other and no request is
\* answered twice (rdmaengine.go:243-305).
AnsweredOnce ==
  \A e \in Engine : \A m \in l1Rsp[e] :
    /\ m.id = <<m.id[1], "L1">>
    /\ Home[m.id[1]] = e
    /\ l1[m.id[1]] = "waiting"
    /\ m.id[1] \notin Forwarded[e]
    /\ \A n \in l1Rsp[e] \ {m} : n.id # m.id

\* A restart is never dropped: rdmaengine.go:69-93 takes it from the port
\* before it knows whether the answer can be sent, so the port must be free
\* whenever a restart arrives, and the engine must remember a drain request
\* to answer to (a nil currentDrainReq would crash).
RestartCanBeAnswered ==
  \A e \in Engine :
    ctrlPort[e] = "restart" =>
      /\ ctrlOut[e] = NoMsg
      /\ currentDrainReq[e] # NoMsg
      /\ ~ isDraining[e]

\* No request leaves an engine for the network between the drain commands
\* having all been acknowledged and its own restart (rdmaengine.go:125-127).
NothingLeavesWhileQuiet ==
  [][\A e \in Engine :
       (phase = "quiet" \/ (phase = "restart" /\ e \notin asked)) =>
         \A m \in net' \ net : m.src # e \/ m.kind = "rsp"]_vars

\* A drain of all the engines ends, with the L1s still issuing requests, and
\* so does the restart; and a request that was forwarded is answered, whatever
\* the engines are told meanwhile: a paused engine still serves its peers.
DrainCompletes ==
  /\ phase = "drain" ~> phase = "quiet"
  /\ phase = "restart" ~> phase = "run"
  /\ \A t \in Txn : t \in Forwarded[Home[t]] ~> l1[t] = "idle"

-----------------------------------------------------------------------------
(* The inductive invariant behind the safety properties.                   *)

\* Paused, and with none of its own requests left anywhere.
DrainedSide(e) ==
  /\ pauseIncomingReqsFromL1[e]
  /\ transactionsFromInside[e] = {}
  /\ currentDrainReq[e] = "drain"

\* At most one command or answer is under way for each engine, it is the one
\* the phase calls for, and an engine that answered a drain stays drained
\* until its restart reaches it.
AgentInv ==
  /\ acked \subseteq asked
  /\ phase = "quiet" => acked = Engine
  /\ \A e \in Engine :
       /\ ctrlPort[e] # NoMsg =>
            /\ phase = ctrlPort[e] /\ e \in asked \ acked
            /\ ctrlOut[e] = NoMsg /\ ~ isDraining[e]
       /\ isDraining[e] =>
            /\ phase = "drain" /\ e \in asked \ acked
            /\ ctrlOut[e] = NoMsg
            /\ pauseIncomingReqsFromL1[e] /\ currentDrainReq[e] = "drain"
       /\ ctrlOut[e] = "drainRsp" =>
            phase = "drain" /\ e \in asked \ acked /\ DrainedSide(e)
       /\ ctrlOut[e] = "restartRsp" =>
            phase = "restart" /\ e \in asked \ acked
       /\ (phase \in {"drain", "quiet"} /\ e \in acked) => DrainedSide(e)
       /\ (phase = "restart" /\ (e \notin asked \/ ctrlPort[e] = "restart")) =>
            DrainedSide(e)

\* A request of an L1 is in the port, in the table, or answered.
AskingInv ==
  \A e \in Engine : toL1[e] # NoMsg =>
    \E t \in Txn :
      /\ toL1[e].id = <<t, "L1">> /\ toL1[e].src = e
      /\ Home[t] = e /\ l1[t] = "waiting"
      /\ t \notin Forwarded[e]

AnsweredInv ==
  \A e \in Engine : \A m \in l1Rsp[e] :
    /\ \E t \in Txn :
         /\ m.id = <<t, "L1">>
         /\ Home[t] = e /\ l1[t] = "waiting"
         /\ t \notin Forwarded[e]
    /\ toL1[e] # NoMsg => toL1[e].id # m.id
    /\ \A n \in l1Rsp[e] : n.id = m.id => n = m

TableShape ==
  \A e \in Engine : \A tr \in transactionsFromInside[e] :
    \E t \in Txn :
      /\ tr.fromInside.id = <<t, "L1">> /\ tr.fromInside.src = e
      /\ tr.toOutside.id = <<t, "out">> /\ tr.toOutside.src = e
      /\ Home[t] = e /\ l1[t] = "waiting"

TableUnique ==
  \A e \in Engine : \A tr, other \in transactionsFromInside[e] :
    other.toOutside.id = tr.toOutside.id => other = tr

\* The messages between two engines that a transaction of the requester backs.
Backed ==
  {m \in Msg :
     \/ /\ m.kind = "req"
        /\ \E tr \in transactionsFromInside[m.src] : tr.toOutside = m
     \/ /\ m.kind = "rsp"
        /\ \E tr \in transactionsFromInside[m.dst] : tr.toOutside.id = m.id}

FlightInv ==
  /\ \A m \in net :
       /\ m \in Backed
       /\ \A n \in net : n.id = m.id => n = m
       /\ \A e \in Engine : toOutside[e] # NoMsg => toOutside[e].id # m.id
  /\ \A e \in Engine : toOutside[e] # NoMsg =>
       /\ toOutside[e] \in Backed
       /\ toOutside[e].dst = e
       /\ \A f \in Engine \ {e} :
            toOutside[f] # NoMsg => toOutside[f].id # toOutside[e].id

\* A peer serves a request only for a transaction of the requester, while no
\* message between the two carries it and no other entry stands for it.
RemoteShape ==
  \A e \in Engine : \A x \in transactionsFromOutside[e] :
    /\ x.fromOutside \in Backed
    /\ x.toInside.id = <<x.fromOutside.id[1], "L2">>

RemoteAlone ==
  \A e \in Engine : \A x \in transactionsFromOutside[e] :
    /\ \A m \in net : m.id # x.fromOutside.id
    /\ \A f \in Engine :
         toOutside[f] # NoMsg => toOutside[f].id # x.fromOutside.id

RemoteUnique ==
  \A e, f \in Engine :
    \A x \in transactionsFromOutside[e], y \in transactionsFromOutside[f] :
      y.fromOutside.id = x.fromOutside.id => f = e /\ y = x

L2Inv ==
  \A e \in Engine :
    /\ \A m \in l2[e] :
         /\ \E x \in transactionsFromOutside[e] : x.toInside.id = m.id
         /\ \A n \in l2[e] : n.id = m.id => n = m
         /\ toL2[e] # NoMsg => toL2[e].id # m.id
    /\ toL2[e] # NoMsg =>
         \E x \in transactionsFromOutside[e] : x.toInside.id = toL2[e].id

MemInv ==
  /\ AskingInv
  /\ AnsweredInv
  /\ TableShape
  /\ TableUnique
  /\ FlightInv
  /\ RemoteShape
  /\ RemoteAlone
  /\ RemoteUnique
  /\ L2Inv

IInv == AgentInv /\ MemInv

=============================================================================
