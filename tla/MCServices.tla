----------------------------- MODULE MCServices ------------------------------
(* Services of the hub and of the daemon whose promises include that       *)
(* something ends.  They share no state: a behaviour runs one of them, its *)
(* part, on a small instance and leaves the others at rest.                *)
EXTENDS ControlJobs, OutputStream, JobOutputStore, FileGate, AppTools, HostRuntime,
        Sandbox

CONSTANTS p1, p2, k, a2, a3

(* Two POSTs under one correlation id.                                     *)
TheCids == [p \in Posts |-> k]

(* Two replicas append.                                                    *)
TheReplicas == [a \in Appends |-> IF a = a3 THEN 2 ELSE 1]

(* One request id, delivered twice.                                        *)
TheRequests == [f \in FileCalls |-> "q"]
TheCalls == [d \in Deliveries |-> "q"]

(* An installation, forced or not, beside a forced one of node, on a tree   *)
(* with an interrupted node, a torn CLI and an old Python.                 *)
Install(p, f) == [plugin |-> p, force |-> f]
TheInstalls ==
    [i1 |-> {Install("all", FALSE), Install("browser", TRUE), Install("python", FALSE),
             Install("file", FALSE)},
     i2 |-> {Install("node", TRUE)}]
TheHosts == {[browser |-> TRUE, file |-> TRUE, chrome |-> TRUE, shell |-> TRUE]}
TheTrees == {[node |-> "new", npm |-> "none", cli |-> "torn", python |-> "old"]}

VARIABLE part

serviceVars == <<part, controlVars, outputVars, storeVars, gateVars, callVars, catalogVars,
                 hostVars, sandboxVars>>

ServicesInit ==
    /\ part \in {"control", "output", "store", "gate", "calls", "catalog", "host", "sandbox"}
    /\ ControlInit /\ OutputInit /\ StoreInit /\ GateInit /\ CallInit /\ CatalogInit
    /\ HostRuntimeInit /\ (part # "sandbox" => sbMode = "full") /\ SandboxInit

(* The part that runs.                                                     *)
OnControl ==
    /\ part = "control"
    /\ UNCHANGED <<part, outputVars, storeVars, gateVars, callVars, catalogVars, hostVars, sandboxVars>>
OnOutput ==
    /\ part = "output"
    /\ UNCHANGED <<part, controlVars, storeVars, gateVars, callVars, catalogVars, hostVars, sandboxVars>>
OnStore ==
    /\ part = "store"
    /\ UNCHANGED <<part, controlVars, outputVars, gateVars, callVars, catalogVars, hostVars, sandboxVars>>
OnGate ==
    /\ part = "gate"
    /\ UNCHANGED <<part, controlVars, outputVars, storeVars, callVars, catalogVars, hostVars, sandboxVars>>
OnCalls ==
    /\ part = "calls"
    /\ UNCHANGED <<part, controlVars, outputVars, storeVars, gateVars, catalogVars, hostVars, sandboxVars>>
OnCatalog ==
    /\ part = "catalog"
    /\ UNCHANGED <<part, controlVars, outputVars, storeVars, gateVars, callVars, hostVars, sandboxVars>>
OnHost ==
    /\ part = "host"
    /\ UNCHANGED <<part, controlVars, outputVars, storeVars, gateVars, callVars, catalogVars, sandboxVars>>
OnSandbox ==
    /\ part = "sandbox"
    /\ UNCHANGED <<part, controlVars, outputVars, storeVars, gateVars, callVars, catalogVars, hostVars>>

ServicesNext ==
    \/ OnControl /\ ControlNext
    \/ OnOutput /\ OutputNext
    \/ OnStore /\ StoreNext
    \/ OnGate /\ GateNext
    \/ OnCalls /\ CallNext
    \/ OnCatalog /\ CatalogNext
    \/ OnHost /\ HostRuntimeNext
    \/ OnSandbox /\ SandboxNext

(* Handlers, tasks and streams of the running part go on; devices need not *)
(* report, and nobody is forced to ask.                                    *)
ControlFairness ==
    /\ \A p \in Posts :
        /\ WF_controlVars(part = "control" /\ Create(p))
        /\ WF_controlVars(part = "control" /\ (Publish(p) \/ Look(p) \/ Unindex(p)))
        /\ WF_controlVars(part = "control" /\ (TimerFires(p) \/ TimerFinalizes(p)))
    /\ WF_controlVars(part = "control" /\ Loop)
    /\ \A s \in Streams : WF_controlVars(part = "control" /\ (Subscribe(s) \/ Recv(s)))

(* Writers and readers run on and the retention timer fires; nobody has to *)
(* write or to subscribe.                                                  *)
OutputFairness ==
    /\ \A w \in Writers : WF_outputVars(part = "output" /\ (Store(w) \/ Flag(w) \/ Send(w)))
    /\ WF_outputVars(part = "output" /\ Expire)
    /\ \A r \in Readers :
        WF_outputVars(part = "output" /\ (CopyHistory(r) \/ FromHistory(r) \/ Receive(r)))

(* The loop and the waiters make progress; the approval timeout is a step  *)
(* of the waiter.  Users need not answer.                                  *)
GateFairness == \A f \in AllCalls : WF_gateVars(part = "gate" /\ GateStep(f))

ServicesSpec ==
    /\ ServicesInit /\ [][ServicesNext]_serviceVars
    /\ ControlFairness /\ OutputFairness /\ GateFairness
=============================================================================
