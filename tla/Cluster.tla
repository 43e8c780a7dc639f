------------------------------ MODULE Cluster ------------------------------
(***************************************************************************)
(* The life of the serving stack: one head container and one container on  *)
(* each worker node, started by start.sh serve, taken down by stop.sh,     *)
(* and watched by scripts/dsv41-monitor-head.sh, which rebuilds everything *)
(* after three failed probes unless the maintenance flag exists.  The      *)
(* operator and the monitor run their scripts concurrently.                *)
(*                                                                         *)
(* A worker container joins one head: "fresh" ones can, "joined" ones      *)
(* cannot join another.  Faults and operator commands are bounded.         *)
(***************************************************************************)
EXTENDS Integers, FiniteSets

CONSTANTS
    NumWorkers,
    MaxFaults,   \* bound: crashes, failed boots, lost links, lost answers
    MaxOps       \* bound: operator commands

ASSUME ClusterAssumption == NumWorkers \in Nat /\ MaxFaults \in Nat /\ MaxOps \in Nat

Workers == 1..NumWorkers
Flows == {"monitor", "operator"}

VARIABLES
    flag,      \* maintenance.flag exists
    head,      \* "none", "starting", "up" or "dead"
    worker,    \* per node: "none", "fresh", "joined" or "dead"
    reach,     \* ssh to the node works
    step, idx, \* per flow: step of its script, and the worker it is at
    fails,     \* FAILS of the monitor
    ranks,     \* per flow: the workers its serve has started
    faults, ops

clusterVars == <<flag, head, worker, reach, step, idx, fails, ranks, faults, ops>>

ClusterInit ==
    /\ flag = FALSE /\ head = "none"
    /\ worker = [w \in Workers |-> "none"] /\ reach = [w \in Workers |-> TRUE]
    /\ step = [p \in Flows |-> IF p = "monitor" THEN "top" ELSE "none"]
    /\ idx = [p \in Flows |-> 1] /\ fails = 0
    /\ ranks = [p \in Flows |-> {}]
    /\ faults = 0 /\ ops = 0

Goto(p, where) == step' = [step EXCEPT ![p] = where]
\* The end of serve or stop: the monitor clears FAILS and goes on watching.
Leave(p) ==
    /\ Goto(p, IF p = "monitor" THEN "top" ELSE "none")
    /\ fails' = IF p = "monitor" THEN 0 ELSE fails

----------------------------------------------------------------------------
(* start.sh serve *)

\* The checks before any container is touched.  A node that does not answer
\* image_preflight ends serve.  A live head ends it if it is seen on the GPU: one
\* that is starting may not be there yet, and FORCE=1 skips the check.
ServeCheck(p) ==
    /\ step[p] = "serve"
    /\ \/ /\ head \in {"starting", "up"} \/ \E w \in Workers : ~reach[w]
          /\ Leave(p)
       \/ /\ \A w \in Workers : reach[w]
          /\ Goto(p, "rm head") /\ UNCHANGED fails
    /\ idx' = [idx EXCEPT ![p] = 1] /\ ranks' = [ranks EXCEPT ![p] = {}]
    /\ UNCHANGED <<flag, head, worker, reach, faults, ops>>

\* docker rm -f of the head, by serve, by stop.sh and by the monitor.
RemoveHead(p) ==
    /\ step[p] \in {"rm head", "stop head", "rebuild head"}
    /\ head' = "none"
    /\ Goto(p, CASE step[p] = "rm head" -> "rm workers"
                 [] step[p] = "stop head" -> "stop workers"
                 [] step[p] = "rebuild head" -> "rebuild workers")
    /\ idx' = [idx EXCEPT ![p] = 1]
    /\ UNCHANGED <<flag, worker, reach, fails, ranks, faults, ops>>

\* docker rm -f on each worker in turn; a node out of reach is passed over.
RemoveWorker(p) ==
    /\ step[p] \in {"rm workers", "stop workers", "rebuild workers"}
    /\ IF idx[p] \in Workers
       THEN /\ worker' = IF reach[idx[p]] THEN [worker EXCEPT ![idx[p]] = "none"] ELSE worker
            /\ idx' = [idx EXCEPT ![p] = @ + 1]
            /\ UNCHANGED <<step, fails>>
       ELSE /\ CASE step[p] = "rm workers" -> Goto(p, "run workers") /\ UNCHANGED fails
                 [] step[p] = "stop workers" -> Leave(p)
                 [] step[p] = "rebuild workers" -> Goto(p, "serve") /\ UNCHANGED fails
            /\ idx' = [idx EXCEPT ![p] = 1]
            /\ UNCHANGED worker
    /\ UNCHANGED <<flag, head, reach, ranks, faults, ops>>

RunWorkerOrGoOn(p) ==  \* mutant: a failed docker run does not end serve
    /\ step[p] = "run workers"
    /\ worker' = IF idx[p] \in Workers /\ reach[idx[p]] /\ worker[idx[p]] = "none"
                 THEN [worker EXCEPT ![idx[p]] = "fresh"] ELSE worker
    /\ ranks' = [ranks EXCEPT ![p] = @ \cup ({idx[p]} \cap {w \in Workers : worker'[w] # worker[w]})]
    /\ idx' = [idx EXCEPT ![p] = IF @ \in Workers THEN @ + 1 ELSE @]
    /\ Goto(p, IF idx[p] \in Workers THEN "run workers" ELSE "run head")
    /\ UNCHANGED <<flag, head, reach, fails, faults, ops>>

\* docker run on each worker in turn: it fails if the name is taken or the
\* node does not answer, and set -e ends the script.
RunWorker(p) ==
    /\ step[p] = "run workers"
    /\ IF idx[p] \notin Workers
       THEN Goto(p, "run head") /\ UNCHANGED <<worker, idx, fails, ranks>>
       ELSE IF reach[idx[p]] /\ worker[idx[p]] = "none"
       THEN /\ worker' = [worker EXCEPT ![idx[p]] = "fresh"]
            /\ ranks' = [ranks EXCEPT ![p] = @ \cup {idx[p]}]
            /\ idx' = [idx EXCEPT ![p] = @ + 1]
            /\ UNCHANGED <<step, fails>>
       ELSE Leave(p) /\ UNCHANGED <<worker, idx, ranks>>
    /\ UNCHANGED <<flag, head, reach, faults, ops>>

\* docker run of the head; the name may have been taken by the other flow.
RunHead(p) ==
    /\ step[p] = "run head"
    /\ IF head = "none" THEN head' = "starting" /\ Goto(p, "wait") /\ UNCHANGED fails
                        ELSE Leave(p) /\ UNCHANGED head
    /\ UNCHANGED <<flag, worker, reach, idx, ranks, faults, ops>>

\* serve waits for the Ready banner and gives up when the head is gone.
Wait(p) ==
    /\ step[p] = "wait" /\ head # "starting"
    /\ Leave(p)
    /\ UNCHANGED <<flag, head, worker, reach, idx, ranks, faults, ops>>

----------------------------------------------------------------------------
(* The monitor. *)

\* A round of the monitor reads the flag once, at its top.
Probe ==
    /\ step["monitor"] = "top" /\ ~flag
    /\ Goto("monitor", "probe")
    /\ UNCHANGED <<flag, head, worker, reach, idx, fails, ranks, faults, ops>>

ProbeResultForgets ==  \* mutant: FAILS is reset on every round
    /\ step["monitor"] = "probe"
    /\ \E ok \in BOOLEAN : (ok => head = "up") /\ fails' = IF ok THEN 0 ELSE 1
    /\ Goto("monitor", IF fails' < 3 THEN "top" ELSE "rebuild head")
    /\ UNCHANGED <<flag, head, worker, reach, idx, ranks, faults, ops>>

\* The outcome of the probe.  It may fail on a head that is up: docker's health
\* status lags, and /health has 8 s to answer.  Three failures in a row start the
\* rebuild, also of a head that is still starting.
ProbeResult ==
    /\ step["monitor"] = "probe"
    /\ \E ok \in BOOLEAN : (ok => head = "up") /\ fails' = IF ok THEN 0 ELSE fails + 1
    /\ Goto("monitor", IF fails' < 3 THEN "top" ELSE "rebuild head")
    /\ UNCHANGED <<flag, head, worker, reach, idx, ranks, faults, ops>>

----------------------------------------------------------------------------
(* The operator. *)

Command ==
    /\ ops < MaxOps /\ ops' = ops + 1
    /\ \/ flag' = ~flag /\ UNCHANGED step
       \/ /\ step["operator"] = "none" /\ UNCHANGED flag
          /\ \/ Goto("operator", "serve")
             \/ Goto("operator", "stop head")
    /\ UNCHANGED <<head, worker, reach, idx, fails, ranks, faults>>

----------------------------------------------------------------------------
(* The containers and the network. *)

\* All ranks meet, and /health, smoke and warm-up pass.
BootReady ==
    /\ head = "starting" /\ \A w \in Workers : worker[w] = "fresh"
    /\ head' = "up" /\ worker' = [w \in Workers |-> "joined"]
    /\ UNCHANGED <<flag, reach, step, idx, fails, ranks, faults, ops>>

\* boot.py ends with the engine: a rank is missing or has died.
HeadGivesUp ==
    /\ \/ head = "starting" /\ \E w \in Workers : worker[w] # "fresh"
       \/ head = "up" /\ \E w \in Workers : worker[w] # "joined"
    /\ head' = "dead"
    /\ UNCHANGED <<flag, worker, reach, step, idx, fails, ranks, faults, ops>>

Fault ==
    /\ faults < MaxFaults /\ faults' = faults + 1
    /\ \/ /\ head \in {"starting", "up"} /\ head' = "dead"   \* crash, failed smoke
          /\ UNCHANGED <<worker, reach, step, fails, idx, ranks>>
       \/ /\ \E w \in Workers : worker[w] \in {"fresh", "joined"}
                                /\ worker' = [worker EXCEPT ![w] = "dead"]
          /\ UNCHANGED <<head, reach, step, fails, idx, ranks>>
       \/ /\ \E w \in Workers : reach' = [reach EXCEPT ![w] = FALSE]
          /\ UNCHANGED <<head, worker, step, fails, idx, ranks>>
       \/ \E p \in Flows :                                   \* a remote answer is lost
          /\ step[p] = "run workers" /\ idx[p] \in Workers
          /\ worker[idx[p]] = "none" /\ reach[idx[p]]
          /\ worker' = [worker EXCEPT ![idx[p]] = "fresh"]
          /\ Leave(p) /\ UNCHANGED <<head, reach, idx, ranks>>
       \/ \E p \in Flows :                                   \* READY_TIMEOUT
          /\ step[p] = "wait" /\ Leave(p)
          /\ UNCHANGED <<head, worker, reach, idx, ranks>>
    /\ UNCHANGED <<flag, ops>>

LinkRepaired ==
    /\ \E w \in Workers : ~reach[w] /\ reach' = [reach EXCEPT ![w] = TRUE]
    /\ UNCHANGED <<flag, head, worker, step, idx, fails, ranks, faults, ops>>

----------------------------------------------------------------------------
Step(p) == ServeCheck(p) \/ RemoveHead(p) \/ RemoveWorker(p) \/ RunWorker(p) \/ RunHead(p) \/ Wait(p)

ClusterNext ==
    \/ \E p \in Flows : Step(p)
    \/ Probe \/ ProbeResult \/ Command
    \/ BootReady \/ HeadGivesUp \/ Fault \/ LinkRepaired

ClusterSpec == ClusterInit /\ [][ClusterNext]_clusterVars

\* Steps that wait for a remote command.  scripts/remote.py waits for it without
\* a limit, and the monitor's own ssh limits the connection only.
Remote == {"serve", "rm workers", "run workers", "stop workers", "rebuild workers"}

\* The monitor's local steps happen, containers boot or end, and links are
\* repaired.  Nothing is assumed of remote commands or of the operator.
Fairness ==
    /\ WF_clusterVars(step["monitor"] \notin Remote /\ Step("monitor"))
    /\ WF_clusterVars(Probe \/ ProbeResult)
    /\ WF_clusterVars(BootReady) /\ WF_clusterVars(HeadGivesUp) /\ WF_clusterVars(LinkRepaired)

LiveSpec == ClusterSpec /\ Fairness

----------------------------------------------------------------------------
(* Properties. *)

(* "serve is worker-first" (the monitor's header, serve's log): a serve    *)
(* starts the head only when it has itself started every worker since it   *)
(* began, whatever failed on the way and whoever else was at work.         *)
WorkersFirst ==
    [][\A p \in Flows : step[p] = "run head" /\ head = "none" /\ head' = "starting"
         => ranks[p] = Workers]_clusterVars

(* A probe of a head that is up fails. *)
Misfire == step["monitor"] = "probe" /\ head = "up" /\ fails' = fails + 1

(* Self-heal: when maintenance is over for good and faults have ceased,    *)
(* then, unless a remote command of the monitor hangs for ever, the stack  *)
(* comes up again and again, whatever state they left it in and whatever   *)
(* the probes say; and it stays up once the probes of a stack that is up   *)
(* no longer fail.                                                         *)
SelfHeals ==
    <>[]~flag /\ []<>(step["monitor"] \notin Remote) =>
        /\ []<>(head = "up")
        /\ <>[][~Misfire]_clusterVars => <>[](head = "up")
=============================================================================
