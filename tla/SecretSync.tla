----------------------------- MODULE SecretSync -----------------------------
(***************************************************************************)
(* How a rotated Telegram secret reaches the program, and what becomes of  *)
(* the alerts when it is restarted for that: flexwatch-secret-sync.sh,     *)
(* started by its timer or by hand, the deployment (one replica, strategy  *)
(* Recreate, the secret as optional environment), and of each container    *)
(* what its detector knows of one vehicle.                                 *)
(*                                                                         *)
(* Every command of the script may fail, and the script may be killed      *)
(* anywhere (set -e).  Containers crash and are restarted; the node stays, *)
(* and nobody deletes a pod.                                               *)
(***************************************************************************)
EXTENDS Naturals

CONSTANTS
    Timer,         \* the runs the timer starts, one after the other
    ByHand,        \* runs an operator may start beside them
    Pod,           \* the names of pods
    Malformed,     \* the versions of the secret that lack a key
    MaxRotations,  \* bound: versions after the first
    MaxAborts      \* bound: runs that do not end

ASSUME SyncAssumption == Timer \notin ByHand /\ MaxRotations \in Nat /\ MaxAborts \in Nat

Run == {Timer} \cup ByHand

VARIABLES
    aws,      \* the version of the secret in Secrets Manager
    step,     \* run -> the next command of the script
    payload,  \* run -> the version it has read
    current,  \* run -> current_hash
    aborts,   \* runs that have failed
    file,     \* secret-revision; 0 when it is missing or empty
    secret,   \* the version in the Secret; 0 when there is none
    rv,       \* its resourceVersion, in order
    pod,      \* pod -> its phase, and the state of its container
    near,     \* is the vehicle in the fence
    \* history
    asked,    \* rv at the latest rollout restart
    alerts    \* the alerts about this stay of the vehicle

script == <<step, payload, current, aborts, file>>
cluster == <<secret, rv, pod, asked>>
vehicle == <<near, alerts>>
vars == <<aws, script, cluster, vehicle>>

NoPod == [phase |-> "none", old |-> FALSE, env |-> 0, started |-> FALSE, present |-> FALSE]

Live(p) == pod[p].phase \in {"running", "stopping"}

-----------------------------------------------------------------------------

Init ==
    /\ aws = 1
    /\ step = [r \in Run |-> "idle"]
    /\ payload = [r \in Run |-> 0] /\ current = [r \in Run |-> 0]
    /\ aborts = 0 /\ file = 0
    /\ secret = 0 /\ rv = 0 /\ asked = 0
    /\ pod = [p \in Pod |-> NoPod]
    /\ near = FALSE /\ alerts = 0

Rotate ==
    /\ aws <= MaxRotations
    /\ aws' = aws + 1
    /\ UNCHANGED <<script, cluster, vehicle>>

-----------------------------------------------------------------------------
(* The script.                                                             *)

Ends(r) ==
    /\ step' = [step EXCEPT ![r] = "idle"]
    /\ current' = [current EXCEPT ![r] = 0]

\* A secret without its keys ends the run.
ReadSecret(r) ==
    /\ step[r] = "idle"
    /\ aws \notin Malformed
    /\ step' = [step EXCEPT ![r] = "apply"]
    /\ payload' = [payload EXCEPT ![r] = aws]
    /\ UNCHANGED <<aws, current, aborts, file, cluster, vehicle>>

\* Mutant: kubectl create alone, which fails when there is a Secret.
ApplyCreates(r) ==
    /\ step[r] = "apply"
    /\ secret = 0
    /\ step' = [step EXCEPT ![r] = "revision"]
    /\ payload' = [payload EXCEPT ![r] = 0]
    /\ secret' = payload[r] /\ rv' = rv + 1
    /\ UNCHANGED <<aws, current, aborts, file, pod, asked, vehicle>>

\* kubectl apply; the revision stays when nothing has changed.
Apply(r) ==
    /\ step[r] = "apply"
    /\ step' = [step EXCEPT ![r] = "revision"]
    /\ payload' = [payload EXCEPT ![r] = 0]
    /\ secret' = payload[r]
    /\ rv' = IF payload[r] = secret THEN rv ELSE rv + 1
    /\ UNCHANGED <<aws, current, aborts, file, pod, asked, vehicle>>

ReadRevision(r) ==
    /\ step[r] = "revision"
    /\ step' = [step EXCEPT ![r] = "compare"]
    /\ current' = [current EXCEPT ![r] = rv]
    /\ UNCHANGED <<aws, payload, aborts, file, cluster, vehicle>>

\* Mutant: the revision is recorded before the restart it stands for.
CompareRecords(r) ==
    /\ step[r] = "compare"
    /\ IF file = current[r] THEN Ends(r)
       ELSE step' = [step EXCEPT ![r] = "restart"] /\ UNCHANGED current
    /\ file' = current[r]
    /\ UNCHANGED <<aws, payload, aborts, cluster, vehicle>>

Compare(r) ==
    /\ step[r] = "compare"
    /\ IF file = current[r] THEN Ends(r)
       ELSE step' = [step EXCEPT ![r] = "restart"] /\ UNCHANGED current
    /\ UNCHANGED <<aws, payload, aborts, file, cluster, vehicle>>

\* kubectl rollout restart: the pods there are belong to the old revision.
Restart(r) ==
    /\ step[r] = "restart"
    /\ step' = [step EXCEPT ![r] = "write"]
    /\ pod' = [p \in Pod |-> [pod[p] EXCEPT !.old = @ \/ pod[p].phase # "none"]]
    /\ asked' = rv
    /\ UNCHANGED <<aws, payload, current, aborts, file, secret, rv, vehicle>>

Write(r) ==
    /\ step[r] = "write"
    /\ Ends(r)
    /\ file' = current[r]
    /\ UNCHANGED <<aws, payload, aborts, cluster, vehicle>>

\* A command fails, or the script is killed; a write may leave an empty file.
Abort(r) ==
    /\ step[r] # "idle"
    /\ aborts < MaxAborts
    /\ aborts' = aborts + 1
    /\ Ends(r)
    /\ payload' = [payload EXCEPT ![r] = 0]
    /\ file' \in IF step[r] = "write" THEN {file, 0} ELSE {file}
    /\ UNCHANGED <<aws, cluster, vehicle>>

-----------------------------------------------------------------------------
(* The cluster.                                                            *)

\* Mutant: strategy RollingUpdate, which does not wait for the old pod to end.
CreatePodRolling(p) ==
    /\ pod[p].phase = "none"
    /\ \A q \in Pod : pod[q].phase = "none" \/ pod[q].old
    /\ pod' = [pod EXCEPT ![p] = [NoPod EXCEPT !.phase = "pending"]]
    /\ UNCHANGED <<aws, script, secret, rv, asked, vehicle>>

\* One replica, and Recreate: when all pods are gone.
CreatePod(p) ==
    /\ \A q \in Pod : pod[q].phase = "none"
    /\ pod' = [pod EXCEPT ![p] = [NoPod EXCEPT !.phase = "pending"]]
    /\ UNCHANGED <<aws, script, secret, rv, asked, vehicle>>

\* The environment is read when a container starts; a new process has an
\* empty detector.
StartContainer(p) ==
    /\ pod[p].phase = "pending"
    /\ pod' = [pod EXCEPT ![p] = [NoPod EXCEPT !.phase = "running", !.old = pod[p].old, !.env = rv]]
    /\ UNCHANGED <<aws, script, secret, rv, asked, vehicle>>

Crash(p) ==
    /\ pod[p].phase = "running"
    /\ pod' = [pod EXCEPT ![p] = [NoPod EXCEPT !.phase = "pending", !.old = pod[p].old]]
    /\ UNCHANGED <<aws, script, secret, rv, asked, vehicle>>

\* A pod of the old revision is told to stop, and has its grace period.
StopPod(p) ==
    /\ pod[p].old
    /\ pod[p].phase \in {"pending", "running"}
    /\ pod' = [pod EXCEPT ![p] =
                  IF @.phase = "pending" THEN NoPod ELSE [@ EXCEPT !.phase = "stopping"]]
    /\ UNCHANGED <<aws, script, secret, rv, asked, vehicle>>

PodGone(p) ==
    /\ pod[p].phase = "stopping"
    /\ pod' = [pod EXCEPT ![p] = NoPod]
    /\ UNCHANGED <<aws, script, secret, rv, asked, vehicle>>

-----------------------------------------------------------------------------
(* The program, as far as one vehicle goes.                                *)

Arrive ==
    /\ ~near
    /\ near' = TRUE
    /\ UNCHANGED <<aws, script, cluster, alerts>>

Leave ==
    /\ near
    /\ near' = FALSE /\ alerts' = 0
    /\ UNCHANGED <<aws, script, cluster>>

\* Detector.Update and the report of it: an appearance is announced, unless it
\* is the first poll (FirstRun) or an earlier alert has its cooldown.
Poll(p) ==
    /\ Live(p)
    /\ pod' = [pod EXCEPT ![p].started = TRUE, ![p].present = near]
    /\ IF pod[p].started /\ near /\ ~pod[p].present
       THEN alerts' \in {alerts, alerts + 1}
       ELSE UNCHANGED alerts
    /\ UNCHANGED <<aws, script, secret, rv, asked, near>>

-----------------------------------------------------------------------------

RunSteps(r) ==
    \/ ReadSecret(r) \/ Apply(r) \/ ReadRevision(r) \/ Compare(r) \/ Restart(r) \/ Write(r)

Next ==
    \/ Rotate \/ Arrive \/ Leave
    \/ \E r \in Run : RunSteps(r) \/ Abort(r)
    \/ \E p \in Pod : \/ CreatePod(p) \/ StartContainer(p) \/ StopPod(p) \/ PodGone(p)
                     \/ Crash(p) \/ Poll(p)

\* The timer starts a run every hour, and the cluster does its work, however
\* often containers crash.  Nothing is asked of the operator, or of his runs.
Fairness ==
    /\ WF_vars(RunSteps(Timer))
    /\ WF_vars(\E p \in Pod : CreatePod(p)) /\ WF_vars(\E p \in Pod : StartContainer(p))
    /\ WF_vars(\E p \in Pod : StopPod(p)) /\ WF_vars(\E p \in Pod : PodGone(p))

Spec == Init /\ [][Next]_vars /\ Fairness

-----------------------------------------------------------------------------

\* What the file says is true: when it holds the revision of the Secret, so
\* that no run will restart anything, a container that is not about to be
\* replaced has read that very revision, whatever runs failed and in whichever
\* order they did their steps (the restart before the write of the file).
NoStalePod ==
    file = rv => \A p \in Pod : pod[p].phase = "running" /\ ~pod[p].old => pod[p].env = rv

\* A stay is announced once at most, through all restarts: two programs never
\* watch at the same time, and a new one does not announce what it finds
\* (strategy Recreate, replicas, FirstRun of the detector).
OneAlertPerStay == alerts <= 1

\* The last version arrives, and then the restarts end: however many runs
\* fail, in the end the Secret holds it, every container has it, and no pod is
\* replaced any more (unless that version lacks a key).
SecretArrives ==
    <>[](aws \notin Malformed) =>
        /\ <>[](secret = aws /\ \A p \in Pod :
                  pod[p].phase = "running" => pod[p].env = rv /\ ~pod[p].old)
        /\ []<>(\E p \in Pod : pod[p].phase = "running")
=============================================================================
