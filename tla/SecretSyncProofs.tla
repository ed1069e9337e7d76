-------------------------- MODULE SecretSyncProofs --------------------------
(***************************************************************************)
(* The recorded revision is true, and a stay is announced once, for any    *)
(* number of runs, rotations, failures and pods.                           *)
(*                                                                         *)
(* For the first, `asked` stands between the file and the Secret: a run    *)
(* that has restarted the deployment did so at a revision no older than    *)
(* the one it is about to record, and a container of the new revision has  *)
(* started after that.  For the second, Recreate leaves one pod at a time, *)
(* and the one that has announced the vehicle has it among the present.    *)
(***************************************************************************)
EXTENDS SecretSync, TLAPS

Steps == {"idle", "apply", "revision", "compare", "restart", "write"}

Phases == {"none", "pending", "running", "stopping"}

Containers == [phase : Phases, old : BOOLEAN, env : Nat, started : BOOLEAN, present : BOOLEAN]

Types ==
    /\ step \in [Run -> Steps] /\ current \in [Run -> Nat]
    /\ file \in Nat /\ asked \in Nat /\ rv \in Nat
    /\ pod \in [Pod -> Containers]
    /\ near \in BOOLEAN /\ alerts \in {0, 1}

Revisions ==
    /\ file <= asked /\ asked <= rv
    /\ \A r \in Run :
          /\ step[r] \in {"compare", "restart", "write"} => current[r] <= rv
          /\ step[r] = "write" => current[r] <= asked
    /\ \A p \in Pod : pod[p].phase = "running" /\ ~pod[p].old =>
          asked <= pod[p].env /\ pod[p].env <= rv

OnePod == \A p, q \in Pod : p # q => pod[p].phase = "none" \/ pod[q].phase = "none"

Announced ==
    /\ alerts = 1 => near
    /\ alerts = 1 => \A p \in Pod : Live(p) /\ pod[p].started => pod[p].present

IInv == Types /\ Revisions /\ OnePod /\ Announced

LEMMA NoPodIsOne ==
    /\ NoPod \in Containers
    /\ NoPod.phase = "none" /\ NoPod.started = FALSE
  BY DEF NoPod, Containers, Phases

LEMMA InitIInv == Init => IInv
<1>. SUFFICES ASSUME Init PROVE IInv
  OBVIOUS
<1>1. \A p \in Pod : pod[p] = NoPod
  BY DEF Init
<1>2. Types
  BY NoPodIsOne DEF Init, Types, Steps
<1>3. Revisions
  BY <1>1, NoPodIsOne DEF Init, Revisions
<1>4. OnePod /\ Announced
  BY <1>1, NoPodIsOne DEF Init, OnePod, Announced, Live
<1>. QED  BY <1>2, <1>3, <1>4 DEF IInv

-----------------------------------------------------------------------------

\* The steps of a run leave the pods alone, except Restart.
LEMMA StepRun ==
    ASSUME IInv, NEW r \in Run, RunSteps(r) \/ Abort(r)
    PROVE  IInv'
<1>. USE DEF IInv
<1>1. CASE ReadSecret(r)
  <2>1. Types'
    BY <1>1 DEF ReadSecret, cluster, vehicle, Types, Steps
  <2>2. Revisions'
    BY <1>1 DEF ReadSecret, cluster, Types, Revisions
  <2>. QED  BY <1>1, <2>1, <2>2 DEF ReadSecret, cluster, vehicle, OnePod, Announced, Live
<1>2. CASE Apply(r)
  <2>1. rv' \in Nat /\ rv <= rv'
    BY <1>2 DEF Apply, Types
  <2>2. Types'
    BY <1>2, <2>1 DEF Apply, vehicle, Types, Steps
  <2>3. Revisions'
    BY <1>2, <2>1 DEF Apply, Types, Revisions, Containers
  <2>. QED  BY <1>2, <2>2, <2>3 DEF Apply, vehicle, OnePod, Announced, Live
<1>3. CASE ReadRevision(r)
  <2>1. Types'
    BY <1>3 DEF ReadRevision, cluster, vehicle, Types, Steps
  <2>2. Revisions'
    BY <1>3 DEF ReadRevision, cluster, Types, Revisions
  <2>. QED  BY <1>3, <2>1, <2>2 DEF ReadRevision, cluster, vehicle, OnePod, Announced, Live
<1>4. CASE Compare(r)
  <2>1. Types'
    BY <1>4 DEF Compare, Ends, cluster, vehicle, Types, Steps
  <2>2. Revisions'
    BY <1>4 DEF Compare, Ends, cluster, Types, Revisions
  <2>. QED  BY <1>4, <2>1, <2>2 DEF Compare, cluster, vehicle, OnePod, Announced, Live
<1>5. CASE Restart(r)
  <2>1. \A p \in Pod : /\ pod'[p] \in Containers
                       /\ pod'[p].phase = pod[p].phase
                       /\ pod'[p].started = pod[p].started
                       /\ pod'[p].present = pod[p].present
                       /\ pod[p].phase # "none" => pod'[p].old
    BY <1>5 DEF Restart, Types, Containers
  <2>2. Types'
    <3>1. pod' \in [Pod -> Containers]
      BY <1>5, <2>1 DEF Restart
    <3>. QED  BY <1>5, <3>1 DEF Restart, vehicle, Types, Steps
  <2>3. Revisions'
    <3>1. /\ asked' = rv /\ step[r] = "restart" /\ step' = [step EXCEPT ![r] = "write"]
          /\ UNCHANGED <<file, rv, current>>
      BY <1>5 DEF Restart
    <3>2. file' <= asked' /\ asked' <= rv'
      BY <3>1 DEF Types, Revisions
    <3>3. \A s \in Run : step'[s] \in {"compare", "restart", "write"} => current'[s] <= rv
      BY <3>1 DEF Types, Revisions
    <3>4. \A q \in Pod : ~(pod'[q].phase = "running" /\ ~pod'[q].old)
      BY <2>1
    <3>. QED  BY <3>1, <3>2, <3>3, <3>4 DEF Revisions
  <2>4. OnePod'
    BY <2>1 DEF OnePod
  <2>5. Announced'
    BY <1>5, <2>1 DEF Restart, vehicle, Announced, Live
  <2>. QED  BY <2>2, <2>3, <2>4, <2>5
<1>6. CASE Write(r)
  <2>1. Types'
    BY <1>6 DEF Write, Ends, cluster, vehicle, Types, Steps
  <2>2. Revisions'
    BY <1>6 DEF Write, Ends, cluster, Types, Revisions
  <2>. QED  BY <1>6, <2>1, <2>2 DEF Write, cluster, vehicle, OnePod, Announced, Live
<1>7. CASE Abort(r)
  <2>1. file' \in {file, 0}
    BY <1>7 DEF Abort
  <2>2. Types'
    BY <1>7, <2>1 DEF Abort, Ends, cluster, vehicle, Types, Steps
  <2>3. Revisions'
    BY <1>7, <2>1 DEF Abort, Ends, cluster, Types, Revisions
  <2>. QED  BY <1>7, <2>2, <2>3 DEF Abort, cluster, vehicle, OnePod, Announced, Live
<1>. QED  BY <1>1, <1>2, <1>3, <1>4, <1>5, <1>6, <1>7 DEF RunSteps

\* A step that changes one pod, and nothing else of the invariant.
LEMMA StepPod ==
    ASSUME IInv, NEW p \in Pod, NEW c \in Containers,
           pod' = [pod EXCEPT ![p] = c],
           UNCHANGED <<step, current, file, asked, rv, near, alerts>>,
           c.phase = "running" /\ ~c.old => asked <= c.env /\ c.env <= rv,
           \/ c.phase = "none"
           \/ pod[p].phase # "none"
           \/ \A q \in Pod : pod[q].phase = "none",
           c.started => /\ Live(p) /\ pod[p].started
                        /\ c.present = pod[p].present
    PROVE  IInv'
<1>. USE DEF IInv
<1>1. pod'[p] = c /\ \A q \in Pod : q # p => pod'[q] = pod[q]
  BY DEF Types
<1>2. Types'
  BY DEF Types
<1>3. Revisions'
  BY <1>1 DEF Revisions
<1>4. OnePod'
  BY <1>1 DEF OnePod
<1>5. Announced'
  BY <1>1 DEF Announced, Live
<1>. QED  BY <1>2, <1>3, <1>4, <1>5

LEMMA StepCluster ==
    ASSUME IInv, NEW p \in Pod,
           CreatePod(p) \/ StartContainer(p) \/ StopPod(p) \/ PodGone(p) \/ Crash(p)
    PROVE  IInv'
<1>. USE DEF IInv
<1>0. pod[p] \in Containers
  BY DEF Types
<1>1. CASE CreatePod(p)
  <2>. DEFINE c == [NoPod EXCEPT !.phase = "pending"]
  <2>1. c \in Containers /\ c.phase = "pending" /\ ~c.started
    BY DEF NoPod, Containers, Phases
  <2>2. /\ pod' = [pod EXCEPT ![p] = c] /\ \A q \in Pod : pod[q].phase = "none"
        /\ UNCHANGED <<step, current, file, asked, rv, near, alerts>>
    BY <1>1 DEF CreatePod, script, vehicle
  <2>. HIDE DEF c
  <2>. QED  BY <2>1, <2>2, StepPod
<1>2. CASE StartContainer(p)
  <2>. DEFINE c == [NoPod EXCEPT !.phase = "running", !.old = pod[p].old, !.env = rv]
  <2>1. c \in Containers /\ c.phase = "running" /\ c.env = rv /\ ~c.started
    BY <1>0 DEF NoPod, Containers, Phases, Types
  <2>2. /\ pod' = [pod EXCEPT ![p] = c] /\ pod[p].phase = "pending"
        /\ UNCHANGED <<step, current, file, asked, rv, near, alerts>>
    BY <1>2 DEF StartContainer, script, vehicle
  <2>3. asked <= rv /\ rv <= rv
    BY DEF Types, Revisions
  <2>. HIDE DEF c
  <2>. QED  BY <2>1, <2>2, <2>3, StepPod
<1>3. CASE Crash(p)
  <2>. DEFINE c == [NoPod EXCEPT !.phase = "pending", !.old = pod[p].old]
  <2>1. c \in Containers /\ c.phase = "pending" /\ ~c.started
    BY <1>0 DEF NoPod, Containers, Phases
  <2>2. /\ pod' = [pod EXCEPT ![p] = c] /\ pod[p].phase = "running"
        /\ UNCHANGED <<step, current, file, asked, rv, near, alerts>>
    BY <1>3 DEF Crash, script, vehicle
  <2>. HIDE DEF c
  <2>. QED  BY <2>1, <2>2, StepPod
<1>4. CASE StopPod(p) /\ pod[p].phase = "pending"
  <2>1. /\ pod' = [pod EXCEPT ![p] = NoPod]
        /\ UNCHANGED <<step, current, file, asked, rv, near, alerts>>
    BY <1>4 DEF StopPod, script, vehicle, Types
  <2>. QED  BY <2>1, NoPodIsOne, StepPod
<1>5. CASE StopPod(p) /\ pod[p].phase = "running"
  <2>. DEFINE c == [pod[p] EXCEPT !.phase = "stopping"]
  <2>1. /\ c \in Containers /\ c.phase = "stopping"
        /\ c.started = pod[p].started /\ c.present = pod[p].present
    BY <1>0 DEF Containers, Phases
  <2>2. /\ pod' = [pod EXCEPT ![p] = c]
        /\ UNCHANGED <<step, current, file, asked, rv, near, alerts>>
    BY <1>5 DEF StopPod, script, vehicle, Types
  <2>3. Live(p) /\ pod[p].phase # "none"
    BY <1>5 DEF Live
  <2>. HIDE DEF c
  <2>. QED  BY <2>1, <2>2, <2>3, StepPod
<1>6. CASE PodGone(p)
  <2>1. /\ pod' = [pod EXCEPT ![p] = NoPod]
        /\ UNCHANGED <<step, current, file, asked, rv, near, alerts>>
    BY <1>6 DEF PodGone, script, vehicle
  <2>. QED  BY <2>1, NoPodIsOne, StepPod
<1>. QED  BY <1>1, <1>2, <1>3, <1>4, <1>5, <1>6 DEF StopPod

\* A poll announces the vehicle only if it has not been announced, and then the
\* one container there is has it among the present.
LEMMA StepPoll ==
    ASSUME IInv, NEW p \in Pod, Poll(p)
    PROVE  IInv'
<1>. USE DEF IInv
<1>1. /\ Live(p)
      /\ pod' = [pod EXCEPT ![p].started = TRUE, ![p].present = near]
      /\ UNCHANGED <<step, current, file, asked, rv, near>>
  BY DEF Poll, script
<1>2. pod[p] \in Containers /\ near \in BOOLEAN
  BY DEF Types
<1>3. pod'[p] = [pod[p] EXCEPT !.started = TRUE, !.present = near]
  BY <1>1 DEF Types
<1>4. /\ pod'[p] \in Containers /\ pod'[p].present = near
      /\ pod'[p].phase = pod[p].phase /\ pod'[p].old = pod[p].old /\ pod'[p].env = pod[p].env
  BY <1>2, <1>3 DEF Containers
<1>5. \A q \in Pod : q # p => pod'[q] = pod[q] /\ pod[q].phase = "none"
  BY <1>1 DEF Types, OnePod, Live
<1>6. /\ alerts' \in {0, 1}
      /\ alerts' = 1 => near
  <2>1. CASE pod[p].started /\ near /\ ~pod[p].present
    <3>1. alerts # 1
      BY <2>1, <1>1 DEF Announced
    <3>2. alerts' \in {alerts, alerts + 1}
      BY <2>1 DEF Poll
    <3>. QED  BY <2>1, <3>1, <3>2 DEF Types
  <2>2. CASE ~(pod[p].started /\ near /\ ~pod[p].present)
    <3>1. alerts' = alerts
      BY <2>2 DEF Poll
    <3>. QED  BY <3>1 DEF Types, Announced
  <2>. QED  BY <2>1, <2>2
<1>7. Types'
  <2>1. pod' \in [Pod -> Containers]
    BY <1>1, <1>4, <1>5 DEF Types
  <2>. QED  BY <1>1, <1>6, <2>1 DEF Types
<1>8. Revisions'
  BY <1>1, <1>4, <1>5 DEF Revisions
<1>9. OnePod'
  BY <1>4, <1>5 DEF OnePod
<1>10. Announced'
  BY <1>1, <1>4, <1>5, <1>6 DEF Announced, Live
<1>. QED  BY <1>7, <1>8, <1>9, <1>10

LEMMA StepIInv == IInv /\ [Next]_vars => IInv'
<1>. SUFFICES ASSUME IInv, [Next]_vars PROVE IInv'
  OBVIOUS
<1>1. CASE Rotate
  <2>1. Types'
    BY <1>1 DEF Rotate, script, cluster, vehicle, IInv, Types
  <2>2. Revisions' /\ OnePod'
    BY <1>1 DEF Rotate, script, cluster, vehicle, IInv, Types, Revisions, OnePod
  <2>3. Announced'
    BY <1>1 DEF Rotate, script, cluster, vehicle, IInv, Announced, Live
  <2>. QED  BY <2>1, <2>2, <2>3 DEF IInv
<1>2. CASE Arrive
  <2>1. alerts # 1
    BY <1>2 DEF Arrive, IInv, Announced
  <2>. QED  BY <1>2, <2>1 DEF Arrive, script, cluster, IInv, Types, Revisions, OnePod, Announced, Live
<1>3. CASE Leave
  <2>1. Types'
    BY <1>3 DEF Leave, script, cluster, IInv, Types
  <2>2. Revisions' /\ OnePod'
    BY <1>3 DEF Leave, script, cluster, IInv, Types, Revisions, OnePod
  <2>3. Announced'
    BY <1>3 DEF Leave, script, cluster, IInv, Announced, Live
  <2>. QED  BY <2>1, <2>2, <2>3 DEF IInv
<1>4. CASE UNCHANGED vars
  BY <1>4 DEF vars, script, cluster, vehicle, IInv, Types, Revisions, OnePod, Announced, Live
<1>. QED  BY <1>1, <1>2, <1>3, <1>4, StepRun, StepCluster, StepPoll DEF Next

-----------------------------------------------------------------------------

\* When the file holds the revision of the Secret, every container that stays
\* has read it: no rotation is lost, whichever runs fail or overlap.
THEOREM NoStalePodHolds == Spec => []NoStalePod
<1>1. IInv => NoStalePod
  BY DEF IInv, Types, Revisions, NoStalePod, Containers
<1>. QED  BY InitIInv, StepIInv, <1>1, PTL DEF Spec

\* No stay of a vehicle is announced twice, through all restarts.
THEOREM OneAlertPerStayHolds == Spec => []OneAlertPerStay
<1>1. IInv => OneAlertPerStay
  BY DEF IInv, Types, OneAlertPerStay
<1>. QED  BY InitIInv, StepIInv, <1>1, PTL DEF Spec
=============================================================================
