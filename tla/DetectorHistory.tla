-------------------------- MODULE DetectorHistory ---------------------------
(***************************************************************************)
(* The detector with history variables.  They are not in the code: they   *)
(* record what its caller has seen, and only properties read them.         *)
(***************************************************************************)
EXTENDS Detector

VARIABLES
    announcedAt,  \* vehicle -> when it was last in a returned diff.New
    foundAt       \* vehicle -> when the first poll found it already there

history == <<announcedAt, foundAt>>
hvars == <<vars, history>>

\* The history h after the vehicles of S are recorded at the current clock.
Recorded(h, S) ==
    [id \in DOMAIN h \cup S |-> IF id \in S THEN clock ELSE h[id]]

HInit ==
    /\ Init
    /\ announcedAt = [id \in {} |-> 0]
    /\ foundAt = [id \in {} |-> 0]

HTick == Tick /\ UNCHANGED history

HPoll ==
    /\ Poll
    /\ announcedAt' = Recorded(announcedAt, diff'.New)
    /\ foundAt' = Recorded(foundAt, IF started THEN {} ELSE present')

HNext == HTick \/ HPoll

HSpec == HInit /\ [][HNext]_hvars

-----------------------------------------------------------------------------

\* The vehicles somebody may know about: announced, or there from the start.
Noticed == DOMAIN announcedAt \cup DOMAIN foundAt

NoticedAt(id) == IF id \in DOMAIN announcedAt THEN announcedAt[id] ELSE foundAt[id]

\* Is the vehicle within the cooldown of its last notice?
Cooling(id) ==
    /\ id \in Noticed
    /\ RealertAfter > 0 => clock - NoticedAt(id) < RealertAfter

\* Anti-flapping (shouldAlert and prune together): however a vehicle leaves
\* and comes back, and whatever prune has forgotten in between, it is not
\* announced within RealertAfter of its last notice, and never twice when
\* RealertAfter is 0.
CooldownHonoured == [][HPoll => \A id \in diff'.New : ~Cooling(id)]_hvars

\* The other direction, no lost arrival: a vehicle that enters the fence after
\* the first poll is passed over only while it is cooling.
ArrivalAnnounced ==
    [][HPoll /\ started =>
         \A id \in present' \ present : Cooling(id) \/ id \in diff'.New]_hvars

\* prune bounds the memory: after a poll, whoever is remembered is in the fence
\* or was noticed within the last two cooldowns.
MemoryBounded ==
    [][HPoll /\ RealertAfter > 0 =>
         \A id \in DOMAIN lastAlerted' \ present' :
            clock - NoticedAt(id)' <= 2 * RealertAfter]_hvars

=============================================================================
