------------------------------- MODULE Store -------------------------------
(***************************************************************************)
(* internal/store/store_postgres.go: the snapshots of the polls in         *)
(* PostgreSQL.  SaveSnapshot writes one row of vehicle_snapshot and one    *)
(* row of vehicle_position per vehicle, in a transaction, over a           *)
(* connection of a bounded pool.                                           *)
(*                                                                         *)
(* Several processes may use the database (a pod and its replacement).  A  *)
(* statement may fail, the ctx may be cancelled, the connection may be     *)
(* lost and the process may be killed between any two statements; when     *)
(* that happens at COMMIT, nobody knows whether the server committed.  The *)
(* vehicles of a snapshot are counted, not named.                          *)
(***************************************************************************)
EXTENDS Integers

CONSTANTS
    Process,   \* the processes that use the database
    MaxConns,  \* cfg.MaxConns, 4
    MaxFence,  \* bound: vehicles of a snapshot
    MaxSaves   \* bound: calls of SaveSnapshot, over all processes

ASSUME StoreAssumption ==
    /\ MaxConns \in Nat \ {0}
    /\ MaxFence \in Nat
    /\ MaxSaves \in Nat

VARIABLES
    pc,         \* process -> where it is
    fence,      \* process -> len(s.InFence) of its current call
    tx,         \* process -> its transaction, as the server sees it
    leased,     \* process -> connections taken from its pool
    saves,      \* calls of SaveSnapshot so far
    \* the database
    nextID,     \* the sequence behind BIGSERIAL; a rollback does not reset it
    snapshot,   \* vehicle_snapshot: id -> nb_in_fence
    position,   \* vehicle_position: snapshot_id -> number of rows
    \* history
    saved       \* the snapshots whose SaveSnapshot returned nil

db == <<nextID, snapshot, position>>
vars == <<pc, fence, tx, leased, saves, db, saved>>

NoTx == [id |-> 0, nb |-> 0, rows |-> 0]

InTx == {"begun", "inserted", "copied"}

-----------------------------------------------------------------------------

Init ==
    /\ pc = [p \in Process |-> "down"]
    /\ fence = [p \in Process |-> 0]
    /\ tx = [p \in Process |-> NoTx]
    /\ leased = [p \in Process |-> 0]
    /\ saves = 0
    /\ nextID = 1
    /\ snapshot = [i \in {} |-> 0]
    /\ position = [i \in {} |-> 0]
    /\ saved = {}

\* Open: the pool is new; on any error it is closed again and the program
\* exits, which leaves the state as it was.
Open(p) ==
    /\ pc[p] = "down"
    /\ pc' = [pc EXCEPT ![p] = "idle"]
    /\ leased' = [leased EXCEPT ![p] = 0]
    /\ UNCHANGED <<fence, tx, saves, db, saved>>

\* SaveSnapshot is called with n vehicles.
Call(p, n) ==
    /\ pc[p] = "idle"
    /\ saves < MaxSaves
    /\ saves' = saves + 1
    /\ fence' = [fence EXCEPT ![p] = n]
    /\ pc' = [pc EXCEPT ![p] = "begin"]
    /\ UNCHANGED <<tx, leased, db, saved>>

\* pool.Begin waits for a connection as long as the ctx lives.
Begin(p) ==
    /\ pc[p] = "begin"
    /\ leased[p] < MaxConns
    /\ leased' = [leased EXCEPT ![p] = @ + 1]
    /\ tx' = [tx EXCEPT ![p] = NoTx]
    /\ pc' = [pc EXCEPT ![p] = "begun"]
    /\ UNCHANGED <<fence, saves, db, saved>>

\* Begin failed: no connection is kept, and nothing is rolled back.
BeginFails(p) ==
    /\ pc[p] = "begin"
    /\ leased[p] < MaxConns
    /\ pc' = [pc EXCEPT ![p] = "idle"]
    /\ UNCHANGED <<fence, tx, leased, saves, db, saved>>

\* The ctx was cancelled while Begin waited, for a connection or for the
\* server.
BeginCancelled(p) ==
    /\ pc[p] = "begin"
    /\ pc' = [pc EXCEPT ![p] = "idle"]
    /\ UNCHANGED <<fence, tx, leased, saves, db, saved>>

\* Mutant: the row is inserted through the pool, outside the transaction.
InsertAlone(p) ==
    /\ pc[p] = "begun"
    /\ tx' = [tx EXCEPT ![p] = [id |-> nextID, nb |-> fence[p], rows |-> 0]]
    /\ snapshot' = [i \in DOMAIN snapshot \cup {nextID} |->
                       IF i = nextID THEN fence[p] ELSE snapshot[i]]
    /\ nextID' = nextID + 1
    /\ pc' = [pc EXCEPT ![p] = IF fence[p] > 0 THEN "inserted" ELSE "copied"]
    /\ UNCHANGED <<fence, leased, saves, position, saved>>

\* INSERT INTO vehicle_snapshot ... RETURNING id.  An empty fence has no
\* positions to copy.
Insert(p) ==
    /\ pc[p] = "begun"
    /\ tx' = [tx EXCEPT ![p] = [id |-> nextID, nb |-> fence[p], rows |-> 0]]
    /\ nextID' = nextID + 1
    /\ pc' = [pc EXCEPT ![p] = IF fence[p] > 0 THEN "inserted" ELSE "copied"]
    /\ UNCHANGED <<fence, leased, saves, snapshot, position, saved>>

\* tx.CopyFrom(vehicle_position).
CopyFrom(p) ==
    /\ pc[p] = "inserted"
    /\ tx' = [tx EXCEPT ![p].rows = fence[p]]
    /\ pc' = [pc EXCEPT ![p] = "copied"]
    /\ UNCHANGED <<fence, leased, saves, db, saved>>

\* The server commits the transaction of p.
Commits(p) ==
    LET t == tx[p]
    IN  /\ snapshot' = [i \in DOMAIN snapshot \cup {t.id} |->
                           IF i = t.id THEN t.nb ELSE snapshot[i]]
        /\ position' = IF t.rows = 0 THEN position
                       ELSE [i \in DOMAIN position \cup {t.id} |->
                                IF i = t.id THEN t.rows ELSE position[i]]
        /\ UNCHANGED nextID

Released(p) == leased' = [leased EXCEPT ![p] = @ - 1]

\* tx.Commit returned nil; the deferred Rollback does nothing.
Commit(p) ==
    /\ pc[p] = "copied"
    /\ Commits(p)
    /\ Released(p)
    /\ saved' = saved \cup {tx[p].id}
    /\ tx' = [tx EXCEPT ![p] = NoTx]
    /\ pc' = [pc EXCEPT ![p] = "idle"]
    /\ UNCHANGED <<fence, saves>>

\* Mutant: an error of Commit is not returned.
FailsQuietly(p) ==
    /\ pc[p] \in InTx
    /\ UNCHANGED db
    /\ saved' = IF pc[p] = "copied" THEN saved \cup {tx[p].id} ELSE saved
    /\ Released(p)
    /\ tx' = [tx EXCEPT ![p] = NoTx]
    /\ pc' = [pc EXCEPT ![p] = "idle"]
    /\ UNCHANGED <<fence, saves>>

\* Mutant: Rollback is not deferred, so that an early return keeps the
\* connection.
FailsLeaking(p) ==
    /\ pc[p] \in InTx
    /\ UNCHANGED <<db, leased>>
    /\ tx' = [tx EXCEPT ![p] = NoTx]
    /\ pc' = [pc EXCEPT ![p] = "idle"]
    /\ UNCHANGED <<fence, saves, saved>>

\* A statement failed: the error is returned after the deferred Rollback, which
\* gives the connection back whether or not it still works.  An error of COMMIT
\* does not say that the server did not commit.
Fails(p) ==
    /\ pc[p] \in InTx
    /\ \/ UNCHANGED db
       \/ pc[p] = "copied" /\ Commits(p)
    /\ Released(p)
    /\ tx' = [tx EXCEPT ![p] = NoTx]
    /\ pc' = [pc EXCEPT ![p] = "idle"]
    /\ UNCHANGED <<fence, saves, saved>>

\* The process is killed: the server rolls its transaction back, unless it was
\* just committing it.
Crash(p) ==
    /\ pc[p] # "down"
    /\ \/ UNCHANGED db
       \/ pc[p] = "copied" /\ Commits(p)
    /\ tx' = [tx EXCEPT ![p] = NoTx]
    /\ leased' = [leased EXCEPT ![p] = 0]
    /\ pc' = [pc EXCEPT ![p] = "down"]
    /\ UNCHANGED <<fence, saves, saved>>

\* The program leaves its loop and calls Close, which waits until every
\* connection is back.
StartClose(p) ==
    /\ pc[p] = "idle"
    /\ pc' = [pc EXCEPT ![p] = "closing"]
    /\ UNCHANGED <<fence, tx, leased, saves, db, saved>>

Close(p) ==
    /\ pc[p] = "closing"
    /\ leased[p] = 0
    /\ pc' = [pc EXCEPT ![p] = "down"]
    /\ UNCHANGED <<fence, tx, leased, saves, db, saved>>

Statement(p) ==
    Begin(p) \/ BeginFails(p) \/ Insert(p) \/ CopyFrom(p) \/ Commit(p) \/ Fails(p)

Next ==
    \E p \in Process :
        \/ Open(p)
        \/ \E n \in 0..MaxFence : Call(p, n)
        \/ Statement(p)
        \/ BeginCancelled(p)
        \/ Crash(p)
        \/ StartClose(p)
        \/ Close(p)

Spec == Init /\ [][Next]_vars

\* The database answers every statement, well or badly.
FairSpec == Spec /\ \A p \in Process : WF_vars(Statement(p)) /\ WF_vars(Close(p))

-----------------------------------------------------------------------------

RowsOf(id) == IF id \in DOMAIN position THEN position[id] ELSE 0

\* A snapshot is whole or absent, at every moment and for every reader: each
\* row of vehicle_snapshot has exactly nb_in_fence positions, and no position
\* is without its snapshot, wherever a call failed or its process died
\* (SaveSnapshot writes "dans une seule transaction").
Whole ==
    /\ DOMAIN position \subseteq DOMAIN snapshot
    /\ \A id \in DOMAIN snapshot : RowsOf(id) = snapshot[id]

\* A snapshot that was reported saved is in the database, for good
\* (SaveSnapshot returns nil only after COMMIT).
Durable == saved \subseteq DOMAIN snapshot

\* However many calls failed, and wherever, the pool is not used up: every
\* call gets a connection and returns, and Close ends (the deferred Rollback).
CallsReturn ==
    \A p \in Process : pc[p] \in {"begin", "closing"} ~> pc[p] \in {"idle", "down"}
=============================================================================
