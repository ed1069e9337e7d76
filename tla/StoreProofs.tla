---------------------------- MODULE StoreProofs ----------------------------
(***************************************************************************)
(* Snapshots are whole and durable, for any number of processes, calls and *)
(* vehicles.                                                               *)
(***************************************************************************)
EXTENDS Store, TLAPS

Writing == {"inserted", "copied"}

Shape ==
    /\ pc \in [Process -> {"down", "idle", "begin", "closing"} \cup InTx]
    /\ fence \in [Process -> Nat]
    /\ tx \in [Process -> [id : Nat, nb : Nat, rows : Nat]]
    /\ leased \in [Process -> Int]
    /\ nextID \in Nat
    /\ DOMAIN snapshot \in SUBSET Nat
    /\ snapshot \in [DOMAIN snapshot -> Nat]
    /\ DOMAIN position \in SUBSET Nat
    /\ position \in [DOMAIN position -> Nat]

\* The sequence runs ahead of every id in use, and two transactions have
\* different ids, none of which is committed.
IDsFresh ==
    /\ \A i \in DOMAIN snapshot : i < nextID
    /\ \A p \in Process : pc[p] \in Writing =>
          /\ tx[p].id < nextID
          /\ tx[p].id \notin DOMAIN snapshot
    /\ \A p, q \in Process :
          pc[p] \in Writing /\ pc[q] \in Writing /\ tx[p].id = tx[q].id => p = q

\* A transaction that is ready to commit holds a whole snapshot.
TxWhole ==
    \A p \in Process :
        /\ pc[p] = "inserted" => tx[p].nb = fence[p]
        /\ pc[p] = "copied" => tx[p].rows = tx[p].nb

\* The inductive invariant.
StoreInv == Shape /\ IDsFresh /\ TxWhole /\ Whole /\ Durable

\* Init establishes it.
LEMMA InitStore == Init => StoreInv
  BY DEF Init, StoreInv, Shape, IDsFresh, TxWhole, Whole, Durable, Writing, InTx, NoTx, RowsOf

\* A step that leaves the database and every open transaction but p's alone,
\* and p outside a transaction.
LEMMA Leaves ==
    ASSUME StoreInv, NEW p \in Process, NEW s \in {"down", "idle", "begin", "closing", "begun"},
           pc' = [pc EXCEPT ![p] = s],
           fence' \in [Process -> Nat],
           \A q \in Process \ {p} : fence'[q] = fence[q] /\ tx'[q] = tx[q],
           tx' \in [Process -> [id : Nat, nb : Nat, rows : Nat]],
           leased' \in [Process -> Int],
           UNCHANGED <<db, saved>>
    PROVE  StoreInv'
  <1> USE DEF StoreInv, db
  <1>1. Shape'
    BY DEF Shape, InTx
  <1>2. \A q \in Process : pc'[q] \in Writing =>
            q # p /\ pc'[q] = pc[q] /\ tx'[q] = tx[q] /\ fence'[q] = fence[q]
    BY DEF Shape, Writing
  <1>3. IDsFresh'
    BY <1>2 DEF IDsFresh, Writing
  <1>4. TxWhole'
    BY <1>2 DEF TxWhole, Writing
  <1>5. Whole' /\ Durable'
    BY DEF Whole, Durable, RowsOf
  <1> QED
    BY <1>1, <1>3, <1>4, <1>5

\* The transaction of p is committed and p leaves it.
LEMMA CommitKeeps ==
    ASSUME StoreInv, NEW p \in Process, pc[p] = "copied", Commits(p),
           NEW s \in {"down", "idle"},
           pc' = [pc EXCEPT ![p] = s],
           tx' = [tx EXCEPT ![p] = NoTx],
           leased' \in [Process -> Int],
           UNCHANGED fence,
           saved' \in SUBSET (saved \cup {tx[p].id})
    PROVE  StoreInv'
  <1> USE DEF StoreInv
  <1> PICK i \in Nat : i = tx[p].id
    BY DEF Shape
  <1>1. /\ tx[p].nb \in Nat /\ tx[p].rows \in Nat
        /\ i < nextID /\ i \notin DOMAIN snapshot
        /\ tx[p].rows = tx[p].nb
    BY DEF Shape, IDsFresh, TxWhole, Writing
  <1>2. /\ DOMAIN snapshot' = DOMAIN snapshot \cup {i}
        /\ snapshot'[i] = tx[p].nb
        /\ \A j \in DOMAIN snapshot : snapshot'[j] = snapshot[j]
        /\ snapshot' \in [DOMAIN snapshot' -> Nat]
        /\ nextID' = nextID
    BY <1>1 DEF Commits, Shape
  <1>3. i \notin DOMAIN position
    BY <1>1 DEF Whole
  <1>4. /\ DOMAIN position' \subseteq DOMAIN position \cup {i}
        /\ RowsOf(i)' = tx[p].nb
        /\ \A j \in DOMAIN snapshot : RowsOf(j)' = RowsOf(j)
        /\ position' \in [DOMAIN position' -> Nat]
    <2>1. CASE tx[p].rows = 0
      BY <1>1, <1>3, <2>1 DEF Commits, RowsOf, Shape
    <2>2. CASE tx[p].rows # 0
      BY <1>1, <1>3, <2>2 DEF Commits, RowsOf, Shape
    <2> QED
      BY <2>1, <2>2
  <1>5. \A q \in Process : pc'[q] \in Writing =>
            q # p /\ pc'[q] = pc[q] /\ tx'[q] = tx[q]
    BY DEF Shape, Writing
  <1>6. Shape'
    <2>1. tx' \in [Process -> [id : Nat, nb : Nat, rows : Nat]]
      BY DEF Shape, NoTx
    <2> QED
      BY <1>1, <1>2, <1>4, <2>1 DEF Shape, InTx
  <1>7. IDsFresh'
    <2>1. \A j \in DOMAIN snapshot' : j < nextID'
      BY <1>1, <1>2 DEF IDsFresh
    <2>2. ASSUME NEW q \in Process, pc'[q] \in Writing
          PROVE  tx'[q].id < nextID' /\ tx'[q].id \notin DOMAIN snapshot'
      <3>1. q # p /\ pc[q] \in Writing /\ tx'[q] = tx[q] /\ pc[p] \in Writing
        BY <1>5, <2>2 DEF Writing
      <3>2. tx[q].id # i
        BY <3>1 DEF IDsFresh
      <3> QED
        BY <1>2, <3>1, <3>2 DEF IDsFresh
    <2>3. \A q, r \in Process :
             pc'[q] \in Writing /\ pc'[r] \in Writing /\ tx'[q].id = tx'[r].id => q = r
      BY <1>5 DEF IDsFresh
    <2> QED
      BY <2>1, <2>2, <2>3 DEF IDsFresh, Writing
  <1>8. TxWhole'
    BY <1>5 DEF TxWhole, Writing
  <1>9. Whole'
    BY <1>1, <1>2, <1>4 DEF Whole
  <1>10. Durable'
    BY <1>2 DEF Durable
  <1> QED
    BY <1>6, <1>7, <1>8, <1>9, <1>10

\* INSERT takes a new id; the others keep theirs.
LEMMA InsertKeeps ==
    ASSUME StoreInv, NEW p \in Process, Insert(p)
    PROVE  StoreInv'
  <1> USE DEF StoreInv, Insert
  <1>1. /\ tx'[p] = [id |-> nextID, nb |-> fence[p], rows |-> 0]
        /\ fence[p] \in Nat
        /\ pc'[p] = IF fence[p] > 0 THEN "inserted" ELSE "copied"
        /\ \A q \in Process \ {p} : pc'[q] = pc[q] /\ tx'[q] = tx[q]
    BY DEF Shape
  <1>2. Shape'
    BY DEF Shape, InTx
  <1>3. IDsFresh'
    <2>1. \A i \in DOMAIN snapshot : i < nextID' /\ i # nextID
      BY DEF IDsFresh, Shape
    <2>2. \A q \in Process \ {p} : pc[q] \in Writing => tx[q].id < nextID /\ tx[q].id # nextID
      BY DEF IDsFresh, Shape
    <2>3. \A q \in Process \ {p} : pc[q] \in Writing => tx[q].id < nextID'
      BY <2>2 DEF Shape
    <2>4. \A q, r \in Process :
             pc'[q] \in Writing /\ pc'[r] \in Writing /\ tx'[q].id = tx'[r].id => q = r
      BY <1>1, <2>2 DEF IDsFresh
    <2>5. \A q \in Process : pc'[q] \in Writing =>
             tx'[q].id < nextID' /\ tx'[q].id \notin DOMAIN snapshot
      BY <1>1, <2>1, <2>3 DEF IDsFresh, Shape
    <2> QED
      BY <2>1, <2>4, <2>5 DEF IDsFresh, Writing
  <1>4. TxWhole'
    BY <1>1 DEF TxWhole, Shape
  <1>5. Whole' /\ Durable'
    BY DEF Whole, Durable, RowsOf
  <1> QED
    BY <1>2, <1>3, <1>4, <1>5

\* The copy completes the transaction.
LEMMA CopyKeeps ==
    ASSUME StoreInv, NEW p \in Process, CopyFrom(p)
    PROVE  StoreInv'
  <1> USE DEF StoreInv, CopyFrom, db
  <1>1. /\ tx'[p].id = tx[p].id /\ tx'[p].nb = tx[p].nb /\ tx'[p].rows = fence[p]
        /\ tx[p].nb = fence[p]
        /\ pc[p] \in Writing
        /\ \A q \in Process \ {p} : pc'[q] = pc[q] /\ tx'[q] = tx[q]
    BY DEF Shape, TxWhole, Writing
  <1>2. Shape'
    BY DEF Shape, InTx
  <1>3. \A q \in Process : (pc'[q] \in Writing <=> pc[q] \in Writing) /\ tx'[q].id = tx[q].id
    BY <1>1 DEF Shape, Writing
  <1>4. IDsFresh'
    BY <1>3 DEF IDsFresh, Writing
  <1>5. TxWhole'
    BY <1>1 DEF TxWhole, Shape
  <1>6. Whole' /\ Durable'
    BY DEF Whole, Durable, RowsOf
  <1> QED
    BY <1>2, <1>4, <1>5, <1>6

\* Every step of the store keeps the invariant.
LEMMA StepStore == StoreInv /\ [Next]_vars => StoreInv'
  <1> SUFFICES ASSUME StoreInv, [Next]_vars PROVE StoreInv'
    OBVIOUS
  <1>1. CASE UNCHANGED vars
    BY <1>1 DEF vars, db, StoreInv, Shape, IDsFresh, TxWhole, Whole, Durable, RowsOf, Writing, InTx
  <1>2. ASSUME NEW p \in Process,
               Open(p) \/ Begin(p) \/ BeginFails(p) \/ BeginCancelled(p)
                 \/ StartClose(p) \/ Close(p)
        PROVE  StoreInv'
    <2>1. PICK s \in {"down", "idle", "begin", "closing", "begun"} :
                 pc' = [pc EXCEPT ![p] = s]
      BY <1>2 DEF Open, Begin, BeginFails, BeginCancelled, StartClose, Close
    <2>2. fence' = fence /\ UNCHANGED <<db, saved>>
      BY <1>2 DEF Open, Begin, BeginFails, BeginCancelled, StartClose, Close
    <2>3. tx' = tx \/ tx' = [tx EXCEPT ![p] = NoTx]
      BY <1>2 DEF Open, Begin, BeginFails, BeginCancelled, StartClose, Close
    <2>4. leased' \in [Process -> Int]
      BY <1>2 DEF Open, Begin, BeginFails, BeginCancelled, StartClose, Close, StoreInv, Shape
    <2>5. /\ tx' \in [Process -> [id : Nat, nb : Nat, rows : Nat]]
          /\ \A q \in Process \ {p} : fence'[q] = fence[q] /\ tx'[q] = tx[q]
      BY <2>2, <2>3 DEF StoreInv, Shape, NoTx
    <2>6. fence' \in [Process -> Nat]
      BY <2>2 DEF StoreInv, Shape
    <2> QED
      BY <2>1, <2>2, <2>4, <2>5, <2>6, Leaves
  <1>3. ASSUME NEW p \in Process, NEW n \in 0..MaxFence, Call(p, n)
        PROVE  StoreInv'
    <2>1. /\ pc' = [pc EXCEPT ![p] = "begin"]
          /\ fence' \in [Process -> Nat]
          /\ \A q \in Process \ {p} : fence'[q] = fence[q] /\ tx'[q] = tx[q]
          /\ tx' \in [Process -> [id : Nat, nb : Nat, rows : Nat]]
          /\ leased' \in [Process -> Int]
          /\ UNCHANGED <<db, saved>>
      BY <1>3, StoreAssumption DEF Call, StoreInv, Shape
    <2> QED
      BY <2>1, Leaves
  <1>4. ASSUME NEW p \in Process, Commit(p) \/ Fails(p) \/ Crash(p)
        PROVE  StoreInv'
    <2>1. PICK s \in {"down", "idle"} : pc' = [pc EXCEPT ![p] = s]
      BY <1>4 DEF Commit, Fails, Crash
    <2>2. tx' = [tx EXCEPT ![p] = NoTx] /\ UNCHANGED fence
      BY <1>4 DEF Commit, Fails, Crash
    <2>3. leased' \in [Process -> Int]
      BY <1>4 DEF Commit, Fails, Crash, Released, StoreInv, Shape
    <2>4. CASE pc[p] = "copied" /\ Commits(p)
      <3>1. saved' \in SUBSET (saved \cup {tx[p].id})
        BY <1>4 DEF Commit, Fails, Crash
      <3> QED
        BY <2>1, <2>2, <2>3, <2>4, <3>1, CommitKeeps
    <2>5. CASE UNCHANGED <<db, saved>>
      <3>1. /\ tx' \in [Process -> [id : Nat, nb : Nat, rows : Nat]]
            /\ fence' \in [Process -> Nat]
            /\ \A q \in Process \ {p} : fence'[q] = fence[q] /\ tx'[q] = tx[q]
        BY <2>2 DEF StoreInv, Shape, NoTx
      <3> QED
        BY <2>1, <2>3, <2>5, <3>1, Leaves
    <2> QED
      BY <1>4, <2>4, <2>5 DEF Commit, Fails, Crash
  <1> QED
    BY <1>1, <1>2, <1>3, <1>4, InsertKeeps, CopyKeeps DEF Next, Statement

\* Whole: no reader ever sees half a snapshot.
THEOREM WholeTheorem == Spec => []Whole
  <1>1. StoreInv => Whole
    BY DEF StoreInv
  <1> QED
    BY InitStore, StepStore, <1>1, PTL DEF Spec

\* Durable: what was reported saved is there.
THEOREM DurableTheorem == Spec => []Durable
  <1>1. StoreInv => Durable
    BY DEF StoreInv
  <1> QED
    BY InitStore, StepStore, <1>1, PTL DEF Spec
=============================================================================
