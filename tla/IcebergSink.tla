----------------------------- MODULE IcebergSink -----------------------------
(* The Iceberg sink: each lease becomes data files, one or more per partition, *)
(* and one append transaction that also records the lease's delivery token in  *)
(* the snapshot.  A lease whose sequence numbers the tokens of the table cover *)
(* is acknowledged without being written again.                                *)
EXTENDS LeaseFeed

VARIABLES
    catalog,      \* A catalog is configured; without one the sink only simulates.
    step,         \* Where commit_lease is with the lease it holds.
    tokens        \* Delivery tokens of the table's snapshots: ranges committed.

icebergVars == <<catalog, step, tokens>>

Steps == {"idle", "open", "write", "commit", "refresh"}

IcebergTypeOK ==
    /\ catalog \in BOOLEAN
    /\ step \in Steps
    /\ tokens \subseteq [first : 1..MaxSeq, last : 1..MaxSeq]

IcebergInit ==
    /\ catalog \in BOOLEAN
    /\ step = "idle"
    /\ tokens = {}

IcebergLease == CHOOSE l \in held : TRUE

-----------------------------------------------------------------------------
\* classify_iceberg_error, over what the catalog and the object store answer.
ClassifyIceberg(err) ==
    CASE err = "io" -> "Transient"
      [] err = "datainvalid" -> "Rejected"
      [] err = "forbidden" -> "Fatal"

IcebergErrors == {"io", "datainvalid", "forbidden"}

\* has_committed_lease with token_matches_lease and intervals_cover_range: one
\* token holds the lease's range, or the tokens together leave no gap in it.
HasCommittedLease(l) == Seqs(l) \subseteq UNION {Seqs(t) : t \in tokens}

AckIceberg ==
    /\ Ack(IcebergLease) /\ step' = "idle"
    /\ UNCHANGED <<configured, workload, arrived, restarts, catalog>>

NackIceberg(err) ==
    /\ Nack(IcebergLease, ClassifyIceberg(err)) /\ step' = "idle"
    /\ UNCHANGED <<configured, workload, arrived, restarts, catalog>>

ContinueWith(s) ==
    /\ step' = s
    /\ UNCHANGED <<configured, workload, arrived, done, quarantined, held, nacked, loop, restarts, catalog>>

-----------------------------------------------------------------------------
(* commit_lease                                                               *)

StartCommit(l) ==
    /\ step = "idle" /\ held = {}
    /\ Take(l)
    /\ ~(Seqs(l) \subseteq Empty)
    /\ step' = "open"
    /\ UNCHANGED <<configured, workload, arrived, done, quarantined, loop, faults, restarts, stored, catalog, tokens>>

SkipEmptyCommit(l) ==
    /\ step = "idle"
    /\ AckEmpty(l)
    /\ UNCHANGED icebergVars

\* Without a catalog there is no table: the batch is still prepared.
SimulateCommit ==
    /\ step = "open" /\ ~catalog
    /\ UNCHANGED <<faults, stored, tokens>>
    /\ IF Seqs(IcebergLease) \cap Malformed = {}
       THEN AckIceberg
       ELSE NackIceberg("datainvalid")

\* load_table, the duplicate check, and Lease::prepare.
OpenTable ==
    /\ step = "open" /\ catalog
    /\ UNCHANGED <<stored, tokens>>
    /\ \/ HasCommittedLease(IcebergLease) /\ AckIceberg /\ UNCHANGED faults
       \/ /\ ~HasCommittedLease(IcebergLease)
          /\ IF Seqs(IcebergLease) \cap Malformed = {}
             THEN ContinueWith("write")
             ELSE NackIceberg("datainvalid")
          /\ UNCHANGED faults
       \/ Fault /\ \E err \in IcebergErrors : NackIceberg(err)

\* A partition's file cannot be written: the files written before it stay in the
\* object store, and no snapshot refers to them.
WriteFiles ==
    /\ step = "write"
    /\ UNCHANGED <<stored, tokens>>
    /\ \/ ContinueWith("commit") /\ UNCHANGED faults
       \/ Fault /\ \E err \in IcebergErrors : NackIceberg(err)

\* Mutant: the append does not carry the delivery token.
CommitWithoutToken ==
    /\ step = "commit"
    /\ \/ AckIceberg /\ UNCHANGED faults
       \/ Fault /\ ContinueWith("refresh")
    /\ Visible(IcebergLease.first, IcebergLease.last, 0)
    /\ UNCHANGED tokens

\* The append and its token become visible together, and the catalog's answer
\* may be lost; or the catalog refuses.
CommitTransaction ==
    /\ step = "commit"
    /\ \/ /\ \/ AckIceberg /\ UNCHANGED faults
             \/ Fault /\ ContinueWith("refresh")
          /\ Visible(IcebergLease.first, IcebergLease.last, 0)
          /\ tokens' = tokens \cup {[first |-> IcebergLease.first, last |-> IcebergLease.last]}
       \/ Fault /\ ContinueWith("refresh") /\ UNCHANGED <<stored, tokens>>

\* After a failed commit the table is read again before the lease is nacked.
RefreshTable ==
    /\ step = "refresh"
    /\ UNCHANGED <<stored, tokens>>
    /\ \/ HasCommittedLease(IcebergLease) /\ AckIceberg /\ UNCHANGED faults
       \/ ~HasCommittedLease(IcebergLease) /\ UNCHANGED faults
            /\ \E err \in IcebergErrors : NackIceberg(err)
       \/ Fault /\ \E err \in IcebergErrors : NackIceberg(err)

RestartIceberg ==
    /\ Restart
    /\ step' = "idle"
    /\ UNCHANGED <<catalog, tokens>>

IcebergSteps ==
    \/ \E l \in NextLeases : StartCommit(l) \/ SkipEmptyCommit(l)
    \/ SimulateCommit \/ OpenTable \/ WriteFiles \/ CommitTransaction \/ RefreshTable

IcebergNext ==
    \/ IcebergSteps
    \/ RestartIceberg
    \/ Arrive /\ UNCHANGED icebergVars

=============================================================================
