----------------------------- MODULE MessageLog -----------------------------
(***************************************************************************)
(* One stream's message_log_<id> as producers write it, together with the  *)
(* parts of Postgres the consumers' fences rest on: transaction ids, the   *)
(* BIGSERIAL id sequence, MVCC visibility and the bounds of a snapshot.    *)
(*                                                                         *)
(* A produce is one statement (protectedInsertSQL) whose claim CTE writes  *)
(* the idempotency key first, which assigns the transaction id, and whose  *)
(* insert then draws the message id from the sequence.  Other transactions *)
(* run between the two, and nothing orders commits by id.  A transaction   *)
(* draws any number of ids: none when the idempotency key was a duplicate, *)
(* one for Append, several for a batch or for AppendInTx.  An id drawn by  *)
(* a transaction that aborts is never used again.                          *)
(***************************************************************************)
EXTENDS Integers, FiniteSets

CONSTANTS
    MaxXid,   \* bound: transaction ids that are ever assigned
    MaxId,    \* bound: message ids that are ever drawn
    MaxOpen   \* bound: produce transactions open at one moment

ASSUME LogBounds == MaxXid \in Nat /\ MaxId \in Nat /\ MaxOpen \in Nat

VARIABLES
    nextXid,  \* the next transaction id Postgres assigns
    txn,      \* status of every transaction id
    lastId,   \* last_value of message_log_<id>_id_seq
    owner     \* the transaction that drew each message id, 0 = not drawn

logVars == <<nextXid, txn, lastId, owner>>

Xid == 1 .. MaxXid
Id  == 1 .. MaxId
\* SQL's GREATEST and LEAST of two values.
Larger(a, b)  == IF a >= b THEN a ELSE b
Smaller(a, b) == IF a <= b THEN a ELSE b

TxnStatus == {"unused", "running", "committed", "aborted"}

-----------------------------------------------------------------------------
(* What a statement can see. *)

Running == {x \in Xid : txn[x] = "running"}
Ended   == {x \in Xid : txn[x] \in {"committed", "aborted"}}

\* The message row is in every snapshot taken from now on.
Visible(i) == owner[i] # 0 /\ txn[owner[i]] = "committed"

\* The id's fate is decided: its row is visible, or it never will be.
Settled(i) == owner[i] # 0 /\ txn[owner[i]] # "running"

\* h is COALESCE(MAX(id), 0) over the rows visible now.
IsVisibleHead(h) ==
    /\ h # 0 => h \in Id /\ Visible(h)
    /\ \A i \in Id : Visible(i) => i <= h

\* m is pg_snapshot_xmax: one past the highest transaction id that ended.
IsXmax(m) ==
    /\ m # 1 => m - 1 \in Ended
    /\ \A x \in Ended : x < m

\* m is pg_snapshot_xmin: the lowest transaction id still running, xmax if none
\* below xmax runs.
IsXmin(m) ==
    \/ /\ IsXmax(m)
       /\ \A x \in Running : m <= x
    \/ /\ m \in Running
       /\ \A x \in Running : m <= x
       /\ \E x \in Ended : m < x

-----------------------------------------------------------------------------
(* The actions of producers. *)

LogInit ==
    /\ nextXid = 1
    /\ txn = [x \in Xid |-> "unused"]
    /\ lastId = 0
    /\ owner = [i \in Id |-> 0]

\* The claim CTE inserts the idempotency key, the transaction's first write: it
\* assigns the transaction id.
ClaimIdempotencyKey ==
    /\ nextXid <= MaxXid
    /\ Cardinality(Running) < MaxOpen
    /\ txn' = [txn EXCEPT ![nextXid] = "running"]
    /\ nextXid' = nextXid + 1
    /\ UNCHANGED <<lastId, owner>>

\* The insert draws the message id.  nextval is not transactional: the id is
\* spent whether or not the transaction commits.
InsertMessage(x) ==
    /\ txn[x] = "running"
    /\ lastId < MaxId
    /\ lastId' = lastId + 1
    /\ owner' = [owner EXCEPT ![lastId + 1] = x]
    /\ UNCHANGED <<nextXid, txn>>

CommitProduce(x) ==
    /\ txn[x] = "running"
    /\ txn' = [txn EXCEPT ![x] = "committed"]
    /\ UNCHANGED <<nextXid, lastId, owner>>

\* A handler error, a crash or a failed batch rolls the transaction back.
AbortProduce(x) ==
    /\ txn[x] = "running"
    /\ txn' = [txn EXCEPT ![x] = "aborted"]
    /\ UNCHANGED <<nextXid, lastId, owner>>

Produce ==
    \/ ClaimIdempotencyKey
    \/ \E x \in Xid : InsertMessage(x) \/ CommitProduce(x) \/ AbortProduce(x)

LogTypeOK ==
    /\ nextXid \in 1 .. MaxXid + 1
    /\ txn \in [Xid -> TxnStatus]
    /\ lastId \in 0 .. MaxId
    /\ owner \in [Id -> 0 .. MaxXid]
=============================================================================
