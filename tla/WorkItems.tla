------------------------------ MODULE WorkItems ------------------------------
(***************************************************************************)
(* One work_id of the ClickHouse table work_items, as a FINAL read sees    *)
(* it.  The table is a ReplacingMergeTree(revision): every operation of    *)
(* the queue appends a version, and FINAL keeps the version with the       *)
(* highest revision (the last one inserted among equals).  The versions    *)
(* each operation appends are the operators below; Put is the merge.       *)
(*                                                                         *)
(* Columns kept: status, attempts, revision, lease_owner and, as a Boolean *)
(* "due", whether next_attempt_at has passed.  lease_until is kept by      *)
(* WorkQueue, next to the lease it belongs to.                             *)
(***************************************************************************)
EXTENDS Integers

CONSTANTS
  Workers,       \* indexer processes (RuntimeConfig.worker_id)
  NoOwner,       \* the empty lease_owner
  AttemptLimit,  \* bound on the attempts column (UInt16 in the schema)
  MaxRevision    \* MAX_REVISION, 2^64 - 1 in the code

(* Every revision a retry can carry lies below the three terminal ones.    *)
(* The code has 10 * 65535 + 2 against 2^64 - 3.                           *)
ASSUME RevisionHeadroom ==
  /\ AttemptLimit \in Nat
  /\ MaxRevision \in Nat
  /\ 10 * AttemptLimit + 2 < MaxRevision - 2

ASSUME NoOwnerIsNoWorker == NoOwner \notin Workers

(* A mutated set: what was given up is never purged. *)
TerminalDoneOnly == {"done"}

TERMINAL_WORK_STATUSES == {"done", "dead", "unavailable_from_public_api"}

Open == {"pending", "running"}

Row ==
  [ status   : {"absent"} \cup Open \cup TERMINAL_WORK_STATUSES,
    attempts : 0 .. AttemptLimit,
    revision : -1 .. MaxRevision,
    owner    : Workers \cup {NoOwner},
    due      : BOOLEAN ]

Version(status, attempts, revision, owner, due) ==
  [ status |-> status, attempts |-> attempts, revision |-> revision,
    owner |-> owner, due |-> due ]

(* No version of the work_id is in the table. *)
Absent == Version("absent", 0, -1, NoOwner, FALSE)

(* A mutated Put: on equal revisions, or a lower one, the newest insert wins. *)
PutNewest(current, new) == new

Put(current, new) == IF new.revision >= current.revision THEN new ELSE current

-----------------------------------------------------------------------------

EnqueueRow == Version("pending", 0, 0, NoOwner, TRUE)

(* A mutated lease: the attempt is counted by the reader and the writer. *)
LeaseRowCountedTwice(worker, attempt) ==
  Version("running", attempt + 1, attempt * 10 + 1, worker, TRUE)

LeaseRow(worker, attempt) ==
  Version("running", attempt, attempt * 10 + 1, worker, TRUE)

(* A mutated release: the abandoned attempt stays on the bill. *)
ReleaseRowCharging(attempt) ==
  Version("pending", attempt, attempt * 10 + 2, NoOwner, TRUE)

ReleaseRow(attempt) ==
  Version("pending", IF attempt = 0 THEN 0 ELSE attempt - 1,
          attempt * 10 + 2, NoOwner, TRUE)

RetryRow(attempt) == Version("pending", attempt, attempt * 10 + 2, NoOwner, FALSE)

(* A mutated outcome: a terminal version numbered like any other version of *)
(* its attempt.                                                             *)
DoneRowOfAttempt(attempt) ==
  Version("done", attempt, attempt * 10 + 3, NoOwner, TRUE)

DoneRow(attempt) == Version("done", attempt, MaxRevision, NoOwner, TRUE)

DeadRow(attempt) == Version("dead", attempt, MaxRevision - 1, NoOwner, TRUE)

UnavailableRow(attempt) ==
  Version("unavailable_from_public_api", attempt, MaxRevision - 2, NoOwner, TRUE)

=============================================================================
