----------------------------- MODULE WorkLedger -----------------------------
(***************************************************************************)
(* What the work queue promises of each work item, with no revisions,      *)
(* leases, workers or buffers: an item is absent, open, or closed with one *)
(* of three outcomes.  It only ever rises in Rank, and only a closed item  *)
(* may be forgotten (README, "API enrichment": terminal revisions dominate *)
(* the merge, a replayed range cannot revive completed work while those    *)
(* rows exist, and retention deletes terminal items only).                 *)
(***************************************************************************)
EXTENDS Naturals

CONSTANT Items

VARIABLE item

Closed == {"unavailable_from_public_api", "dead", "done"}

ItemState == {"absent", "open"} \cup Closed

Rank(state) ==
  CASE state = "absent" -> 0
    [] state = "open" -> 1
    [] state = "unavailable_from_public_api" -> 2
    [] state = "dead" -> 3
    [] state = "done" -> 4

Advances(from, to) == Rank(from) < Rank(to)

Forgotten(from, to) == from \in Closed /\ to = "absent"

Init == item = [i \in Items |-> "absent"]

Next ==
  /\ item' \in [Items -> ItemState]
  /\ \A i \in Items : \/ item'[i] = item[i]
                      \/ Advances(item[i], item'[i])
                      \/ Forgotten(item[i], item'[i])

Spec == Init /\ [][Next]_item

=============================================================================
