-------------------------------- MODULE Ledger --------------------------------
(***************************************************************************)
(* What applying blocks promises, without saying how: a log of committed   *)
(* blocks that only grows, each commit followed by one acknowledgement on  *)
(* disk before the next commit.  A crash is invisible: it takes back       *)
(* neither a commit nor an acknowledgement, and repeats neither.           *)
(***************************************************************************)
EXTENDS Naturals, Sequences

CONSTANT Entries        \* what one commit may add to the log

VARIABLES
  log,                  \* the commits of the application
  acknowledged          \* the store height that survives a restart

Init ==
  /\ log = <<>>
  /\ acknowledged = 0

Commit ==
  /\ acknowledged = Len(log)
  /\ \E e \in Entries : log' = Append(log, e)
  /\ UNCHANGED acknowledged

Acknowledge ==
  /\ acknowledged + 1 = Len(log)
  /\ acknowledged' = Len(log)
  /\ UNCHANGED log

Next == Commit \/ Acknowledge

Spec == Init /\ [][Next]_<<log, acknowledged>>

=============================================================================
