------------------------------ MODULE FreshView ------------------------------
(***************************************************************************)
(* What a page that refreshes itself promises its reader, whatever the     *)
(* requests behind it do: it shows several parts of a server's state, each *)
(* as it was at some moment, and a refresh replaces all of them by states  *)
(* no older than anything it replaces and no newer than the server's.      *)
(* "Stale responses" never overwrite "fresh data"                          *)
(* (web/src/app/dashboard/[projectId]/page.tsx, fetchAll).                 *)
(***************************************************************************)
EXTENDS Naturals

CONSTANT Parts  \* the parts of the state that are fetched one by one

VARIABLES
  now,    \* the number of states the server has had
  shown   \* the state each part is shown in, 0 before the first refresh

Init == now = 1 /\ shown = [p \in Parts |-> 0]

Change == now' = now + 1 /\ UNCHANGED shown

Refresh ==
  /\ shown' \in [Parts -> 1..now]
  /\ \A p, q \in Parts : shown[p] <= shown'[q]
  /\ UNCHANGED now

Next == Change \/ Refresh

Spec == Init /\ [][Next]_<<now, shown>>
=============================================================================
