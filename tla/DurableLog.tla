----------------------------- MODULE DurableLog -----------------------------
(***************************************************************************)
(* What WALWriter::AddLog promises: entries get into the file one at a     *)
(* time and in order, a call returns only when its entry is there for      *)
(* good, or when the device failed its fsync unnoticed, and a crash        *)
(* takes back at most entries of calls that never returned or that the     *)
(* device failed, the latest first.                                        *)
(***************************************************************************)
EXTENDS Naturals

VARIABLES log,      \* the entries that are in the file whole, and where
          firm,     \* those of them that no loss of power takes back
          adding,   \* the entry of the call in progress, 0 if there is none
          added,    \* entries that calls were made for
          faults    \* calls that the device failed
lvars == <<log, firm, adding, added, faults>>

Nothing == [r \in {} |-> 0]

Init == log = Nothing /\ firm = {} /\ adding = 0 /\ added = 0 /\ faults = 0

Begin == /\ adding = 0
         /\ adding' = added + 1
         /\ added' = added + 1
         /\ UNCHANGED <<log, firm, faults>>

Has(r) == r \in DOMAIN log

\* It gets behind the others, which stay where they are.
Write == /\ adding # 0
         /\ ~Has(adding)
         /\ log' \in [DOMAIN log \cup {adding} -> Nat]
         /\ \A r \in DOMAIN log : log'[r] = log[r] /\ log[r] < log'[adding]
         /\ UNCHANGED <<firm, adding, added, faults>>

Return == /\ adding # 0
          /\ Has(adding)
          /\ adding' = 0
          /\ firm' = DOMAIN log
          /\ UNCHANGED <<log, added, faults>>

ReturnOnFault == /\ adding # 0
                 /\ Has(adding)
                 /\ adding' = 0
                 /\ faults' = faults + 1
                 /\ UNCHANGED <<log, firm, added>>

\* The process dies, with or without its machine.
Kill == /\ adding' = 0
        /\ UNCHANGED <<log, firm, added, faults>>

\* The firm ones are, and of the others those up to a place.
Spared(left) == /\ firm \subseteq left
                /\ \A r \in left : \A s \in DOMAIN log \ left : log[r] < log[s]

PowerLoss == /\ adding' = 0
             /\ \E left \in SUBSET DOMAIN log :
                  /\ Spared(left)
                  /\ log' = [r \in left |-> log[r]] /\ firm' = left
             /\ UNCHANGED <<added, faults>>

Next == Begin \/ Write \/ Return \/ ReturnOnFault \/ Kill \/ PowerLoss

Spec == Init /\ [][Next]_lvars
=============================================================================
