------------------------------ MODULE BillLedger ------------------------------
(***************************************************************************)
(* What settlement promises to whoever reads its figures: for each day an  *)
(* append-only book of numbered entries.  The last entry is what is served *)
(* (batch.current_runs); the ones before it are the audit trail.  An entry *)
(* is never taken out or changed, and a new one is never based on an older *)
(* drop or on fewer readings than those already in the book.  A new        *)
(* simulation starts with empty books.                                     *)
(***************************************************************************)
EXTENDS Integers

CONSTANTS
  Days,
  Ids,       \* the numbers of the entries, which follow time
  Versions,  \* the versions of a day's drop
  Readings   \* how many readings a settlement may rest on

VARIABLES
  simulation,  \* whose days the books are about
  ledger       \* per day, the set of entries

Entry == [id : Ids, version : Versions, readings : Readings]

NoEntries == [d \in Days |-> {}]

Init == simulation = 1 /\ ledger = NoEntries

Follows(e, f) == f.id < e.id /\ f.version <= e.version /\ f.readings <= e.readings

Settle(d, e) ==
  /\ \A f \in ledger[d] : Follows(e, f)
  /\ ledger' = [ledger EXCEPT ![d] = @ \cup {e}]
  /\ UNCHANGED simulation

NewSimulation == simulation' = simulation + 1 /\ ledger' = NoEntries

Next == NewSimulation \/ \E d \in Days, e \in Entry : Settle(d, e)

Spec == Init /\ [][Next]_<<simulation, ledger>>
=============================================================================
