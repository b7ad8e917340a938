--------------------------- MODULE SettlementLedger ---------------------------
(***************************************************************************)
(* Settlement implements BillLedger: a day's book is the set of its runs   *)
(* that succeeded, which is what the batch.current_* views select from.    *)
(***************************************************************************)
EXTENDS Settlement

\* The runs the views choose from for day d; the highest run_id is served.
SettledRuns(d) == {r \in Succeeded : runs[r].day = d}

EntryOf(r) ==
  [id |-> r, version |-> runs[r].version, readings |-> runs[r].readings]

Book == [d \in Days |-> {EntryOf(r) : r \in SettledRuns(d)}]

\* Until its tables are cleared, the books are those of the simulation before.
Kept == IF reset = "idle" THEN sim ELSE sim - 1

L == INSTANCE BillLedger WITH
       simulation <- Kept, ledger <- Book, Ids <- RunIds, Readings <- 0..MaxReadings

\* Every step of settlement, retries, kills and resets included, leaves the
\* books alone, opens new ones for a new simulation, or adds one entry that is
\* later and based on no older data than every entry before it: what is served
\* only moves forward.
ImplementsLedger == L!Spec
=============================================================================
