---------------------------- MODULE MCHistoryLive ----------------------------
(* What two shells come to, and what a vacuum makes of its records: an       *)
(* execution is of the one or of the other, and the two share nothing.       *)
EXTENDS MCHistoryStore

VARIABLES part, entries, seq, fed
Merge == INSTANCE HistoryMerge WITH Command <- Command, MaxWhen <- 1, MaxRecords <- 5
merged == <<entries, seq, fed>>
all == <<part, vars, merged>>

Together ==
  /\ Init /\ Merge!Init /\ part \in {"shells", "merge"}
  /\ part = "merge" => durable = {}
Shells == part = "shells" /\ Next /\ UNCHANGED <<part, merged>>
Merging == part = "merge" /\ Merge!Next /\ UNCHANGED <<part, vars>>

\* No shell is alive while records are merged, so nothing of it is due then.
Both ==
  /\ Together /\ [][Shells \/ Merging]_all
  /\ \A s \in Shell : WF_vars(Advance(s)) /\ SF_vars(DrainWatch(s))

\* The newest run of every command, the commands seen last, in the order of
\* recall (merge_set::add, finish).
MergeKeepsWhatRecallNeeds == Merge!MergeKeepsWhatRecallNeeds
=============================================================================
