---------------------------- MODULE MCIndexFiles ----------------------------
(***************************************************************************)
(* IndexFiles with two builds of different models, that overlap in every   *)
(* way and with every fault, and two searches.  A third build begins only  *)
(* while both run and before any search; then there are no faults, and one *)
(* first step of one search.                                               *)
(***************************************************************************)
EXTENDS IndexFiles, TLC

CONSTANTS New, Third

MCModels     == {"one", "other"}
MCModelOf(b) == IF b = New THEN "other" ELSE "one"
Symmetry     == Permutations(Calls)

Crowd   == build[Third] # "none"
Orderly ==
  Crowd => /\ crowded /\ ~again /\ \A b \in Builds : build[b] \notin {"dead", "cleans"}
           /\ at # "error" /\ \A c \in Calls : call[c] = "facts" /\ pinned[c] = Nothing
           /\ at = "idle" => \A b \in Builds : b \in Running
First   == Crowd' /\ ~Crowd => at = "idle" /\ cached = Nothing
=============================================================================
