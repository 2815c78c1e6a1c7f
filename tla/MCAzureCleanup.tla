--------------------------- MODULE MCAzureCleanup ---------------------------
(* An instance of AzureCleanup, for TLC. *)
EXTENDS AzureCleanup, FiniteSetsExt

OnePerPool == [p \in Pools |-> 1]

\* Counting instances adds the capacities up, pools of several and of none too.
ASSUME \A capacity \in [Pools -> 0 .. 3], pools \in SUBSET Pools :
    Cardinality(UNION {{p} \X (1 .. capacity[p]) : p \in pools})
      = MapThenSumSet(LAMBDA p : capacity[p], pools)
=============================================================================
