------------------------------ MODULE MCServer ------------------------------
EXTENDS Server, TLC

CONSTANTS A, B, U1, U2

UserSymmetry == Permutations(Users)

MCNewest == (A :> 3) @@ (B :> 2)

Fresh == [version |-> 0, applied |-> {}, dims |-> 0, vec |-> "none", queued |-> FALSE,
          project |-> FALSE]
Old == [version |-> 1, applied |-> {1}, dims |-> 1, vec |-> "full", queued |-> FALSE,
        project |-> TRUE]
Resized == [version |-> 2, applied |-> {1, 2}, dims |-> 1, vec |-> "full",
            queued |-> FALSE, project |-> FALSE]
Ready == [version |-> 3, applied |-> {1, 2, 3}, dims |-> 2, vec |-> "full",
          queued |-> FALSE, project |-> TRUE]

Budget(f, boots, reqs, events, time) ==
  [file |-> f, boots |-> boots, reqs |-> reqs, events |-> events, time |-> time]

\* Starting, on four files; sessions; events and their replay.
MCBudgets ==
  {Budget(f, 4, 0, 0, 0) : f \in {Fresh, Old, Resized}}
    \cup {Budget(Ready, 1, 3, 0, 2), Budget(Ready, 1, 2, 4, 0), Budget(Ready, 1, 3, 2, 1)}

MCStarts == {Budget(Old, 3, 0, 0, 0)}
=============================================================================
