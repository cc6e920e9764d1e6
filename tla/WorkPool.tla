------------------------------ MODULE WorkPool ------------------------------
(***************************************************************************)
(* What the processing queue promises: a dataset submitted to it waits, is *)
(* worked on by one worker at a time, and is done; it never goes round     *)
(* twice.  The pool lives in memory: when the process dies it forgets      *)
(* everything that waits or is being worked on.                            *)
(***************************************************************************)
CONSTANTS Datasets, Workers, NoDataset

VARIABLES phase,  \* where each dataset stands in the pool
          hands   \* the dataset in each worker's hands

poolVars == <<phase, hands>>

Init == /\ phase = [d \in Datasets |-> "new"]
        /\ hands = [w \in Workers |-> NoDataset]

Submit(d) == /\ phase[d] = "new"
             /\ phase' = [phase EXCEPT ![d] = "waiting"]
             /\ UNCHANGED hands

Begin(w, d) == /\ phase[d] = "waiting"
               /\ hands[w] = NoDataset
               /\ phase' = [phase EXCEPT ![d] = "active"]
               /\ hands' = [hands EXCEPT ![w] = d]

End(w, d) == /\ phase[d] = "active"
             /\ hands[w] = d
             /\ phase' = [phase EXCEPT ![d] = "done"]
             /\ hands' = [hands EXCEPT ![w] = NoDataset]

\* Nothing to do: the dataset's row is gone or cancelled, or its file is.
Skip(d) == /\ phase[d] = "waiting"
           /\ phase' = [phase EXCEPT ![d] = "done"]
           /\ UNCHANGED hands

Forget == /\ phase' = [d \in Datasets |->
                 IF phase[d] \in {"waiting", "active"} THEN "forgotten"
                 ELSE phase[d]]
          /\ hands' = [w \in Workers |-> NoDataset]

Next == \/ \E d \in Datasets :
              \/ Submit(d) \/ Skip(d)
              \/ \E w \in Workers : Begin(w, d) \/ End(w, d)
        \/ Forget

Spec == Init /\ [][Next]_poolVars
=============================================================================
