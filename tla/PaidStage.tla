------------------------------ MODULE PaidStage ------------------------------
(***************************************************************************)
(* What the generation service promises about money, without workers,      *)
(* queues or retries: the jobs of a project are open one at a time, a job  *)
(* is permitted to pay for its stage once and only while it is open, and   *)
(* it is done only if it has paid.  A payment that was permitted may still *)
(* happen after the job was given up: a request that left cannot be        *)
(* recalled.                                                               *)
(***************************************************************************)
CONSTANT Jobs

VARIABLES phase,    \* absent, open, done or failed
          permit    \* none, granted or spent

Init == /\ phase = [j \in Jobs |-> "absent"]
        /\ permit = [j \in Jobs |-> "none"]

Submit(j) == /\ phase[j] = "absent"
             /\ \A k \in Jobs : phase[k] # "open"
             /\ phase' = [phase EXCEPT ![j] = "open"]
             /\ UNCHANGED permit

Grant(j) == /\ phase[j] = "open" /\ permit[j] = "none"
            /\ permit' = [permit EXCEPT ![j] = "granted"]
            /\ UNCHANGED phase

Pay(j) == /\ permit[j] = "granted"
          /\ permit' = [permit EXCEPT ![j] = "spent"]
          /\ UNCHANGED phase

Finish(j) == /\ phase[j] = "open" /\ permit[j] = "spent"
             /\ phase' = [phase EXCEPT ![j] = "done"]
             /\ UNCHANGED permit

GiveUp(j) == /\ phase[j] = "open"
             /\ phase' = [phase EXCEPT ![j] = "failed"]
             /\ UNCHANGED permit

Next == \E j \in Jobs : Submit(j) \/ Grant(j) \/ Pay(j) \/ Finish(j) \/ GiveUp(j)

Spec == Init /\ [][Next]_<<phase, permit>>
=============================================================================
