----------------------------- MODULE AgentJobs -----------------------------
(***************************************************************************)
(* What an Agent promises about its jobs (src/src/runtime/jobs.js): every  *)
(* accepted job waits in one first-in first-out queue and is started once, *)
(* in the order of acceptance, whatever mixture of host callbacks, manual  *)
(* checkpoints and scheduler failures drives the draining.  JobQueue is    *)
(* shown to implement this module.                                         *)
(***************************************************************************)
EXTENDS Sequences

CONSTANT Job       \* the job records an Agent may be handed

VARIABLES pending, \* accepted and not yet started, oldest first
          started  \* every job that was started, in starting order

vars == <<pending, started>>

TypeOK == /\ pending \in Seq(Job)
          /\ started \in Seq(Job)

Init == /\ pending = <<>>
        /\ started = <<>>

Accept(job) == /\ pending' = Append(pending, job)
               /\ UNCHANGED started

Start == /\ pending # <<>>
         /\ started' = Append(started, Head(pending))
         /\ pending' = Tail(pending)

Next == (\E job \in Job : Accept(job)) \/ Start

Spec == Init /\ [][Next]_vars
=============================================================================
