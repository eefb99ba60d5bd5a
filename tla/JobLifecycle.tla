---------------------------- MODULE JobLifecycle ----------------------------
(***************************************************************************)
(* What a user of the jobs table may rely on.                              *)
(*                                                                         *)
(* As long as nothing disturbs the workers, a job is queued, run, and      *)
(* finished once; a failed run is repeated until the attempts are used up; *)
(* a job nobody can handle fails.                                          *)
(*                                                                         *)
(* After a worker died or an entry was taken from a slow one, runs of one  *)
(* job may overlap, and what is left is at-least-once: an unfinished job   *)
(* may be started again, and a run that ends late overwrites the outcome   *)
(* of another, but a finished job is never started as it stands.           *)
(***************************************************************************)
EXTENDS Naturals

CONSTANTS Jobs, Unhandled, MaxAttempts
VARIABLES status, attempts, disturbed

lvars == <<status, attempts, disturbed>>

Init ==
  /\ status = [j \in Jobs |-> "absent"]
  /\ attempts = [j \in Jobs |-> 0]
  /\ disturbed = FALSE

Become(j, to) == status' = [status EXCEPT ![j] = to] /\ UNCHANGED disturbed

Submit(j) ==
  /\ status[j] = "absent"
  /\ Become(j, "queued")
  /\ UNCHANGED attempts

Start(j) ==
  /\ status[j] = "queued" /\ attempts[j] < MaxAttempts
  /\ Become(j, "running")
  /\ attempts' = [attempts EXCEPT ![j] = @ + 1]

Succeed(j) ==
  /\ j \notin Unhandled /\ status[j] = "running"
  /\ Become(j, "done")
  /\ UNCHANGED attempts

Repeat(j) ==
  /\ j \notin Unhandled /\ status[j] = "running"
  /\ attempts[j] < MaxAttempts
  /\ Become(j, "queued")
  /\ UNCHANGED attempts

GiveUp(j) ==
  /\ status[j] = "running"
  /\ j \notin Unhandled => attempts[j] = MaxAttempts
  /\ Become(j, "failed")
  /\ attempts' = [attempts EXCEPT ![j] = MaxAttempts]

Disturb == disturbed' = TRUE /\ UNCHANGED <<status, attempts>>

\* A run whose worker may be dead is started again, whatever it has cost.
Restart(j) ==
  /\ disturbed
  /\ status[j] \in {"queued", "running"}
  /\ Become(j, "running")
  /\ attempts' = [attempts EXCEPT ![j] = @ + 1]

\* A run that overlapped another ends and has the last word.  (A job nobody
\* handles may have been claimed more often than MaxAttempts by then; its worker
\* writes MaxAttempts only if that is not what it loaded.)
LateOutcome(j) ==
  /\ disturbed
  /\ status[j] # "absent"
  /\ IF j \in Unhandled
       THEN /\ Become(j, "failed")
            /\ \/ attempts' = [attempts EXCEPT ![j] = MaxAttempts]
               \/ attempts[j] >= MaxAttempts /\ UNCHANGED attempts
       ELSE \/ Become(j, "done") /\ UNCHANGED attempts
            \/ Become(j, "failed") /\ attempts[j] >= MaxAttempts /\ UNCHANGED attempts
            \/ Become(j, "queued") /\ UNCHANGED attempts

Next ==
  \/ Disturb
  \/ \E j \in Jobs : Submit(j) \/ Start(j) \/ Succeed(j) \/ Repeat(j) \/ GiveUp(j)
                     \/ Restart(j) \/ LateOutcome(j)

Spec == Init /\ [][Next]_lvars
=============================================================================
