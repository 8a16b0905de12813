-------------------------- MODULE AttemptLifecycle --------------------------
(***************************************************************************)
(* What the attempt journal promises its callers, without tables, tokens   *)
(* or evidence: every attempt walks the ADR-0014 graph forward, and over   *)
(* its whole life at most one caller is ever told to send.  The permission *)
(* can only be handed out in the very step that makes the attempt          *)
(* submitted; it may also be lost in that step, and is then lost for good. *)
(***************************************************************************)
EXTENDS Naturals

CONSTANT Attempts

VARIABLES
    phase,     \* the observable state of each attempt
    grants     \* how many callers were told to send

lifecycleVars == <<phase, grants>>

Open == {"prepared", "submitted", "outcome_unknown", "response_received"}
Phases == {"unregistered", "none", "succeeded", "failed", "cancelled"} \cup Open

LifecycleInit ==
    /\ phase = [a \in Attempts |-> "unregistered"]
    /\ grants = [a \in Attempts |-> 0]

Become(a, from, to) ==
    /\ phase[a] \in from
    /\ phase' = [phase EXCEPT ![a] = to]

Register(a) == Become(a, {"unregistered"}, "none") /\ UNCHANGED grants

Prepare(a) == Become(a, {"none"}, "prepared") /\ UNCHANGED grants

\* The one step that may tell a caller to send.
Authorize(a) ==
    /\ Become(a, {"prepared"}, "submitted")
    /\ \/ grants' = [grants EXCEPT ![a] = @ + 1]
       \/ UNCHANGED grants

LoseTrack(a) == Become(a, {"submitted"}, "outcome_unknown") /\ UNCHANGED grants

Answer(a) ==
    Become(a, {"submitted", "outcome_unknown"}, "response_received") /\ UNCHANGED grants

Succeed(a) == Become(a, {"response_received"}, "succeeded") /\ UNCHANGED grants

Fail(a) == Become(a, Open, "failed") /\ UNCHANGED grants

\* Once a response is durable the attempt can no longer be called off.
Cancel(a) == Become(a, Open \ {"response_received"}, "cancelled") /\ UNCHANGED grants

LifecycleNext ==
    \E a \in Attempts :
        \/ Register(a) \/ Prepare(a) \/ Authorize(a) \/ LoseTrack(a)
        \/ Answer(a) \/ Succeed(a) \/ Fail(a) \/ Cancel(a)

LifecycleSpec == LifecycleInit /\ [][LifecycleNext]_lifecycleVars
=============================================================================
