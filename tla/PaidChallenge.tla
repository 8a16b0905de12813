--------------------------- MODULE PaidChallenge ---------------------------
(***************************************************************************)
(* What the two-phase runner promises the person who confirms a challenge, *)
(* without files, ledger or journal: it is confirmed, spent once, and pays *)
(* for at most one POST; a spent challenge may be lost before the POST and *)
(* a POST before its answer, and neither is ever tried again.              *)
(***************************************************************************)
EXTENDS Naturals

VARIABLES
    stage,     \* how far the challenge has come
    posts      \* how many POSTs were made for it

paidVars == <<stage, posts>>

PaidInit == stage = "offered" /\ posts = 0

Spend == stage = "offered" /\ stage' = "spent" /\ UNCHANGED posts

SendOnce == stage = "spent" /\ posts = 0 /\ stage' = "sent" /\ posts' = 1

Keep == stage = "sent" /\ stage' = "answered" /\ UNCHANGED posts

PaidSpec == PaidInit /\ [][Spend \/ SendOnce \/ Keep]_paidVars
=============================================================================
