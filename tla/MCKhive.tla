------------------------------ MODULE MCKhive ------------------------------
(***************************************************************************)
(* Small instances of what runs over Khive: in one mode a `build` or a     *)
(* `rank` with its export, while files are edited and the daemon reloads,  *)
(* in the other the preference replay, over pools of one pair per part of  *)
(* the selection and a few reserved ones, or a pool one pair short.        *)
(***************************************************************************)
EXTENDS KhiveCommands, PreferenceReplay

CONSTANTS m1, m2, m3

Sizes == [x \in {m1, m2, m3} |-> IF x = m3 THEN 2 ELSE 1]

CONSTANTS u1, u2, u3, u4, u5

Pair(lower, upper, split, margin) ==
    [lower |-> lower, upper |-> upper, split |-> split, margin |-> margin]

Full ==
    <<Pair(u1, u2, "train", 1), Pair(u1, u3, "calibration", 1), Pair(u1, u4, "calibration", -2),
      Pair(u1, u5, "test", 2), Pair(u2, u3, "train", -1), Pair(u2, u4, "train", 3),
      Pair(u2, u5, "train", 1), Pair(u3, u4, "calibration", 3), Pair(u3, u5, "test", -1)>>

MCPools == {Full, SubSeq(Full, 1, 4)}

MCForeign ==
    {[pair |-> Full[1], choice |-> "left"], [pair |-> Full[7], choice |-> "right"],
     [pair |-> Full[2], choice |-> "tie"], [pair |-> Full[9], choice |-> "abstain"]}

VARIABLE mode

MCInit ==
    /\ KhiveInit /\ CommandInit /\ ReplayInit
    /\ \/ mode = "commands" /\ pool = Full
       \/ mode = "replay" /\ brand = Absent /\ files = <<m1>>

MCNext ==
    /\ UNCHANGED mode
    /\ \/ mode = "commands" /\ CommandNext /\ UNCHANGED replayVars
       \/ mode = "replay" /\ ReplayNext /\ UNCHANGED commandVars

MCSpec == MCInit /\ [][MCNext]_<<khiveVars, commandVars, replayVars, mode>>
=============================================================================
