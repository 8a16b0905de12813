-------------------------- MODULE PreferenceReplay --------------------------
(***************************************************************************)
(* replay_preference_demo (preference_demo.py): a simulated policy judges  *)
(* presented pairs, two model snapshots are trained, and a document says   *)
(* which events each was trained on.  The scope of actor and board is      *)
(* meant to be the replay's alone, and nothing locks it: somebody else may *)
(* present and judge pairs in it at any time.                              *)
(***************************************************************************)
EXTENDS Khive, Integers, SequencesExt

CONSTANTS
    Replay,          \* the call
    Pools,           \* governed candidate pools: each the sequence of its pairs,
                     \*   [lower, upper, split, margin], in selection order
    Minimum,         \* how many pairs each part of the selection takes
    ForeignJudgments,  \* what somebody else may judge: [pair, choice]
    MaxForeign,      \* how often
    Unused

\* A pool pairs distinct candidates, every two of them once, and what a policy
\* scores and the split are functions of the two (_all_pairs, pair_split).
ASSUME ReplayAssumption ==
    /\ Replay \in Clients
    /\ Minimum \in Nat \ {0}
    /\ \A p \in Pools :
          /\ p \in Seq(ToSet(p))
          /\ \A i \in DOMAIN p : p[i].margin \in Int
          /\ \A i, j \in DOMAIN p :
                p[i].lower = p[j].lower /\ p[i].upper = p[j].upper => p[i] = p[j]

VARIABLES
    pool,            \* the pool of the artifact it read
    selection,       \* the parts selected from it
    at,              \* where it is
    specs,           \* events being recorded: [pair, phase]
    shown,           \* accepted rows of their presentation
    events,          \* recorded events: [serve, pair, phase, choice]
    trained,         \* accepted models: [model, snapshot]
    probed,          \* accepted predictions, one entry per probe pass
    output,          \* the output file
    foreign          \* judgments made by somebody else

replayVars == <<pool, selection, at, specs, shown, events, trained, probed, output, foreign>>
replayLocals == <<pool, selection, specs, shown, events, trained, probed>>

ReplayInit ==
    /\ pool \in Pools
    /\ selection = Nil
    /\ at = "start"
    /\ specs = <<>> /\ shown = <<>> /\ events = <<>> /\ trained = <<>> /\ probed = <<>>
    /\ output = Unused
    /\ foreign = 0

-----------------------------------------------------------------------------
\* The selection.

Absolute(pair) == IF pair.margin < 0 THEN -pair.margin ELSE pair.margin

\* _policy_preferred: policy B's weights are policy A's negated.
Preferred(pair, policy) ==
    IF pair.margin = 0 THEN Nil
    ELSE IF (pair.margin > 0) = (policy = "A") THEN pair.lower ELSE pair.upper

Decisive(pair) == pair.margin # 0

\* take: the first of the pairs at some places of the pool, none when short.
Take(I, key) ==
    IF Cardinality(I) < Minimum THEN <<>> ELSE SubSeq(Arranged(pool, I, key), 1, Minimum)

\* _select_pairs: the parts of the selection, disjoint; none when short.
SelectPairs ==
    LET In(split) == {i \in DOMAIN pool : pool[i].split = split}
        decisive == {i \in DOMAIN pool : Decisive(pool[i])}
        Free(used) == {i \in DOMAIN pool : pool[i] \notin ToSet(used)}
        listed == AsListed(pool)
        nearest == [i \in DOMAIN pool |-> Absolute(pool[i])]
        farthest == [i \in DOMAIN pool |-> -Absolute(pool[i])]
        aTrain == Take(In("train") \cap decisive, listed)
        ties == Take(In("calibration") \cap Free(aTrain), nearest)
        aCalibration == Take(In("calibration") \cap decisive \cap Free(aTrain \o ties), listed)
        aTest == Take(In("test") \cap decisive \cap Free(aTrain \o ties \o aCalibration), listed)
        a == aTrain \o ties \o aCalibration \o aTest
        probes == Take(decisive \cap Free(a), listed)
        bTrain == Take(In("train") \cap decisive \cap Free(a \o probes), farthest)
    IN IF <<>> \in {aTrain, ties, aCalibration, aTest, probes, bTrain} THEN Nil
       ELSE [decisive |-> aTrain \o aCalibration \o aTest, ties |-> ties, probes |-> probes,
             bTrain |-> bTrain,
             extras |-> Arranged(pool, Free(a \o probes \o bTrain), listed)]

Phased(pairs, phase) == [i \in DOMAIN pairs |-> [pair |-> pairs[i], phase |-> phase]]

PolicyOf(phase) == IF phase = "b_append" THEN "B" ELSE "A"

-----------------------------------------------------------------------------
\* The call.

Call(from, to, ops) ==
    /\ at = from /\ Submit(Replay, ops) /\ at' = to
    /\ UNCHANGED <<storeVars, replayLocals, output, foreign>>

\* Capacity and a free output name are checked before Khive is touched; the
\* first call is a training that must be refused with no support at all.
Begin ==
    /\ at = "start" /\ SelectPairs # Nil /\ output = Unused
    /\ selection' = SelectPairs
    /\ Submit(Replay, <<[tool |-> "train"]>>) /\ at' = "gate"
    /\ UNCHANGED <<storeVars, pool, specs, shown, events, trained, probed, output, foreign>>

\* _capture_initial_support_refusal
Gate ==
    /\ at = "gate" /\ AllSucceeded(Replay)
    /\ batch[Replay].done[1] = [refused |-> 0]
    /\ Collected(Replay)
    /\ specs' = Phased(selection.decisive, "a_decisive") \o Phased(selection.ties, "a_tie")
    /\ at' = "serve"
    /\ UNCHANGED <<storeVars, pool, selection, shown, events, trained, probed, output, foreign>>

\* _record_events: present the pairs,
Present ==
    Call("serve", "serving", [i \in DOMAIN specs |-> [tool |-> "serve", pair |-> specs[i].pair]])

\* Faulty variant: the swap flag is checked and the pair is not.
ShownIsDistinct(rows) ==
    /\ \A i, j \in DOMAIN rows : i # j => rows[i].serve # rows[j].serve
    /\ \A i \in DOMAIN rows : rows[i].shown.left # rows[i].shown.right

\* batch_serve's distinct identities and _validate_serve_result.  An occurrence is
\* one side of a serve here: its identity is distinct exactly when the serve's is.
ShownAsSubmitted(rows) ==
    /\ \A i, j \in DOMAIN rows : i # j => rows[i].serve # rows[j].serve
    /\ \A i \in DOMAIN rows : rows[i].shown = Displayed(specs[i].pair, rows[i].swap)

Presented ==
    /\ at = "serving" /\ AllSucceeded(Replay)
    /\ \E rows \in Rows(Replay) : ShownAsSubmitted(rows) /\ shown' = rows
    /\ Collected(Replay) /\ at' = "judge"
    /\ UNCHANGED <<storeVars, pool, selection, specs, events, trained, probed, output, foreign>>

\* The label of the side on which the preferred candidate was displayed.
Label(spec, row) ==
    IF spec.phase = "a_tie" THEN "tie"
    ELSE IF row.shown.left = Preferred(spec.pair, PolicyOf(spec.phase)) THEN "left"
    ELSE "right"

\* and judge them.
Judge ==
    Call("judge", "judging",
         [i \in DOMAIN specs |->
             [tool |-> "judge", serve |-> shown[i].serve, choice |-> Label(specs[i], shown[i])]])

Judged ==
    /\ at = "judging" /\ AllSucceeded(Replay)
    /\ \E rows \in Rows(Replay) :
          \A i \in DOMAIN rows :
              rows[i] = [serve |-> shown[i].serve, choice |-> Label(specs[i], shown[i]),
                         created |-> TRUE]
    /\ Collected(Replay)
    /\ events' = events \o
          [i \in DOMAIN specs |->
              [serve |-> shown[i].serve, pair |-> specs[i].pair, phase |-> specs[i].phase,
               choice |-> Label(specs[i], shown[i])]]
    /\ at' = IF trained = <<>> THEN "support" ELSE "train"
    /\ UNCHANGED <<storeVars, pool, selection, specs, shown, trained, probed, output, foreign>>

EventsIn(split, phases) == SelectSeq(events, LAMBDA e : e.pair.split = split /\ e.phase \in phases)
LabelsIn(split) == {e.choice : e \in ToSet(EventsIn(split, {"a_decisive"}))}

Unsupported ==
    SelectSeq(<<"train", "calibration", "test">>, LAMBDA split : LabelsIn(split) # Sides)

\* _assert_side_label_support: reserved pairs, one by one, until every split
\* has seen both sides; without one left the call raises (StopReplay).
Support ==
    /\ at = "support"
    /\ \/ Unsupported = <<>> /\ at' = "train" /\ UNCHANGED specs
       \/ /\ Unsupported # <<>>
          /\ LET extras == selection.extras
                 spare == {i \in DOMAIN extras :
                             /\ extras[i].split = Unsupported[1] /\ Decisive(extras[i])
                             /\ extras[i] \notin {e.pair : e \in ToSet(events)}}
             IN /\ spare # {}
                /\ specs' = Phased(<<extras[Min(spare)]>>, "a_decisive")
          /\ at' = "serve"
    /\ UNCHANGED <<khiveVars, pool, selection, shown, events, trained, probed, output, foreign>>

Train == Call("train", "training", <<[tool |-> "train"]>>)

\* Faulty variant: only the decisive counts of the training split are compared.
TrainCountOnly(row) ==
    /\ "snapshot" \in DOMAIN row
    /\ Cardinality(JudgedIn(row.snapshot, "train", Sides))
          = Len(EventsIn("train", {"a_decisive", "b_append"}))

\* _validate_model: the snapshot's counts, split by split and in total, are
\* those of the recorded events.
SnapshotMatches(row) ==
    /\ "snapshot" \in DOMAIN row
    /\ Cardinality(row.snapshot) = Len(events)
    /\ \A split \in Splits :
          LET decisive == JudgedIn(row.snapshot, split, Sides)
              ties == JudgedIn(row.snapshot, split, {"tie"})
              expectedTies == IF split = "calibration" THEN Len(EventsIn(split, {"a_tie"})) ELSE 0
          IN /\ {Cardinality(decisive), Cardinality(Groups(decisive))}
                   = {Len(EventsIn(split, {"a_decisive", "b_append"}))}
             /\ {j.choice : j \in decisive} = Sides
             /\ {Cardinality(ties), Cardinality(Groups(ties))} = {expectedTies}
             /\ JudgedIn(row.snapshot, split, {"abstain"}) = {}

\* _assert_distinct_models after the second training.
Trained ==
    /\ at = "training" /\ AllSucceeded(Replay)
    /\ LET row == batch[Replay].done[1] IN
          /\ SnapshotMatches(row)
          /\ \A i \in DOMAIN trained : trained[i].model # row.model
          /\ trained' = Append(trained, row)
    /\ Collected(Replay) /\ at' = "probe"
    /\ UNCHANGED <<storeVars, pool, selection, specs, shown, events, probed, output, foreign>>

\* The passes over the probes: A before B, B, A again, and B from a new client.
ProbeModel == trained[CASE Len(probed) \in {0, 2} -> 1 [] OTHER -> 2].model

Probe ==
    /\ Len(probed) < 4
    /\ Call("probe", "probing",
            [i \in DOMAIN selection.probes |->
                [tool |-> "preference", model |-> ProbeModel, pair |-> selection.probes[i]]])

\* _predict_probes, and the comparisons: A is unchanged and B survives a restart.
Probed ==
    /\ at = "probing" /\ AllSucceeded(Replay)
    /\ \E rows \in Rows(Replay) :
          /\ \A i \in DOMAIN rows : rows[i] = [model |-> ProbeModel, pair |-> selection.probes[i]]
          /\ Len(probed) \in {2, 3} => rows = probed[Len(probed) - 1]
          /\ probed' = Append(probed, rows)
    /\ Collected(Replay)
    /\ \/ /\ Len(probed) = 0
          /\ specs' = Phased(selection.bTrain, "b_append") /\ at' = "serve"
       \/ /\ Len(probed) # 0
          /\ at' = (IF Len(probed) = 3 THEN "publish" ELSE "probe") /\ UNCHANGED specs
    /\ UNCHANGED <<storeVars, pool, selection, shown, events, trained, output, foreign>>

\* _atomic_write: a link, which never replaces.
Publish ==
    /\ at = "publish" /\ output = Unused
    /\ output' = [events |-> events, a |-> trained[1].model, b |-> trained[2].model]
    /\ at' = "ended"
    /\ UNCHANGED <<khiveVars, replayLocals, foreign>>

\* Somebody else presents a pair in the same scope and judges it, between two
\* batches: one that falls within a batch commutes with its rows.
ForeignJudgment ==
    /\ foreign < MaxForeign /\ batch[Replay] = Nil
    /\ foreign' = foreign + 1
    /\ \E f \in ForeignJudgments :
          /\ serves' = Append(serves, [pair |-> f.pair, swap |-> FALSE])
          /\ judgments' = judgments \cup {[serve |-> Len(serves) + 1, choice |-> f.choice]}
    /\ UNCHANGED <<active, assets, boards, models, batch, replayLocals, at, output>>

\* An error or a kill ends the call and nothing resumes it: a behaviour that
\* simply stops, so neither has an action, and no row fails.
ReplayNext ==
    \/ Begin \/ Gate \/ Present \/ Presented \/ Judge \/ Judged \/ Support
    \/ Train \/ Trained \/ Probe \/ Probed \/ Publish
    \/ ForeignJudgment
    \/ Perform(Replay) /\ UNCHANGED replayVars

ReplaySpec == KhiveInit /\ ReplayInit /\ [][ReplayNext]_<<khiveVars, replayVars>>

-----------------------------------------------------------------------------
(* Properties.                                                              *)

\* Every judgment of the call names the side on which its policy's candidate
\* was displayed, under Khive's randomized sides, for the pair the event says,
\* also when rows come back crossed.
LabelsFollowPolicy ==
    \A e \in ToSet(events) :
        /\ [serve |-> e.serve, choice |-> e.choice] \in judgments
        /\ serves[e.serve].pair = e.pair
        /\ e.phase # "a_tie" =>
              Displayed(e.pair, serves[e.serve].swap)[e.choice]
                  = Preferred(e.pair, PolicyOf(e.phase))

\* A published document accounts for its models: model A was trained on exactly
\* the judgments of its A events and model B on all of its events, so nothing
\* anybody else judged in the scope, before, between or after, is in either.
DocumentExplainsModels ==
    output # Unused =>
        LET Judgments(phases) ==
                {[serve |-> e.serve, choice |-> e.choice] :
                     e \in {x \in ToSet(output.events) : x.phase \in phases}}
        IN /\ models[output.a] = Judgments({"a_decisive", "a_tie"})
           /\ models[output.b] = Judgments({"a_decisive", "a_tie", "b_append"})
=============================================================================
