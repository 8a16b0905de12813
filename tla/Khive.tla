------------------------------- MODULE Khive -------------------------------
(***************************************************************************)
(* The Khive client (khive.py) and the store behind it.  A client writes   *)
(* one ops file and starts one kernel process (_execute); the kernel works *)
(* the rows off in order, each committing or failing on its own, and goes  *)
(* on when the client has died; what comes back is untrusted.  The store   *)
(* and the verbs' effects are outside the repository and are taken from    *)
(* how the client uses them.                                               *)
(***************************************************************************)
EXTENDS Naturals, Sequences, FiniteSets

CONSTANTS
    Clients,         \* calls that talk to Khive, one kernel process at a time
    Contents,        \* file contents; a content stands for its digest
    Descriptors,     \* identities of the embedding model
    TrainMinimum,    \* decisive training pairs Khive wants before it trains
    Failed,          \* the result of a row that failed
    Nil

VARIABLES
    active,          \* descriptor of the model the kernel has loaded
    assets,          \* contents stored and indexed
    boards,          \* moodboard entities: the scope each was created for
    serves,          \* presentations: [pair, swap]
    judgments,       \* [serve, choice]
    models,          \* trained snapshots, each the judgments it learned from
    batch            \* the kernel process of each client

storeVars == <<active, assets, boards, serves, judgments, models>>
khiveVars == <<storeVars, batch>>

Sides == {"left", "right"}
Splits == {"train", "calibration", "test"}

KhiveInit ==
    /\ active \in Descriptors
    /\ assets = {} /\ boards = <<>> /\ serves = <<>> /\ judgments = {} /\ models = <<>>
    /\ batch = [c \in Clients |-> Nil]

PairOf(j) == serves[j.serve].pair

\* Judgments of a split, as Khive counts them.
JudgedIn(js, split, choices) ==
    {j \in js : PairOf(j).split = split /\ j.choice \in choices}

Groups(js) == {PairOf(j) : j \in js}

\* The two candidates as displayed.
Displayed(pair, swap) ==
    IF swap THEN [left |-> pair.upper, right |-> pair.lower]
    ELSE [left |-> pair.lower, right |-> pair.upper]

\* sorted, with a key: the elements of a sequence at some of its indices, in the
\* order of the indices' keys and, where those are equal, of the indices.
Place(I, key, i) == Cardinality({j \in I : key[j] < key[i] \/ (key[j] = key[i] /\ j <= i)})

Arranged(s, I, key) ==
    [k \in 1..Cardinality(I) |-> s[CHOOSE i \in I : Place(I, key, i) = k]]

AsListed(s) == [i \in DOMAIN s |-> i]

-----------------------------------------------------------------------------
\* _execute, first half: the ops file and the process.
Submit(c, ops) ==
    /\ batch[c] = Nil
    /\ batch' = [batch EXCEPT ![c] = [ops |-> ops, done |-> <<>>]]

Running(c) == batch[c] # Nil /\ Len(batch[c].done) < Len(batch[c].ops)

NextOp(c) == batch[c].ops[Len(batch[c].done) + 1]

RowDone(c, result) == batch' = [batch EXCEPT ![c].done = Append(@, result)]

\* A row fails; the rows after it are tried all the same.
FailRow(c) ==
    /\ Running(c) /\ RowDone(c, Failed)
    /\ UNCHANGED storeVars

ModelVerb(c) ==
    /\ RowDone(c, [descriptor |-> active])
    /\ UNCHANGED storeVars

IngestVerb(c, content) ==
    /\ assets' = assets \cup {content}
    /\ RowDone(c, [content |-> content, descriptor |-> active])
    /\ UNCHANGED <<active, boards, serves, judgments, models>>

\* create always makes a new entity (skip_dedup_check).
CreateVerb(c, scope) ==
    /\ boards' = Append(boards, scope)
    /\ RowDone(c, [id |-> Len(boards) + 1, scope |-> scope])
    /\ UNCHANGED <<active, assets, serves, judgments, models>>

ServeVerb(c, pair, swap) ==
    /\ serves' = Append(serves, [pair |-> pair, swap |-> swap])
    /\ RowDone(c, [serve |-> Len(serves) + 1, shown |-> Displayed(pair, swap), swap |-> swap])
    /\ UNCHANGED <<active, assets, boards, judgments, models>>

\* The first judgment of a serve is kept; another of the same serve fails.
JudgeVerb(c, serve, choice) ==
    LET judgment == [serve |-> serve, choice |-> choice] IN
    /\ \A j \in judgments : j.serve = serve => j = judgment
    /\ judgments' = judgments \cup {judgment}
    /\ RowDone(c, [serve |-> serve, choice |-> choice, created |-> judgment \notin judgments])
    /\ UNCHANGED <<active, assets, boards, serves, models>>

\* A snapshot of everything judged in the scope, or the refusal below support.
TrainVerb(c) ==
    LET support == Cardinality(Groups(JudgedIn(judgments, "train", Sides))) IN
    /\ \/ /\ support < TrainMinimum
          /\ RowDone(c, [refused |-> support])
          /\ UNCHANGED models
       \/ /\ support >= TrainMinimum
          /\ models' = Append(models, judgments)
          /\ RowDone(c, [model |-> Len(models) + 1, snapshot |-> judgments])
    /\ UNCHANGED <<active, assets, boards, serves, judgments>>

\* A model is immutable: what it predicts of a pair is named by the two.
PreferenceVerb(c, model, pair) ==
    /\ RowDone(c, [model |-> model, pair |-> pair])
    /\ UNCHANGED storeVars

\* The kernel works off the next row.
Perform(c) ==
    /\ Running(c)
    /\ LET op == NextOp(c) IN
       \/ op.tool = "model" /\ ModelVerb(c)
       \/ op.tool = "ingest" /\ IngestVerb(c, op.content)
       \/ op.tool = "create" /\ CreateVerb(c, op.scope)
       \/ op.tool = "serve" /\ \E swap \in BOOLEAN : ServeVerb(c, op.pair, swap)
       \/ op.tool = "judge" /\ JudgeVerb(c, op.serve, op.choice)
       \/ op.tool = "train" /\ TrainVerb(c)
       \/ op.tool = "preference" /\ PreferenceVerb(c, op.model, op.pair)

\* The model is reloaded.
Reload ==
    /\ active' \in Descriptors \ {active}
    /\ UNCHANGED <<assets, boards, serves, judgments, models, batch>>

-----------------------------------------------------------------------------
\* _execute, second half.

Answered(c) == batch[c] # Nil /\ Len(batch[c].done) = Len(batch[c].ops)

\* What the saved rows may be: results of this batch, in any order, some of
\* them twice; _validate_manifest and _parse_rows see their number, their tool
\* and whether each succeeded.
Rows(c) ==
    LET done == batch[c].done IN
    {[i \in DOMAIN done |-> done[p[i]]] : p \in [DOMAIN done -> DOMAIN done]}

\* One failed row discards the batch.
AllSucceeded(c) ==
    /\ Answered(c)
    /\ \A i \in DOMAIN batch[c].done : batch[c].done[i] # Failed

\* A batch is read once and its directory removed.
Collected(c) == batch' = [batch EXCEPT ![c] = Nil]
=============================================================================
