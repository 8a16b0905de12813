----------------------------- MODULE KhiveProofs -----------------------------
(***************************************************************************)
(* What holds of the two users of Khive.                                   *)
(*                                                                         *)
(* The commands that publish, for every number of commands, files and      *)
(* contents, every group size, and every store: the kernel works off the   *)
(* rows of a batch in order and each succeeds or fails on its own, so a    *)
(* batch holds for each row done a result that is true of the store        *)
(* (BatchInv); what a command accepts of it, once its validation passed,   *)
(* is true of the bytes it loaded and of the space it bound (EmbeddedInv), *)
(* and the entity it names was created for its scope (EntityInv).          *)
(*                                                                         *)
(* The preference replay, for every pool, every length of the selection's  *)
(* parts and any number of judgments of somebody else: a row the call      *)
(* accepted is true of the store (Answers), so an event names a judgment   *)
(* of a presentation nobody else has (EventsInv); the judgments of the     *)
(* events are then as many as the events, and a snapshot that holds them   *)
(* all and is no larger holds nothing else (TrainedInv).                   *)
(***************************************************************************)
EXTENDS KhiveCommands, PreferenceReplay, FiniteSetTheorems, WellFoundedInduction, TLAPS

-----------------------------------------------------------------------------
(* The distinct contents of a request.                                      *)

\* A nonempty set of naturals has a least element.
LEMMA LeastNatural ==
    ASSUME NEW T \in SUBSET Nat, T # {}
    PROVE  \E x \in T : \A y \in T : x <= y
<1>1. PICK x \in T : \A y \in T : ~(<<y, x>> \in OpToRel(<, Nat))
  BY NatLessThanWellFounded, WFMin
<1>2. ASSUME NEW y \in T
      PROVE  x <= y
  <2>1. <<y, x>> \in Nat \X Nat /\ y \in Nat /\ x \in Nat
    OBVIOUS
  <2>2. ~(y < x)
    BY <1>1, <2>1 DEF OpToRel
  <2> QED
    BY <2>1, <2>2
<1> QED
  BY <1>2

\* Every content has a first occurrence.
LEMMA FirstOccurs ==
    ASSUME NEW s \in Seq(Contents), NEW i \in DOMAIN s
    PROVE  \E f \in Firsts(s) : s[f] = s[i]
<1> DEFINE T == {j \in DOMAIN s : s[j] = s[i]}
<1>1. T \in SUBSET Nat /\ T # {}
  OBVIOUS
<1>2. PICK f \in T : \A y \in T : f <= y
  BY <1>1, LeastNatural
<1>3. f \in DOMAIN s /\ s[f] = s[i] /\ f \in 1..Len(s)
  OBVIOUS
<1>4. ASSUME NEW j \in 1..(f - 1), s[j] = s[f]
      PROVE  FALSE
  <2>1. j \in T /\ j < f
    BY <1>3, <1>4
  <2> QED
    BY <1>2, <2>1
<1> QED
  BY <1>3, <1>4 DEF Firsts

LEMMA FirstsFinite ==
    ASSUME NEW s \in Seq(Contents)
    PROVE  /\ IsFiniteSet(Firsts(s))
           /\ Firsts(s) \subseteq 1..Len(s)
<1>1. Firsts(s) \subseteq 1..Len(s) /\ Len(s) \in Nat
  BY DEF Firsts
<1>2. IsFiniteSet(1..Len(s))
  BY <1>1, FS_Interval
<1> QED
  BY <1>1, <1>2, FS_Subset

\* Places number the indices to be arranged, each with its own.
LEMMA PlaceRange ==
    ASSUME NEW I \in SUBSET Nat, IsFiniteSet(I), NEW key, \A m \in I : key[m] \in Int, NEW i \in I
    PROVE  Place(I, key, i) \in 1..Cardinality(I)
<1> DEFINE Before == {j \in I : key[j] < key[i] \/ (key[j] = key[i] /\ j <= i)}
<1>1. /\ IsFiniteSet(Before) /\ Cardinality(Before) \in Nat
      /\ Cardinality(I) \in Nat /\ Cardinality(Before) <= Cardinality(I)
  BY FS_Subset, FS_CardinalityType
<1>2. i \in Before
  OBVIOUS
<1>3. Cardinality(Before) # 0
  BY <1>1, <1>2, FS_EmptySet
<1> HIDE DEF Before
<1>4. Cardinality(Before) \in 1..Cardinality(I)
  BY <1>1, <1>3
<1> QED
  BY <1>4 DEF Place, Before

LEMMA PlaceInjective ==
    ASSUME NEW I \in SUBSET Nat, IsFiniteSet(I), NEW key, \A m \in I : key[m] \in Int,
           NEW i \in I, NEW j \in I, i # j
    PROVE  Place(I, key, i) # Place(I, key, j)
<1> DEFINE Before(n) == {m \in I : key[m] < key[n] \/ (key[m] = key[n] /\ m <= n)}
<1>1. \A n \in I : IsFiniteSet(Before(n))
  BY FS_Subset
<1>2. ASSUME NEW m \in I, NEW n \in I, m # n,
             key[m] < key[n] \/ (key[m] = key[n] /\ m <= n)
      PROVE  Cardinality(Before(m)) # Cardinality(Before(n))
  <2>1. Before(m) \subseteq Before(n)
    <3>1. ASSUME NEW k \in I, key[k] < key[m] \/ (key[k] = key[m] /\ k <= m)
          PROVE  key[k] < key[n] \/ (key[k] = key[n] /\ k <= n)
      <4>1. /\ key[k] \in Int /\ key[m] \in Int /\ key[n] \in Int
            /\ k \in Nat /\ m \in Nat /\ n \in Nat
        OBVIOUS
      <4> QED
        BY <1>2, <3>1, <4>1
    <3> QED
      BY <3>1
  <2>2. n \in Before(n) /\ n \notin Before(m)
    <3>1. /\ key[m] \in Int /\ key[n] \in Int /\ m \in Nat /\ n \in Nat
      OBVIOUS
    <3> QED
      BY <1>2, <3>1
  <2>3. Cardinality(Before(m)) = Cardinality(Before(n)) => Before(m) = Before(n)
    BY <1>1, <2>1, FS_Subset
  <2> QED
    BY <2>2, <2>3
<1>3. /\ key[i] \in Int /\ key[j] \in Int /\ i \in Nat /\ j \in Nat
  OBVIOUS
<1>4. \/ key[i] < key[j] \/ (key[i] = key[j] /\ i <= j)
      \/ key[j] < key[i] \/ (key[j] = key[i] /\ j <= i)
  BY <1>3
<1>5. Cardinality(Before(i)) # Cardinality(Before(j))
  BY <1>2, <1>4
<1> QED
  BY <1>5 DEF Place

LEMMA PlaceOnto ==
    ASSUME NEW I \in SUBSET Nat, IsFiniteSet(I), NEW key, \A m \in I : key[m] \in Int,
           NEW k \in 1..Cardinality(I)
    PROVE  \E i \in I : Place(I, key, i) = k
<1> DEFINE n == Cardinality(I)
           r == [i \in I |-> Place(I, key, i)]
<1>1. n \in Nat
  BY FS_CardinalityType
<1>2. IsFiniteSet(1..n) /\ Cardinality(1..n) = n
  BY <1>1, FS_Interval
<1>3. r \in [I -> 1..n]
  BY PlaceRange
<1>4. ASSUME NEW i \in I, NEW j \in I, r[i] = r[j]
      PROVE  i = j
  BY <1>4, PlaceInjective
<1> HIDE DEF r
<1>5. r \in Injection(I, 1..n)
  BY <1>3, <1>4 DEF Injection, IsInjective
<1>6. r \in Surjection(I, 1..n)
  BY <1>2, <1>5, FS_Injection
<1>7. \E i \in I : r[i] = k
  BY <1>6 DEF Surjection
<1> QED
  BY <1>7 DEF r

Arrangeable(I, key) ==
    I \in SUBSET Nat /\ IsFiniteSet(I) /\ \A i \in I : key[i] \in Int

Elements(s, I) == {s[i] : i \in I}

\* What is arranged is neither more nor less than the elements at the indices.
LEMMA ArrangedCovers ==
    ASSUME NEW s, NEW I, NEW key, Arrangeable(I, key)
    PROVE  /\ Arranged(s, I, key) \in Seq(Elements(s, I))
           /\ Len(Arranged(s, I, key)) = Cardinality(I)
           /\ \A i \in I : \E k \in DOMAIN Arranged(s, I, key) :
                 Arranged(s, I, key)[k] = s[i]
<1> DEFINE n == Cardinality(I)
           named(k) == CHOOSE i \in I : Place(I, key, i) = k
           arranged == [k \in 1..n |-> s[named(k)]]
           elements == Elements(s, I)
<1> USE DEF Arrangeable
<1>1. n \in Nat
  BY FS_CardinalityType
<1>2. ASSUME NEW k \in 1..n
      PROVE  named(k) \in I /\ Place(I, key, named(k)) = k
  BY PlaceOnto
<1>3. ASSUME NEW i \in I
      PROVE  named(Place(I, key, i)) = i /\ Place(I, key, i) \in 1..n
  BY PlaceRange, PlaceInjective
<1>4. Arranged(s, I, key) = arranged
  BY DEF Arranged
<1> HIDE DEF named
<1>5. arranged \in [1..n -> elements]
  BY <1>2 DEF Elements
<1>6. \A i \in I : arranged[Place(I, key, i)] = s[i] /\ Place(I, key, i) \in 1..n
  BY <1>3
<1>7. DOMAIN arranged = 1..n
  OBVIOUS
<1> HIDE DEF arranged, n, elements
<1>8. arranged \in Seq(elements) /\ Len(arranged) = n
  BY <1>1, <1>5, <1>7
<1>9. \A i \in I : \E k \in DOMAIN arranged : arranged[k] = s[i]
  BY <1>6, <1>7
<1> QED
  BY <1>4, <1>8, <1>9 DEF n, elements

\* What a request asks to embed is what it loaded: every content of the one is a
\* content of the other.
LEMMA UniqueCovers ==
    ASSUME NEW s \in Seq(Contents)
    PROVE  /\ Unique(s) \in Seq(Contents)
           /\ \A i \in DOMAIN s : \E k \in DOMAIN Unique(s) : Unique(s)[k] = s[i]
<1> DEFINE I == Firsts(s)
<1>1. I \in SUBSET Nat /\ IsFiniteSet(I) /\ I \subseteq DOMAIN s
  BY FirstsFinite
<1>2. \A i \in I : AsListed(s)[i] \in Int
  BY <1>1 DEF AsListed
<1>3. /\ Unique(s) \in Seq(Elements(s, I))
      /\ \A i \in I : \E k \in DOMAIN Unique(s) : Unique(s)[k] = s[i]
  <2> DEFINE key == AsListed(s)
  <2>1. Unique(s) = Arranged(s, I, key)
    BY DEF Unique
  <2>2. Arrangeable(I, key)
    BY <1>1, <1>2 DEF Arrangeable
  <2> HIDE DEF I, key
  <2>3. /\ Arranged(s, I, key) \in Seq(Elements(s, I))
        /\ \A i \in I : \E k \in DOMAIN Arranged(s, I, key) : Arranged(s, I, key)[k] = s[i]
    BY <2>2, ArrangedCovers
  <2> QED
    BY <2>1, <2>3
<1>4. Elements(s, I) \subseteq Contents
  BY <1>1 DEF Elements
<1>5. Unique(s) \in Seq(Contents)
  BY <1>3, <1>4
<1>6. ASSUME NEW i \in DOMAIN s
      PROVE  \E k \in DOMAIN Unique(s) : Unique(s)[k] = s[i]
  <2>1. PICK f \in I : s[f] = s[i]
    BY FirstOccurs
  <2> QED
    BY <1>3, <2>1
<1> QED
  BY <1>5, <1>6

-----------------------------------------------------------------------------
(* The kernel's rows.                                                       *)

Scopes == [report : Commands \cup {Absent, Torn, Nil}, space : Descriptors \cup {Nil}]

\* What the commands ask of the kernel, and what it may answer.
Ops ==
    [tool : {"model"}] \cup [tool : {"ingest"}, content : Contents]
        \cup [tool : {"create"}, scope : Scopes]

Results ==
    {Failed} \cup [descriptor : Descriptors]
        \cup [content : Contents, descriptor : Descriptors] \cup [id : Nat, scope : Scopes]

\* A row's result, when the row did not fail, is that of its own verb: in
\* particular an entity that was created is in the store, for the row's scope.
Truthful(op, result) ==
    \/ result = Failed
    \/ op.tool = "model" /\ result \in [descriptor : Descriptors]
    \/ op.tool = "ingest" /\ result \in [content : {op.content}, descriptor : Descriptors]
    \/ /\ op.tool = "create"
       /\ result.id \in DOMAIN boards
       /\ boards[result.id] = op.scope
       /\ result.scope = op.scope

BatchOf(c, ops, done) ==
    /\ batch[c] = [ops |-> ops, done |-> done]
    /\ Len(done) <= Len(ops)
    /\ \A i \in 1..Len(done) : Truthful(ops[i], done[i])

BatchInv ==
    /\ DOMAIN batch = Clients
    /\ \A c \in Commands :
          \/ batch[c] = Nil
          \/ \E ops \in Seq(Ops), done \in Seq(Results) : BatchOf(c, ops, done)

-----------------------------------------------------------------------------
(* The commands.                                                            *)

CommandTypeOK ==
    /\ active \in Descriptors
    /\ boards \in Seq(Scopes)
    /\ files \in Seq(Contents)
    /\ report \in Commands \cup {Absent, Torn}
    /\ DOMAIN pc = Commands
    /\ DOMAIN kind = Commands
    /\ DOMAIN board = Commands
    /\ loaded \in [Commands -> Seq(Contents)]
    /\ space \in [Commands -> Descriptors \cup {Nil}]
    /\ vectors \in [Commands -> Seq(Results)]
    /\ digest \in [Commands -> Commands \cup {Absent, Torn, Nil}]
    /\ DOMAIN entity = Commands

\* The batch a command is waiting for is the one it submitted.
AskedInv(c) ==
    /\ pc[c] = "discovering" => batch[c].ops = <<[tool |-> "model"]>>
    /\ pc[c] = "ingesting" =>
          batch[c].ops =
             [i \in DOMAIN Group(c) |-> [tool |-> "ingest", content |-> Group(c)[i]]]
    /\ pc[c] = "creating" => batch[c].ops = <<[tool |-> "create", scope |-> Scope(c)]>>

Bound == {"sources", "ingest", "ingesting", "embedded", "report", "digest", "create",
          "creating", "artifact"}

Embedded == {"embedded", "report", "digest", "create", "creating", "artifact"}

\* The rows accepted so far are those of the first distinct contents, in the
\* space the encoder bound, which for a rank is its board's.
EmbeddedInv(c) ==
    /\ pc[c] \in Bound =>
          /\ kind[c] = "export" => board[c].space = space[c]
          /\ \A k \in 1..Len(vectors[c]) :
                /\ k \in 1..Len(Unique(loaded[c]))
                /\ vectors[c][k].content = Unique(loaded[c])[k]
                /\ vectors[c][k].descriptor = space[c]
    /\ pc[c] \in Embedded => Len(vectors[c]) >= Len(Unique(loaded[c]))
    /\ pc[c] \in {"idle", "discover", "discovering"} => vectors[c] = <<>>

\* The entity a command goes on with, and one on disk, was created for its scope.
EntityInv ==
    /\ \A c \in Commands :
          pc[c] = "artifact" =>
             /\ entity[c] \in DOMAIN boards
             /\ boards[entity[c]] = Scope(c)
    /\ ScopeIsPublished

CommandInv ==
    /\ CommandTypeOK
    /\ BatchInv
    /\ \A c \in Commands : AskedInv(c) /\ EmbeddedInv(c)
    /\ EntityInv

-----------------------------------------------------------------------------
(* Batches.                                                                 *)

\* The store forgets no entity and renames none.
BoardsGrow ==
    /\ Len(boards') >= Len(boards)
    /\ \A i \in DOMAIN boards : i \in DOMAIN boards' /\ boards'[i] = boards[i]

LEMMA TruthLasts ==
    ASSUME BoardsGrow, NEW op, NEW result, Truthful(op, result)
    PROVE  Truthful(op, result)'
  BY DEF BoardsGrow, Truthful

LEMMA BatchLasts ==
    ASSUME BoardsGrow, NEW c, NEW ops, NEW done, BatchOf(c, ops, done),
           batch'[c] = batch[c]
    PROVE  BatchOf(c, ops, done)'
<1>1. \A i \in 1..Len(done) : Truthful(ops[i], done[i])'
  BY TruthLasts DEF BatchOf
<1> HIDE DEF Truthful
<1> QED
  BY <1>1 DEF BatchOf

\* Steps that leave the batches alone, or only one of them.
LEMMA OneBatch ==
    ASSUME BatchInv, BoardsGrow, NEW c \in Commands, DOMAIN batch' = Clients,
           \A b \in Commands \ {c} : batch'[b] = batch[b],
           \/ batch'[c] = Nil
           \/ \E ops \in Seq(Ops), done \in Seq(Results) : BatchOf(c, ops, done)'
    PROVE  BatchInv'
<1>1. ASSUME NEW b \in Commands, b # c
      PROVE  \/ batch'[b] = Nil
             \/ \E ops \in Seq(Ops), done \in Seq(Results) : BatchOf(b, ops, done)'
  BY <1>1, BatchLasts DEF BatchInv
<1> HIDE DEF BatchOf
<1> QED
  BY <1>1 DEF BatchInv

LEMMA SameBatches ==
    ASSUME BatchInv, BoardsGrow, batch' = batch
    PROVE  BatchInv'
<1>1. ASSUME NEW b \in Commands
      PROVE  \/ batch'[b] = Nil
             \/ \E ops \in Seq(Ops), done \in Seq(Results) : BatchOf(b, ops, done)'
  BY <1>1, BatchLasts DEF BatchInv
<1> HIDE DEF BatchOf
<1> QED
  BY <1>1 DEF BatchInv

LEMMA Submitted ==
    ASSUME BatchInv, BoardsGrow, NEW c \in Commands, NEW ops \in Seq(Ops), Submit(c, ops)
    PROVE  /\ BatchInv'
           /\ batch'[c].ops = ops
           /\ \A b \in Commands \ {c} : batch'[b] = batch[b]
<1>1. /\ DOMAIN batch' = Clients /\ batch'[c] = [ops |-> ops, done |-> <<>>]
      /\ \A b \in Commands \ {c} : batch'[b] = batch[b]
  BY CommandAssumption DEF Submit, BatchInv
<1>2. <<>> \in Seq(Results) /\ Len(<<>>) = 0 /\ Len(ops) \in Nat
  OBVIOUS
<1>3. \A i \in 1..Len(<<>>) : Truthful(ops[i], <<>>[i])'
  BY <1>2
<1>4. BatchOf(c, ops, <<>>)'
  BY <1>1, <1>2, <1>3 DEF BatchOf
<1>5. BatchInv'
  BY <1>1, <1>2, <1>4, OneBatch
<1> QED
  BY <1>1, <1>5

LEMMA CollectedKeeps ==
    ASSUME BatchInv, BoardsGrow, NEW c \in Commands, Collected(c)
    PROVE  /\ BatchInv'
           /\ \A b \in Commands \ {c} : batch'[b] = batch[b]
<1>1. /\ DOMAIN batch' = Clients /\ batch'[c] = Nil
      /\ \A b \in Commands \ {c} : batch'[b] = batch[b]
  BY CommandAssumption DEF Collected, BatchInv
<1> QED
  BY <1>1, OneBatch

\* The kernel adds a result that is true of its row.
LEMMA RowAdded ==
    ASSUME BatchInv, BoardsGrow, NEW c \in Commands,
           NEW ops \in Seq(Ops), NEW done \in Seq(Results), BatchOf(c, ops, done),
           Len(done) < Len(ops), NEW result \in Results, RowDone(c, result),
           Truthful(ops[Len(done) + 1], result)'
    PROVE  /\ BatchInv'
           /\ batch'[c].ops = batch[c].ops
           /\ \A b \in Commands \ {c} : batch'[b] = batch[b]
<1> DEFINE more == Append(done, result)
<1>1. /\ DOMAIN batch' = Clients /\ batch'[c] = [ops |-> ops, done |-> more]
      /\ \A b \in Commands \ {c} : batch'[b] = batch[b]
  <2>1. batch' = [batch EXCEPT ![c] = [batch[c] EXCEPT !.done = Append(batch[c].done, result)]]
    BY DEF RowDone
  <2>2. [batch[c] EXCEPT !.done = Append(batch[c].done, result)] = [ops |-> ops, done |-> more]
    <3>1. batch[c] = [ops |-> ops, done |-> done]
      BY DEF BatchOf
    <3>2. Append(batch[c].done, result) = more
      BY <3>1
    <3>3. \A x : [[ops |-> ops, done |-> done] EXCEPT !.done = x] = [ops |-> ops, done |-> x]
      OBVIOUS
    <3> HIDE DEF more
    <3> QED
      BY <3>1, <3>2, <3>3
  <2>3. DOMAIN batch = Clients /\ c \in Clients
    BY CommandAssumption DEF BatchInv
  <2> HIDE DEF more
  <2> QED
    BY <2>1, <2>2, <2>3
<1>2. /\ more \in Seq(Results) /\ Len(more) = Len(done) + 1 /\ Len(done) \in Nat
      /\ Len(ops) \in Nat
      /\ more[Len(done) + 1] = result
      /\ \A i \in 1..Len(done) : more[i] = done[i]
  OBVIOUS
<1> HIDE DEF more
<1>3. ASSUME NEW i \in 1..Len(more)
      PROVE  Truthful(ops[i], more[i])'
  <2>1. CASE i = Len(done) + 1
    BY <1>2, <2>1
  <2>2. CASE i # Len(done) + 1
    <3>1. i \in 1..Len(done) /\ more[i] = done[i]
      BY <1>2, <2>2
    <3>2. Truthful(ops[i], done[i])'
      BY <3>1, TruthLasts DEF BatchOf
    <3> QED
      BY <3>1, <3>2
  <2> QED
    BY <2>1, <2>2
<1> HIDE DEF Truthful
<1>4. BatchOf(c, ops, more)'
  BY <1>1, <1>2, <1>3 DEF BatchOf
<1>5. BatchInv'
  BY <1>1, <1>2, <1>4, OneBatch
<1> QED
  BY <1>1, <1>5 DEF BatchOf

LEMMA KernelRows ==
    ASSUME CommandTypeOK, BatchInv, NEW c \in Commands, FailRow(c) \/ Perform(c)
    PROVE  /\ BatchInv' /\ BoardsGrow /\ boards' \in Seq(Scopes) /\ active' = active
           /\ batch'[c].ops = batch[c].ops
           /\ \A b \in Commands \ {c} : batch'[b] = batch[b]
<1>1. batch[c] # Nil /\ Len(batch[c].done) < Len(batch[c].ops)
  BY DEF FailRow, Perform, Running
<1>2. PICK ops \in Seq(Ops), done \in Seq(Results) : BatchOf(c, ops, done)
  BY <1>1 DEF BatchInv
<1>3. /\ Len(done) < Len(ops) /\ NextOp(c) = ops[Len(done) + 1]
      /\ ops[Len(done) + 1] \in Ops
      /\ boards \in Seq(Scopes) /\ active \in Descriptors
  BY <1>1, <1>2 DEF BatchOf, NextOp, CommandTypeOK
<1>4. SUFFICES \E result \in Results :
         /\ RowDone(c, result) /\ BoardsGrow /\ boards' \in Seq(Scopes)
         /\ active' = active
         /\ Truthful(ops[Len(done) + 1], result)'
  BY <1>2, <1>3, RowAdded
<1>5. UNCHANGED boards => BoardsGrow
  BY <1>3 DEF BoardsGrow
<1> DEFINE op == ops[Len(done) + 1]
<1>6. CASE FailRow(c)
  <2>1. RowDone(c, Failed) /\ UNCHANGED <<boards, active>>
    BY <1>6 DEF FailRow, storeVars
  <2> QED
    BY <1>3, <1>5, <2>1 DEF Results, Truthful
<1>7. CASE op.tool = "model" /\ ModelVerb(c)
  <2>1. RowDone(c, [descriptor |-> active]) /\ UNCHANGED <<boards, active>>
    BY <1>7 DEF ModelVerb, storeVars
  <2> QED
    BY <1>3, <1>5, <1>7, <2>1 DEF Results, Truthful
<1>8. CASE op.tool = "ingest" /\ IngestVerb(c, op.content)
  <2>1. op.content \in Contents
    BY <1>3, <1>8 DEF Ops
  <2>2. /\ RowDone(c, [content |-> op.content, descriptor |-> active])
        /\ UNCHANGED <<boards, active>>
    BY <1>8 DEF IngestVerb
  <2> QED
    BY <1>3, <1>5, <1>8, <2>1, <2>2 DEF Results, Truthful
<1>9. CASE op.tool = "create" /\ CreateVerb(c, op.scope)
  <2>1. op.scope \in Scopes
    BY <1>3, <1>9 DEF Ops
  <2>2. /\ RowDone(c, [id |-> Len(boards) + 1, scope |-> op.scope])
        /\ boards' = Append(boards, op.scope) /\ UNCHANGED active
    BY <1>9 DEF CreateVerb
  <2>3. /\ boards' \in Seq(Scopes) /\ Len(boards) \in Nat
        /\ Len(boards) + 1 \in DOMAIN boards'
        /\ boards'[Len(boards) + 1] = op.scope
        /\ BoardsGrow
    BY <1>3, <2>1, <2>2 DEF BoardsGrow
  <2>4. PICK created \in Results : created = [id |-> Len(boards) + 1, scope |-> op.scope]
    <3>1. [id |-> Len(boards) + 1, scope |-> op.scope] \in [id : Nat, scope : Scopes]
      BY <2>1, <2>3
    <3> QED
      BY <3>1 DEF Results
  <2>5. Truthful(op, created)'
    BY <1>9, <2>3, <2>4 DEF Truthful
  <2> QED
    BY <2>2, <2>3, <2>4, <2>5
<1>10. op.tool \in {"model", "ingest", "create"}
  BY <1>3 DEF Ops
<1> QED
  BY <1>3, <1>6, <1>7, <1>8, <1>9, <1>10 DEF Perform

\* What a command may read of an answered batch: one row for each it asked, each
\* the result, true of the store, of some row of that batch.
LEMMA RowsRead ==
    ASSUME BatchInv, NEW c \in Commands, AllSucceeded(c), NEW rows \in Rows(c)
    PROVE  /\ rows \in Seq(Results)
           /\ batch[c].ops \in Seq(Ops)
           /\ Len(rows) = Len(batch[c].ops)
           /\ \A i \in 1..Len(rows) : \E j \in 1..Len(rows) :
                 rows[i] # Failed /\ Truthful(batch[c].ops[j], rows[i])
<1>1. batch[c] # Nil /\ Len(batch[c].done) = Len(batch[c].ops)
      /\ \A i \in DOMAIN batch[c].done : batch[c].done[i] # Failed
  BY DEF AllSucceeded, Answered
<1>2. PICK ops \in Seq(Ops), done \in Seq(Results) : BatchOf(c, ops, done)
  BY <1>1 DEF BatchInv
<1>3. /\ batch[c].ops = ops /\ batch[c].done = done /\ Len(done) = Len(ops)
      /\ DOMAIN done = 1..Len(done) /\ Len(done) \in Nat
      /\ \A i \in 1..Len(done) : done[i] # Failed /\ Truthful(ops[i], done[i])
  BY <1>1, <1>2 DEF BatchOf
<1>4. PICK p \in [DOMAIN done -> DOMAIN done] : rows = [i \in DOMAIN done |-> done[p[i]]]
  BY <1>3 DEF Rows
<1>5. ASSUME NEW i \in 1..Len(done)
      PROVE  rows[i] = done[p[i]] /\ p[i] \in 1..Len(done) /\ rows[i] \in Results
  <2>1. DOMAIN done = 1..Len(done)
    OBVIOUS
  <2>2. rows[i] = done[p[i]] /\ p[i] \in 1..Len(done)
    BY <1>4, <2>1
  <2> QED
    BY <2>2
<1>6. rows \in Seq(Results) /\ Len(rows) = Len(done)
  <2>1. rows = [i \in 1..Len(done) |-> rows[i]]
    BY <1>3, <1>4
  <2> QED
    BY <1>3, <1>5, <2>1
<1> HIDE DEF Truthful
<1> QED
  BY <1>3, <1>5, <1>6

\* A step of one command: the state of the others is theirs.
Elsewhere(c) ==
    \A b \in Commands \ {c} :
        /\ pc'[b] = pc[b] /\ kind'[b] = kind[b] /\ loaded'[b] = loaded[b]
        /\ board'[b] = board[b] /\ space'[b] = space[b] /\ vectors'[b] = vectors[b]
        /\ digest'[b] = digest[b] /\ entity'[b] = entity[b]
        /\ batch'[b] = batch[b]

LocalInv(c) ==
    /\ AskedInv(c)
    /\ EmbeddedInv(c)
    /\ pc[c] = "artifact" =>
          /\ entity[c] \in DOMAIN boards
          /\ boards[entity[c]] = Scope(c)

LEMMA LocalKept ==
    ASSUME BoardsGrow, NEW b \in Commands, LocalInv(b), batch'[b].ops = batch[b].ops,
           pc'[b] = pc[b], kind'[b] = kind[b], loaded'[b] = loaded[b],
           board'[b] = board[b], space'[b] = space[b], vectors'[b] = vectors[b],
           digest'[b] = digest[b], entity'[b] = entity[b]
    PROVE  LocalInv(b)'
<1>1. Group(b)' = Group(b)
  BY DEF Group, Pending
<1>2. Scope(b)' = Scope(b)
  BY DEF Scope
<1>3. AskedInv(b)'
  BY <1>1, <1>2 DEF LocalInv, AskedInv
<1>4. EmbeddedInv(b)'
  BY DEF LocalInv, EmbeddedInv
<1>5. ASSUME pc'[b] = "artifact"
      PROVE  entity'[b] \in DOMAIN boards' /\ boards'[entity'[b]] = Scope(b)'
  BY <1>2, <1>5 DEF LocalInv, BoardsGrow
<1> QED
  BY <1>3, <1>4, <1>5 DEF LocalInv

LEMMA CommandInvParts ==
    CommandInv <=> /\ CommandTypeOK /\ BatchInv
                   /\ \A c \in Commands : LocalInv(c)
                   /\ ScopeIsPublished
  BY DEF CommandInv, LocalInv, EntityInv

LEMMA PublishedKept ==
    ASSUME BoardsGrow, ScopeIsPublished, artifact' = artifact
    PROVE  ScopeIsPublished'
  BY DEF BoardsGrow, ScopeIsPublished

LEMMA OneCommand ==
    ASSUME CommandInv, NEW c \in Commands, BoardsGrow, Elsewhere(c), LocalInv(c)',
           CommandTypeOK', BatchInv', ScopeIsPublished'
    PROVE  CommandInv'
<1>1. ASSUME NEW b \in Commands, b # c
      PROVE  LocalInv(b)'
  <2>1. LocalInv(b)
    BY CommandInvParts
  <2> QED
    BY <1>1, <2>1, LocalKept DEF Elsewhere
<1>2. \A b \in Commands : LocalInv(b)'
  BY <1>1
<1> QED
  BY <1>2 DEF CommandInv, LocalInv, EntityInv

\* Assignments to one command's variables leave those of the others alone.
Domains ==
    /\ DOMAIN pc = Commands /\ DOMAIN kind = Commands /\ DOMAIN loaded = Commands
    /\ DOMAIN board = Commands /\ DOMAIN space = Commands /\ DOMAIN vectors = Commands
    /\ DOMAIN digest = Commands /\ DOMAIN entity = Commands

LEMMA TypedDomains == CommandTypeOK => Domains
  BY DEF CommandTypeOK, Domains

LEMMA StoreAlone ==
    ASSUME CommandTypeOK, UNCHANGED storeVars
    PROVE  BoardsGrow /\ boards' \in Seq(Scopes) /\ active' \in Descriptors
  BY DEF CommandTypeOK, storeVars, BoardsGrow

-----------------------------------------------------------------------------
(* One lemma for each step of a command.                                    *)

LEMMA LoadStep ==
    ASSUME CommandInv, NEW c \in Commands, Load(c)
    PROVE  CommandInv'
<1>1. BoardsGrow /\ batch' = batch /\ artifact' = artifact
  BY StoreAlone DEF Load, CommandInv, khiveVars, outputs
<1>2. Domains
  BY TypedDomains DEF CommandInv
<1>3. Elsewhere(c)
  BY <1>1, <1>2 DEF Load, Elsewhere, Domains, Set, Goto
<1>4. pc'[c] = "discover" /\ vectors'[c] = <<>>
  BY <1>2 DEF Load, Goto, Set, Domains, CommandInv, EmbeddedInv
<1>5. LocalInv(c)'
  BY <1>4 DEF LocalInv, AskedInv, EmbeddedInv, Bound, Embedded
<1>6. CommandTypeOK'
  BY <1>2 DEF Load, Goto, Set, Domains, CommandInv, CommandTypeOK, khiveVars, storeVars,
              outputs
<1> QED
  BY <1>1, <1>3, <1>5, <1>6, OneCommand, SameBatches, PublishedKept DEF CommandInv, EntityInv

LEMMA AskStep ==
    ASSUME CommandInv, NEW c \in Commands, NEW from, NEW to, NEW ops \in Seq(Ops),
           Ask(c, from, to, ops)
    PROVE  /\ CommandTypeOK' /\ BatchInv' /\ BoardsGrow /\ ScopeIsPublished'
           /\ Elsewhere(c)
           /\ pc[c] = from /\ pc'[c] = to /\ batch'[c].ops = ops
<1>1. BoardsGrow /\ artifact' = artifact /\ Submit(c, ops)
  BY StoreAlone DEF Ask, CommandInv, outputs
<1>2. Domains
  BY TypedDomains DEF CommandInv
<1>3. /\ BatchInv' /\ batch'[c].ops = ops
      /\ \A b \in Commands \ {c} : batch'[b] = batch[b]
  BY <1>1, Submitted DEF CommandInv
<1>4. Elsewhere(c) /\ pc[c] = from /\ pc'[c] = to
  BY <1>2, <1>3 DEF Ask, Elsewhere, Domains, Set, Goto, locals
<1>5. CommandTypeOK'
  BY <1>2 DEF Ask, Goto, Set, Domains, CommandInv, CommandTypeOK, storeVars, outputs, locals
<1> QED
  BY <1>1, <1>3, <1>4, <1>5, PublishedKept, CommandInvParts

LEMMA DiscoverStep ==
    ASSUME CommandInv, NEW c \in Commands, Discover(c)
    PROVE  CommandInv'
<1> DEFINE ops == <<[tool |-> "model"]>>
<1>1. ops \in Seq(Ops)
  BY DEF Ops
<1>2. Ask(c, "discover", "discovering", ops)
  BY DEF Discover
<1>3. UNCHANGED locals
  BY DEF Discover, Ask
<1> HIDE DEF ops
<1>4. /\ CommandTypeOK' /\ BatchInv' /\ BoardsGrow /\ ScopeIsPublished'
      /\ Elsewhere(c)
      /\ pc[c] = "discover" /\ pc'[c] = "discovering" /\ batch'[c].ops = ops
  BY <1>1, <1>2, AskStep
<1>5. vectors'[c] = <<>>
  BY <1>3, <1>4 DEF CommandInv, EmbeddedInv, locals
<1>6. LocalInv(c)'
  BY <1>4, <1>5 DEF LocalInv, AskedInv, EmbeddedInv, Bound, Embedded, ops
<1> QED
  BY <1>4, <1>6, OneCommand

\* Steps of a command that read an answered batch and drop it.
LEMMA CollectStep ==
    ASSUME CommandInv, NEW c \in Commands, Collected(c), UNCHANGED <<storeVars, artifact>>
    PROVE  /\ BatchInv' /\ BoardsGrow /\ ScopeIsPublished'
           /\ \A b \in Commands \ {c} : batch'[b] = batch[b]
  BY StoreAlone, CollectedKeeps, PublishedKept DEF CommandInv, EntityInv

LEMMA DiscoveredStep ==
    ASSUME CommandInv, NEW c \in Commands, Discovered(c)
    PROVE  CommandInv'
<1>1. /\ BatchInv' /\ BoardsGrow /\ ScopeIsPublished'
      /\ \A b \in Commands \ {c} : batch'[b] = batch[b]
  BY CollectStep DEF Discovered, outputs
<1>2. Domains
  BY TypedDomains DEF CommandInv
<1>3. PICK rows \in Rows(c) :
        /\ kind[c] = "export" => rows[1].descriptor = board[c].space
        /\ space' = Set(space, c, rows[1].descriptor)
  BY DEF Discovered
<1>4. rows[1].descriptor \in Descriptors
  <2>1. /\ AllSucceeded(c) /\ BatchInv /\ batch[c].ops = <<[tool |-> "model"]>>
    BY DEF Discovered, CommandInv, AskedInv
  <2>2. Len(rows) = 1
    <3>1. Len(rows) = Len(batch[c].ops)
      BY <2>1, RowsRead
    <3>2. Len(<<[tool |-> "model"]>>) = 1
      OBVIOUS
    <3> QED
      BY <2>1, <3>1, <3>2
  <2>3. PICK j \in 1..1 : rows[1] # Failed /\ Truthful(batch[c].ops[j], rows[1])
    BY SMTT(30), <2>1, <2>2, RowsRead
  <2>4. batch[c].ops[j] = [tool |-> "model"]
    BY <2>1
  <2> QED
    BY <2>3, <2>4 DEF Truthful
<1>5. Elsewhere(c)
  BY <1>1, <1>2, <1>3 DEF Discovered, Elsewhere, Domains, Set, Goto
<1>6. /\ pc'[c] = "sources" /\ kind'[c] = kind[c] /\ board'[c] = board[c]
      /\ space'[c] = rows[1].descriptor /\ vectors'[c] = <<>>
  BY <1>2, <1>3 DEF Discovered, Goto, Set, Domains, CommandInv, EmbeddedInv
<1>7. LocalInv(c)'
  BY <1>3, <1>6 DEF LocalInv, AskedInv, EmbeddedInv, Embedded
<1>8. CommandTypeOK'
  BY <1>2, <1>3, <1>4 DEF Discovered, Goto, Set, Domains, CommandInv, CommandTypeOK,
     storeVars, outputs
<1> QED
  BY <1>1, <1>5, <1>7, <1>8, OneCommand

\* Steps that touch neither the kernel nor what the command holds.
LEMMA QuietStep ==
    ASSUME CommandInv, NEW c \in Commands, NEW to, Goto(c, to),
           UNCHANGED <<khiveVars, files, artifact, locals>>,
           report' \in Commands \cup {Absent, Torn},
           to \notin {"discovering", "ingesting", "creating", "artifact"},
           to \in Bound => pc[c] \in Bound,
           to \in Embedded => pc[c] \in Embedded,
           to \notin {"idle", "discover", "discovering"}
    PROVE  CommandInv'
<1>1. BoardsGrow /\ batch' = batch
  BY StoreAlone DEF CommandInv, khiveVars
<1>2. BatchInv' /\ ScopeIsPublished'
  BY <1>1, SameBatches, PublishedKept DEF CommandInv, EntityInv
<1>3. Domains
  BY TypedDomains DEF CommandInv
<1>4. Elsewhere(c) /\ pc'[c] = to
  BY <1>1, <1>3 DEF Goto, Set, Domains, Elsewhere, locals
<1>5. LocalInv(c)'
  BY <1>4 DEF CommandInv, LocalInv, AskedInv, EmbeddedInv, locals
<1>6. CommandTypeOK'
  BY <1>3 DEF Goto, Set, Domains, CommandInv, CommandTypeOK, khiveVars, storeVars, locals
<1> QED
  BY <1>1, <1>2, <1>4, <1>5, <1>6, OneCommand

LEMMA QuietSteps ==
    ASSUME CommandInv, NEW c \in Commands,
           \/ ReadSources(c) \/ WriteBoard(c) \/ OpenReport(c) \/ WriteReport(c)
           \/ StopCommand(c)
    PROVE  CommandInv'
<1>1. report \in Commands \cup {Absent, Torn}
  BY DEF CommandInv, CommandTypeOK
<1>2. CASE ReadSources(c)
  BY <1>1, <1>2, QuietStep DEF ReadSources, outputs, Bound, Embedded
<1>3. CASE WriteBoard(c)
  BY <1>1, <1>3, QuietStep DEF WriteBoard, Bound, Embedded
<1>4. CASE OpenReport(c)
  BY <1>4, QuietStep DEF OpenReport, Bound, Embedded
<1>5. CASE WriteReport(c)
  BY <1>5, QuietStep DEF WriteReport, Bound, Embedded
<1>6. CASE StopCommand(c)
  BY <1>1, <1>6, QuietStep DEF StopCommand, outputs, Bound, Embedded
<1> QED
  BY <1>2, <1>3, <1>4, <1>5, <1>6

LEMMA HashStep ==
    ASSUME CommandInv, NEW c \in Commands, HashReport(c)
    PROVE  CommandInv'
<1>1. BoardsGrow /\ batch' = batch /\ artifact' = artifact
  BY StoreAlone DEF HashReport, CommandInv, khiveVars, outputs
<1>2. BatchInv' /\ ScopeIsPublished'
  BY <1>1, SameBatches, PublishedKept DEF CommandInv, EntityInv
<1>3. Domains
  BY TypedDomains DEF CommandInv
<1>4. Elsewhere(c) /\ pc[c] = "digest" /\ pc'[c] = "create"
  BY <1>1, <1>3 DEF HashReport, Goto, Set, Domains, Elsewhere
<1>5. LocalInv(c)'
  BY <1>4 DEF HashReport, CommandInv, LocalInv, AskedInv, EmbeddedInv, Bound, Embedded
<1>6. CommandTypeOK'
  BY <1>3 DEF HashReport, Goto, Set, Domains, CommandInv, CommandTypeOK, khiveVars,
              storeVars, outputs
<1> QED
  BY <1>1, <1>2, <1>4, <1>5, <1>6, OneCommand

LEMMA CreateStep ==
    ASSUME CommandInv, NEW c \in Commands, CreateBoard(c)
    PROVE  CommandInv'
<1> DEFINE ops == <<[tool |-> "create", scope |-> Scope(c)]>>
<1>1. ops \in Seq(Ops)
  <2>1. Scope(c) \in Scopes
    BY DEF CommandInv, CommandTypeOK, Scope, Scopes
  <2>2. [tool |-> "create", scope |-> Scope(c)] \in [tool : {"create"}, scope : Scopes]
    BY <2>1
  <2> QED
    BY <2>2 DEF Ops
<1>2. Ask(c, "create", "creating", ops) /\ UNCHANGED locals
  BY DEF CreateBoard, Ask
<1>3. ops = <<[tool |-> "create", scope |-> Scope(c)']>>
  BY <1>2 DEF Scope, locals
<1> HIDE DEF ops
<1>4. /\ CommandTypeOK' /\ BatchInv' /\ BoardsGrow /\ ScopeIsPublished'
      /\ Elsewhere(c)
      /\ pc[c] = "create" /\ pc'[c] = "creating" /\ batch'[c].ops = ops
  BY <1>1, <1>2, AskStep
<1>5. LocalInv(c)'
  BY <1>2, <1>3, <1>4
     DEF CommandInv, LocalInv, AskedInv, EmbeddedInv, Bound, Embedded, locals
<1> QED
  BY <1>4, <1>5, OneCommand

\* The published entity is the one the store created for this very scope.
LEMMA CreatedStep ==
    ASSUME CommandInv, NEW c \in Commands, Created(c)
    PROVE  CommandInv'
<1>1. /\ BatchInv' /\ BoardsGrow /\ ScopeIsPublished'
      /\ \A b \in Commands \ {c} : batch'[b] = batch[b]
  BY CollectStep DEF Created, outputs
<1>2. Domains
  BY TypedDomains DEF CommandInv
<1>3. PICK rows \in Rows(c) : entity' = Set(entity, c, rows[1].id)
  BY DEF Created
<1>4. rows[1].id \in DOMAIN boards /\ boards[rows[1].id] = Scope(c)
  <2>1. /\ AllSucceeded(c) /\ BatchInv
        /\ batch[c].ops = <<[tool |-> "create", scope |-> Scope(c)]>>
    BY DEF Created, CommandInv, AskedInv
  <2>2. Len(rows) = 1
    BY <2>1, RowsRead
  <2>3. rows[1] # Failed /\ Truthful([tool |-> "create", scope |-> Scope(c)], rows[1])
    BY <2>1, <2>2, RowsRead
  <2> QED
    BY <2>3 DEF Truthful
<1>5. Elsewhere(c)
  BY <1>1, <1>2, <1>3 DEF Created, Elsewhere, Domains, Set, Goto
<1>6. /\ pc[c] = "creating" /\ pc'[c] = "artifact" /\ kind'[c] = kind[c]
      /\ board'[c] = board[c] /\ space'[c] = space[c] /\ vectors'[c] = vectors[c]
      /\ loaded'[c] = loaded[c] /\ entity'[c] = rows[1].id /\ Scope(c)' = Scope(c)
      /\ boards' = boards
  BY <1>2, <1>3 DEF Created, Goto, Set, Domains, Scope, storeVars
<1>7. LocalInv(c)'
  <2>1. EmbeddedInv(c)
    BY DEF CommandInv
  <2>2. EmbeddedInv(c)'
    BY <1>6, <2>1 DEF EmbeddedInv, Bound, Embedded
  <2>3. entity'[c] \in DOMAIN boards' /\ boards'[entity'[c]] = Scope(c)'
    BY <1>4, <1>6
  <2> QED
    BY <1>6, <2>2, <2>3 DEF LocalInv, AskedInv
<1>8. CommandTypeOK'
  BY <1>2, <1>3 DEF Created, Goto, Set, Domains, CommandInv, CommandTypeOK, storeVars,
     outputs
<1> QED
  BY <1>1, <1>5, <1>7, <1>8, OneCommand

LEMMA ArtifactStep ==
    ASSUME CommandInv, NEW c \in Commands, WriteArtifact(c)
    PROVE  CommandInv'
<1>1. BoardsGrow /\ batch' = batch /\ boards' = boards
  BY StoreAlone DEF WriteArtifact, CommandInv, khiveVars, storeVars
<1>2. BatchInv'
  BY <1>1, SameBatches DEF CommandInv
<1>3. Domains
  BY TypedDomains DEF CommandInv
<1>4. Elsewhere(c) /\ pc'[c] = "ended"
  BY <1>1, <1>3 DEF WriteArtifact, Goto, Set, Domains, Elsewhere, locals
<1>5. LocalInv(c)'
  BY <1>4 DEF LocalInv, AskedInv, EmbeddedInv, Bound, Embedded
<1>6. ScopeIsPublished'
  <2>1. entity[c] \in DOMAIN boards /\ boards[entity[c]] = Scope(c)
    BY DEF WriteArtifact, CommandInv, EntityInv
  <2>2. artifact' = [entity |-> entity[c], scope |-> Scope(c)]
    BY DEF WriteArtifact
  <2> QED
    BY <1>1, <2>1, <2>2 DEF ScopeIsPublished
<1>7. CommandTypeOK'
  BY <1>3 DEF WriteArtifact, Goto, Set, Domains, CommandInv, CommandTypeOK, khiveVars,
              storeVars, locals
<1> QED
  BY <1>1, <1>2, <1>4, <1>5, <1>6, <1>7, OneCommand

LEMMA GroupTyped ==
    ASSUME CommandTypeOK, NEW c \in Commands
    PROVE  /\ Unique(loaded[c]) \in Seq(Contents)
           /\ Group(c) \in Seq(Contents)
           /\ \A i \in 1..Len(Group(c)) :
                 /\ Len(vectors[c]) + i \in 1..Len(Unique(loaded[c]))
                 /\ Group(c)[i] = Unique(loaded[c])[Len(vectors[c]) + i]
<1> DEFINE u == Unique(loaded[c])
           v == Len(vectors[c])
           rest == SubSeq(u, v + 1, Len(u))
           n == IF Len(rest) < ProcessMaxUnique THEN Len(rest) ELSE ProcessMaxUnique
<1>1. u \in Seq(Contents) /\ v \in Nat
  BY UniqueCovers DEF CommandTypeOK
<1> HIDE DEF u, v
<1>2. Len(u) \in Nat /\ v + 1 \in Nat \ {0}
  BY <1>1
<1>3. /\ rest \in Seq(Contents)
      /\ Len(rest) = IF v + 1 <= Len(u) THEN Len(u) - v ELSE 0
      /\ \A i \in 1..Len(rest) : v + i \in 1..Len(u) /\ rest[i] = u[v + i]
  BY <1>1, <1>2
<1>4. Group(c) = SubSeq(rest, 1, n)
  BY DEF Group, Pending, u, v
<1> HIDE DEF rest
<1>5. Len(rest) \in Nat /\ n \in Nat /\ n <= Len(rest)
  BY <1>3, CommandAssumption
<1> HIDE DEF n
<1>6. /\ SubSeq(rest, 1, n) \in Seq(Contents)
      /\ Len(SubSeq(rest, 1, n)) = n
      /\ \A i \in 1..n : SubSeq(rest, 1, n)[i] = rest[i]
  BY <1>3, <1>5
<1>7. ASSUME NEW i \in 1..Len(Group(c))
      PROVE  v + i \in 1..Len(u) /\ Group(c)[i] = u[v + i]
  <2>1. i \in 1..n /\ i \in 1..Len(rest)
    BY <1>4, <1>5, <1>6
  <2> QED
    BY <1>3, <1>4, <1>6, <2>1
<1> QED
  BY <1>1, <1>4, <1>6, <1>7 DEF u, v

LEMMA IngestStep ==
    ASSUME CommandInv, NEW c \in Commands, IngestGroup(c)
    PROVE  CommandInv'
<1> DEFINE ops == [i \in DOMAIN Group(c) |-> [tool |-> "ingest", content |-> Group(c)[i]]]
<1>1. ops \in Seq(Ops)
  <2>1. Group(c) \in Seq(Contents)
    BY GroupTyped DEF CommandInv
  <2>2. \A i \in 1..Len(Group(c)) : [tool |-> "ingest", content |-> Group(c)[i]] \in Ops
    BY <2>1 DEF Ops
  <2> QED
    BY <2>1, <2>2
<1>2. Ask(c, "ingest", "ingesting", ops) /\ UNCHANGED locals
  BY DEF IngestGroup, Ask
<1>3. Group(c)' = Group(c)
  BY <1>2 DEF Group, Pending, locals
<1>4. ops' = ops
  BY <1>3
<1>5. [i \in DOMAIN Group(c) |-> [tool |-> "ingest", content |-> Group(c)[i]]]' = ops
  BY <1>4
<1> HIDE DEF ops
<1>6. /\ CommandTypeOK' /\ BatchInv' /\ BoardsGrow /\ ScopeIsPublished'
      /\ Elsewhere(c)
      /\ pc[c] = "ingest" /\ pc'[c] = "ingesting" /\ batch'[c].ops = ops
  BY <1>1, <1>2, AskStep
<1>7. AskedInv(c)'
  BY <1>5, <1>6 DEF AskedInv
<1>8. EmbeddedInv(c)'
  BY <1>2, <1>6 DEF CommandInv, EmbeddedInv, Bound, Embedded, locals
<1>9. LocalInv(c)'
  BY <1>6, <1>7, <1>8 DEF LocalInv
<1> QED
  BY <1>6, <1>9, OneCommand

\* The accepted rows extend what was embedded so far by the next group.
LEMMA IngestedStep ==
    ASSUME CommandInv, NEW c \in Commands, Ingested(c)
    PROVE  CommandInv'
<1>1. /\ BatchInv' /\ BoardsGrow /\ ScopeIsPublished'
      /\ \A b \in Commands \ {c} : batch'[b] = batch[b]
  BY CollectStep DEF Ingested, outputs
<1>2. Domains
  BY TypedDomains DEF CommandInv
<1>3. PICK rows \in Rows(c) :
        /\ ValidIngest(c, rows)
        /\ vectors' = Set(vectors, c, vectors[c] \o rows)
  BY DEF Ingested
<1>4. Group(c) \in Seq(Contents)
  BY GroupTyped DEF CommandInv
<1>5. rows \in Seq(Results) /\ Len(rows) = Len(Group(c))
  <2>1. /\ AllSucceeded(c) /\ BatchInv
        /\ batch[c].ops =
             [i \in DOMAIN Group(c) |-> [tool |-> "ingest", content |-> Group(c)[i]]]
    BY DEF Ingested, CommandInv, AskedInv
  <2>2. rows \in Seq(Results) /\ batch[c].ops \in Seq(Ops) /\ Len(rows) = Len(batch[c].ops)
    BY <2>1, RowsRead
  <2>3. DOMAIN batch[c].ops = 1..Len(batch[c].ops) /\ DOMAIN batch[c].ops = DOMAIN Group(c)
    BY <2>1, <2>2
  <2> QED
    BY <1>4, <2>2, <2>3
<1>6. Elsewhere(c)
  BY <1>1, <1>2, <1>3 DEF Ingested, Elsewhere, Domains, Set, Goto
<1>7. /\ pc[c] = "ingesting" /\ pc'[c] \in {"ingest", "embedded"} /\ kind'[c] = kind[c]
      /\ board'[c] = board[c] /\ space'[c] = space[c] /\ loaded'[c] = loaded[c]
      /\ vectors'[c] = vectors[c] \o rows
      /\ pc'[c] = "embedded" => ~(Len(vectors'[c]) < Len(Unique(loaded[c])))
  BY <1>2, <1>3 DEF Ingested, Goto, Set, Domains
<1>8. vectors[c] \in Seq(Results) /\ vectors'[c] \in Seq(Results)
  BY <1>5, <1>7 DEF CommandInv, CommandTypeOK
<1>9. EmbeddedInv(c)'
  <2>1. EmbeddedInv(c)
    BY DEF CommandInv
  <2>2. ASSUME NEW k \in 1..Len(vectors'[c])
        PROVE  /\ k \in 1..Len(Unique(loaded[c]))
               /\ vectors'[c][k].content = Unique(loaded[c])[k]
               /\ vectors'[c][k].descriptor = space[c]
    <3>1. CASE k <= Len(vectors[c])
      <4>1. k \in 1..Len(vectors[c]) /\ vectors'[c][k] = vectors[c][k]
        BY <1>5, <1>7, <1>8, <3>1
      <4> QED
        BY <1>7, <2>1, <4>1 DEF EmbeddedInv, Bound
    <3>2. CASE k > Len(vectors[c])
      <4> DEFINE i == k - Len(vectors[c])
      <4>1. i \in 1..Len(rows) /\ vectors'[c][k] = rows[i] /\ k = Len(vectors[c]) + i
        BY <1>5, <1>7, <1>8, <3>2
      <4> HIDE DEF i
      <4>2. i \in DOMAIN rows
        BY <1>5, <4>1
      <4>3. rows[i].descriptor = space[c] /\ rows[i].content = Group(c)[i]
        BY <1>3, <4>2 DEF ValidIngest
      <4>4. /\ Len(vectors[c]) + i \in 1..Len(Unique(loaded[c]))
            /\ Group(c)[i] = Unique(loaded[c])[Len(vectors[c]) + i]
        BY <1>5, <4>1, GroupTyped DEF CommandInv
      <4> QED
        BY <4>1, <4>3, <4>4
    <3> QED
      BY <1>8, <3>1, <3>2
  <2>3. pc'[c] = "embedded" => Len(vectors'[c]) >= Len(Unique(loaded[c]))
    <3>1. Len(vectors'[c]) \in Nat /\ Len(Unique(loaded[c])) \in Nat
      BY <1>8, GroupTyped DEF CommandInv
    <3> QED
      BY <1>7, <3>1
  <2> QED
    BY <1>7, <2>1, <2>2, <2>3 DEF EmbeddedInv, Bound, Embedded
<1>10. LocalInv(c)'
  BY <1>7, <1>9 DEF LocalInv, AskedInv
<1>11. CommandTypeOK'
  BY <1>2, <1>3, <1>7, <1>8 DEF Ingested, Goto, Set, Domains, CommandInv, CommandTypeOK,
     storeVars, outputs
<1> QED
  BY <1>1, <1>6, <1>10, <1>11, OneCommand

\* The kernel's own steps, and what happens to files and model, disturb nobody.
LEMMA KernelStepKeeps ==
    ASSUME CommandInv, NEW c \in Commands, KernelStep(c)
    PROVE  CommandInv'
<1>1. /\ BatchInv' /\ BoardsGrow /\ boards' \in Seq(Scopes) /\ active' = active
      /\ batch'[c].ops = batch[c].ops
      /\ \A b \in Commands \ {c} : batch'[b] = batch[b]
  BY KernelRows DEF KernelStep, CommandInv
<1>2. UNCHANGED commandVars
  BY DEF KernelStep
<1>3. ASSUME NEW b \in Commands
      PROVE  LocalInv(b)'
  <2>1. LocalInv(b)
    BY CommandInvParts
  <2>2. batch'[b].ops = batch[b].ops
    BY <1>1
  <2> QED
    BY <1>1, <1>2, <2>1, <2>2, LocalKept DEF commandVars, locals
<1>4. ScopeIsPublished'
  BY <1>1, <1>2, PublishedKept DEF CommandInv, EntityInv, commandVars, outputs
<1>5. CommandTypeOK'
  BY <1>1, <1>2 DEF CommandInv, CommandTypeOK, commandVars, outputs, locals
<1> QED
  BY <1>1, <1>3, <1>4, <1>5 DEF CommandInv, LocalInv, EntityInv

LEMMA AmbientStep ==
    ASSUME CommandInv, EditFile \/ (Reload /\ UNCHANGED commandVars)
                                \/ UNCHANGED <<khiveVars, commandVars>>
    PROVE  CommandInv'
<1>1. UNCHANGED <<boards, batch, outputs, pc, locals>>
  BY DEF EditFile, Reload, khiveVars, storeVars, commandVars
<1>2. BoardsGrow
  BY <1>1 DEF BoardsGrow, CommandInv, CommandTypeOK
<1>3. BatchInv' /\ ScopeIsPublished'
  BY <1>1, <1>2, SameBatches, PublishedKept DEF CommandInv, EntityInv, outputs
<1>4. ASSUME NEW b \in Commands
      PROVE  LocalInv(b)'
  <2>1. LocalInv(b)
    BY CommandInvParts
  <2> QED
    BY <1>1, <1>2, <2>1, LocalKept DEF locals
<1>5. active' \in Descriptors
  BY DEF EditFile, Reload, khiveVars, storeVars, CommandInv, CommandTypeOK
<1>6. files' \in Seq(Contents)
  <2>1. files \in Seq(Contents)
    BY DEF CommandInv, CommandTypeOK
  <2>2. CASE EditFile
    <3>1. PICK p \in DOMAIN files, content \in Contents : files' = [files EXCEPT ![p] = content]
      BY <2>2 DEF EditFile
    <3> DEFINE n == Len(files)
    <3>2. n \in Nat /\ DOMAIN files = 1..n /\ \A i \in 1..n : files[i] \in Contents
      BY <2>1
    <3>3. files' = [i \in 1..n |-> IF i = p THEN content ELSE files[i]]
      BY <3>1, <3>2
    <3>4. \A i \in 1..n : (IF i = p THEN content ELSE files[i]) \in Contents
      BY <3>2
    <3> HIDE DEF n
    <3> QED
      BY <3>2, <3>3, <3>4
  <2>3. CASE files' = files
    BY <2>1, <2>3
  <2> QED
    BY <2>2, <2>3 DEF commandVars
<1>7. CommandTypeOK'
  BY <1>1, <1>5, <1>6 DEF CommandInv, CommandTypeOK, outputs, locals
<1> QED
  BY <1>3, <1>4, <1>7 DEF CommandInv, LocalInv, EntityInv

LEMMA CommandStep ==
    ASSUME CommandInv, [CommandNext]_<<khiveVars, commandVars>>
    PROVE  CommandInv'
<1>1. ASSUME NEW c \in Commands,
             \/ Load(c) \/ Discover(c) \/ Discovered(c) \/ ReadSources(c)
             \/ IngestGroup(c) \/ Ingested(c) \/ WriteBoard(c)
             \/ OpenReport(c) \/ WriteReport(c) \/ HashReport(c)
             \/ CreateBoard(c) \/ Created(c) \/ WriteArtifact(c)
             \/ StopCommand(c) \/ KernelStep(c)
      PROVE  CommandInv'
  BY <1>1, LoadStep, DiscoverStep, DiscoveredStep, QuietSteps, IngestStep, IngestedStep,
     HashStep, CreateStep, CreatedStep, ArtifactStep, KernelStepKeeps
<1> QED
  BY <1>1, AmbientStep DEF CommandNext

LEMMA CommandStart == KhiveInit /\ CommandInit => CommandInv
<1> SUFFICES ASSUME KhiveInit, CommandInit
             PROVE  CommandInv
  OBVIOUS
<1>1. files \in Seq(Contents)
  <2>1. PICK n \in 1..MaxFiles : files \in [1..n -> Contents]
    BY DEF CommandInit
  <2> QED
    BY <2>1, CommandAssumption
<1>2. <<>> \in Seq(Contents) /\ <<>> \in Seq(Results) /\ <<>> \in Seq(Scopes)
  OBVIOUS
<1>3. CommandTypeOK
  BY <1>1, <1>2 DEF KhiveInit, CommandInit, CommandTypeOK
<1>4. BatchInv
  BY CommandAssumption DEF KhiveInit, BatchInv
<1>5. \A c \in Commands : AskedInv(c) /\ EmbeddedInv(c)
  BY DEF CommandInit, AskedInv, EmbeddedInv, Bound, Embedded
<1>6. EntityInv
  BY DEF CommandInit, EntityInv, ScopeIsPublished
<1> QED
  BY <1>3, <1>4, <1>5, <1>6 DEF CommandInv

LEMMA CommandsKeep == CommandSpec => []CommandInv
<1>1. CommandInv /\ [CommandNext]_<<khiveVars, commandVars>> => CommandInv'
  BY CommandStep
<1> QED
  BY <1>1, CommandStart, PTL DEF CommandSpec

-----------------------------------------------------------------------------
(* What the commands publish.                                               *)

\* Every occurrence's row is the embedding of the bytes that were loaded and
\* hashed for it, in the one space the encoder bound and, for a rank, in its
\* board's: however files are edited and the model is reloaded between the steps
\* of build and rank, and in whatever order the rows come back.
THEOREM EmbedsLoadedBytes == CommandSpec => []MatrixIsOfLoadedBytes
<1>1. ASSUME CommandInv, NEW c \in Commands, pc[c] \in Embedded
      PROVE  /\ \A i \in DOMAIN loaded[c] :
                   /\ RowOf(c, i).content = loaded[c][i]
                   /\ RowOf(c, i).descriptor = space[c]
             /\ kind[c] = "export" => board[c].space = space[c]
  <2> DEFINE u == Unique(loaded[c])
  <2>1. /\ vectors[c] \in Seq(Results) /\ u \in Seq(Contents)
        /\ \A i \in DOMAIN loaded[c] : \E k \in DOMAIN u : u[k] = loaded[c][i]
    BY <1>1, UniqueCovers DEF CommandInv, CommandTypeOK
  <2>2. EmbeddedInv(c) /\ pc[c] \in Bound
    BY <1>1 DEF CommandInv, Embedded, Bound
  <2>3. /\ Len(vectors[c]) >= Len(u)
        /\ \A k \in 1..Len(vectors[c]) :
              vectors[c][k].content = u[k] /\ vectors[c][k].descriptor = space[c]
    BY <1>1, <2>2 DEF EmbeddedInv
  <2> HIDE DEF u
  <2>4. ASSUME NEW i \in DOMAIN loaded[c]
        PROVE  RowOf(c, i).content = loaded[c][i] /\ RowOf(c, i).descriptor = space[c]
    <3> DEFINE row == CHOOSE k \in DOMAIN u : u[k] = loaded[c][i]
    <3>1. row \in DOMAIN u /\ u[row] = loaded[c][i]
      BY <2>1
    <3>2. RowOf(c, i) = vectors[c][row]
      BY DEF RowOf, u
    <3> HIDE DEF row
    <3>3. row \in 1..Len(vectors[c])
      BY <2>1, <2>3, <3>1
    <3> QED
      BY <2>3, <3>1, <3>2, <3>3
  <2> QED
    BY <2>2, <2>4 DEF EmbeddedInv
<1>2. CommandInv => MatrixIsOfLoadedBytes
  BY <1>1 DEF MatrixIsOfLoadedBytes, Embedded
<1> QED
  BY <1>2, CommandsKeep, PTL

\* A feature artifact never names an entity that does not exist or that was
\* created for another scope, wherever a command was killed or a row was lost.
THEOREM ScopesArePublished == CommandSpec => []ScopeIsPublished
<1>1. CommandInv => ScopeIsPublished
  BY DEF CommandInv, EntityInv
<1> QED
  BY <1>1, CommandsKeep, PTL

-----------------------------------------------------------------------------
(* Types.                                                                   *)

Phases == {"a_decisive", "a_tie", "b_append"}
Pairs == (UNION {ToSet(p) : p \in Pools}) \cup {f.pair : f \in ForeignJudgments}
Labels == Sides \cup {"tie"} \cup {f.choice : f \in ForeignJudgments}
Votes == [serve : Nat, choice : Labels]
Serves == [pair : Pairs, swap : BOOLEAN]

\* What the replay asks of the kernel, and what it may answer.
Asks ==
    [tool : {"train"}] \cup [tool : {"serve"}, pair : Pairs]
        \cup [tool : {"judge"}, serve : Nat, choice : Labels]
        \cup [tool : {"preference"}, model : Nat, pair : Pairs]

Displays == {Displayed(pair, swap) : pair \in Pairs, swap \in BOOLEAN}
Models == [model : Nat, snapshot : SUBSET Votes]

Replies ==
    [refused : Nat] \cup Models \cup [serve : Nat, shown : Displays, swap : BOOLEAN]
        \cup [serve : Nat, choice : Labels, created : BOOLEAN]
        \cup [model : Nat, pair : Pairs]

Specs == [pair : ToSet(pool), phase : Phases]
Events == [serve : Nat, pair : ToSet(pool), phase : Phases, choice : Labels]
DecisivePairs == {pair \in ToSet(pool) : Decisive(pair)}

StoreTypeOK ==
    /\ serves \in Seq(Serves)
    /\ judgments \in SUBSET Votes /\ IsFiniteSet(judgments)
    /\ models \in Seq(SUBSET Votes)

BatchTypeOK ==
    /\ Replay \in DOMAIN batch
    /\ batch[Replay] \in {Nil} \cup [ops : Seq(Asks), done : Seq(Replies)]

ReplayTypeOK ==
    /\ pool \in Pools
    /\ specs \in Seq(Specs)
    /\ shown \in Seq(Replies)
    /\ events \in Seq(Events)
    /\ trained \in Seq(Models)
    /\ probed \in Seq(Seq(Replies))

-----------------------------------------------------------------------------
(* The invariant.                                                           *)

Vote(e) == [serve |-> e.serve, choice |-> e.choice]
VotesOf(es, phases) == {Vote(e) : e \in {x \in ToSet(es) : x.phase \in phases}}

\* A row's result is true of the store.  A presentation is new, and a snapshot
\* has every judgment the call recorded before.
Answers(op, result) ==
    \/ /\ op.tool = "train"
       /\ "snapshot" \in DOMAIN result =>
             /\ result \in Models /\ IsFiniteSet(result.snapshot)
             /\ result.model \in DOMAIN models
             /\ models[result.model] = result.snapshot
             /\ VotesOf(events, Phases) \subseteq result.snapshot
    \/ /\ op.tool = "serve"
       /\ result.serve \in DOMAIN serves /\ result.swap \in BOOLEAN
       /\ serves[result.serve] = [pair |-> op.pair, swap |-> result.swap]
       /\ result.shown = Displayed(op.pair, result.swap)
       /\ \A i \in DOMAIN events : events[i].serve # result.serve
    \/ /\ op.tool = "judge"
       /\ Vote(result) \in judgments
    \/ op.tool = "preference"

RowsInv ==
    batch[Replay] # Nil =>
        /\ Len(batch[Replay].done) <= Len(batch[Replay].ops)
        /\ \A i \in 1..Len(batch[Replay].done) :
              Answers(batch[Replay].ops[i], batch[Replay].done[i])

\* The batch the call waits for is the one it submitted.
AskInv ==
    /\ at \in {"gate", "training"} => batch[Replay].ops = <<[tool |-> "train"]>>
    /\ at = "serving" =>
          batch[Replay].ops = [i \in DOMAIN specs |-> [tool |-> "serve", pair |-> specs[i].pair]]
    /\ at = "judging" =>
          batch[Replay].ops =
             [i \in DOMAIN specs |->
                [tool |-> "judge", serve |-> shown[i].serve,
                 choice |-> Label(specs[i], shown[i])]]

\* How far the call has come.
StageInv ==
    /\ at \in {"start", "gate", "support"} => Len(trained) = 0 /\ Len(probed) = 0
    /\ at \in {"serve", "serving", "judge", "judging", "train", "training"} =>
          Len(trained) = Len(probed) /\ Len(probed) \in {0, 1}
    /\ at \in {"probe", "probing"} =>
          /\ Len(trained) = IF Len(probed) = 0 THEN 1 ELSE 2
          /\ Len(probed) < 4
    /\ at \in {"publish", "ended"} => Len(trained) = 2

SelectionInv ==
    at # "start" =>
        /\ selection.decisive \in Seq(DecisivePairs)
        /\ selection.ties \in Seq(ToSet(pool))
        /\ selection.probes \in Seq(ToSet(pool))
        /\ selection.bTrain \in Seq(DecisivePairs)
        /\ selection.extras \in Seq(ToSet(pool))

\* What is being recorded: events of the policy whose model is trained next.
SpecsInv ==
    at \in {"serve", "serving", "judge", "judging"} =>
        \A i \in DOMAIN specs :
            /\ specs[i].phase # "a_tie" => Decisive(specs[i].pair)
            /\ specs[i].phase = "b_append" <=> Len(trained) # 0

\* The accepted presentations: of the pairs that were submitted, in that order,
\* each its own and no event's.
ShownInv ==
    at \in {"judge", "judging"} =>
        /\ Len(shown) = Len(specs)
        /\ \A i \in DOMAIN specs :
              /\ shown[i].serve \in DOMAIN serves /\ shown[i].swap \in BOOLEAN
              /\ serves[shown[i].serve] = [pair |-> specs[i].pair, swap |-> shown[i].swap]
              /\ shown[i].shown = Displayed(specs[i].pair, shown[i].swap)
              /\ \A j \in DOMAIN events : events[j].serve # shown[i].serve
        /\ \A i, j \in DOMAIN specs : i # j => shown[i].serve # shown[j].serve

\* An event is a judgment in the store, of its own presentation.
EventOK(e) ==
    /\ Vote(e) \in judgments
    /\ e.serve \in DOMAIN serves
    /\ serves[e.serve].pair = e.pair
    /\ e.phase # "a_tie" =>
          Displayed(e.pair, serves[e.serve].swap)[e.choice]
              = Preferred(e.pair, PolicyOf(e.phase))
    /\ e.phase = "b_append" => Len(trained) # 0

EventsInv ==
    /\ \A i \in DOMAIN events : EventOK(events[i])
    /\ \A i, j \in DOMAIN events : i # j => events[i].serve # events[j].serve

\* The models were trained on the events and on nothing else.
TrainedInv ==
    /\ Len(trained) >= 1 =>
          /\ trained[1].model \in DOMAIN models
          /\ models[trained[1].model] = VotesOf(events, {"a_decisive", "a_tie"})
    /\ Len(trained) >= 2 =>
          /\ trained[2].model \in DOMAIN models
          /\ models[trained[2].model] = VotesOf(events, Phases)

OutputInv ==
    output # Unused =>
        /\ output.a \in DOMAIN models /\ output.b \in DOMAIN models
        /\ models[output.a] = VotesOf(output.events, {"a_decisive", "a_tie"})
        /\ models[output.b] = VotesOf(output.events, Phases)

ReplayInv ==
    /\ StoreTypeOK /\ BatchTypeOK /\ ReplayTypeOK
    /\ RowsInv /\ AskInv /\ StageInv
    /\ SelectionInv /\ SpecsInv /\ ShownInv
    /\ EventsInv /\ TrainedInv /\ OutputInv

-----------------------------------------------------------------------------
(* The selection.                                                           *)

LEMMA PoolTyped ==
    ASSUME pool \in Pools
    PROVE  /\ pool \in Seq(ToSet(pool)) /\ ToSet(pool) \subseteq Pairs
           /\ Len(pool) \in Nat /\ DOMAIN pool = 1..Len(pool)
           /\ \A i \in DOMAIN pool : pool[i].margin \in Int /\ pool[i] \in ToSet(pool)
<1>1. pool \in Seq(ToSet(pool)) /\ \A i \in DOMAIN pool : pool[i].margin \in Int
  BY ReplayAssumption
<1>2. ToSet(pool) \subseteq Pairs
  BY DEF Pairs
<1>3. \A i \in DOMAIN pool : pool[i] \in ToSet(pool)
  BY DEF ToSet
<1> HIDE DEF ToSet
<1> QED
  BY <1>1, <1>2, <1>3

LEMMA PairNamed ==
    ASSUME pool \in Pools, NEW p \in ToSet(pool), NEW q \in ToSet(pool),
           p.lower = q.lower, p.upper = q.upper
    PROVE  p = q
  BY ZenonT(60), ReplayAssumption DEF ToSet

LEMMA KeysArrange ==
    ASSUME pool \in Pools, NEW I \in SUBSET DOMAIN pool
    PROVE  /\ Arrangeable(I, AsListed(pool))
           /\ Arrangeable(I, [i \in DOMAIN pool |-> Absolute(pool[i])])
           /\ Arrangeable(I, [i \in DOMAIN pool |-> -Absolute(pool[i])])
<1>1. Len(pool) \in Nat /\ DOMAIN pool = 1..Len(pool)
  BY PoolTyped
<1>2. I \in SUBSET Nat /\ I \subseteq 1..Len(pool)
  BY <1>1
<1>3. IsFiniteSet(1..Len(pool))
  BY <1>1, FS_Interval
<1>4. IsFiniteSet(I)
  BY <1>2, <1>3, FS_Subset
<1>5. \A i \in DOMAIN pool : Absolute(pool[i]) \in Int /\ -Absolute(pool[i]) \in Int
  BY PoolTyped DEF Absolute
<1>6. \A i \in I : AsListed(pool)[i] \in Int
  BY <1>1, <1>2 DEF AsListed
<1> QED
  BY <1>2, <1>4, <1>5, <1>6 DEF Arrangeable

LEMMA TakeTyped ==
    ASSUME NEW I, NEW key, Arrangeable(I, key), NEW S, Elements(pool, I) \subseteq S
    PROVE  Take(I, key) \in Seq(S)
<1> DEFINE order == Arranged(pool, I, key)
<1>1. order \in Seq(Elements(pool, I)) /\ Len(order) = Cardinality(I)
  BY ArrangedCovers
<1>2. order \in Seq(S)
  BY <1>1
<1>3. Minimum \in Nat /\ Len(order) \in Nat
  BY <1>2, ReplayAssumption
<1>4. CASE Cardinality(I) < Minimum
  BY <1>4 DEF Take
<1>5. CASE ~(Cardinality(I) < Minimum)
  <2>1. Take(I, key) = SubSeq(order, 1, Minimum)
    BY <1>5 DEF Take
  <2>2. Minimum <= Len(order)
    BY <1>1, <1>3, <1>5
  <2> HIDE DEF order
  <2> QED
    BY <1>2, <1>3, <2>1, <2>2
<1> QED
  BY <1>4, <1>5

\* The parts of a selection are pairs of the pool, those whose labels a policy
\* decides among its decisive ones.
LEMMA SelectionTyped ==
    ASSUME pool \in Pools, SelectPairs # Nil
    PROVE  /\ SelectPairs.decisive \in Seq(DecisivePairs)
           /\ SelectPairs.ties \in Seq(ToSet(pool))
           /\ SelectPairs.probes \in Seq(ToSet(pool))
           /\ SelectPairs.bTrain \in Seq(DecisivePairs)
           /\ SelectPairs.extras \in Seq(ToSet(pool))
<1> DEFINE In(split) == {i \in DOMAIN pool : pool[i].split = split}
           decisive == {i \in DOMAIN pool : Decisive(pool[i])}
           Free(used) == {i \in DOMAIN pool : pool[i] \notin ToSet(used)}
           listed == AsListed(pool)
           nearest == [i \in DOMAIN pool |-> Absolute(pool[i])]
           farthest == [i \in DOMAIN pool |-> -Absolute(pool[i])]
           aTrain == Take(In("train") \cap decisive, listed)
           ties == Take(In("calibration") \cap Free(aTrain), nearest)
           aCalibration == Take(In("calibration") \cap decisive \cap Free(aTrain \o ties), listed)
           aTest == Take(In("test") \cap decisive \cap Free(aTrain \o ties \o aCalibration), listed)
           a == aTrain \o ties \o aCalibration \o aTest
           probes == Take(decisive \cap Free(a), listed)
           bTrain == Take(In("train") \cap decisive \cap Free(a \o probes), farthest)
           extras == Arranged(pool, Free(a \o probes \o bTrain), listed)
<1>1. ASSUME NEW I \in SUBSET decisive
      PROVE  /\ Take(I, listed) \in Seq(DecisivePairs)
             /\ Take(I, farthest) \in Seq(DecisivePairs)
  <2>1. I \in SUBSET DOMAIN pool
    OBVIOUS
  <2>2. Arrangeable(I, listed) /\ Arrangeable(I, farthest)
    BY <2>1, KeysArrange
  <2>3. Elements(pool, I) \subseteq DecisivePairs
    BY PoolTyped DEF Elements, DecisivePairs
  <2> HIDE DEF listed, farthest
  <2> QED
    BY <2>2, <2>3, TakeTyped
<1>2. ASSUME NEW I \in SUBSET DOMAIN pool
      PROVE  /\ Arrangeable(I, listed) /\ Arrangeable(I, nearest)
             /\ Elements(pool, I) \subseteq ToSet(pool)
  BY <1>2, KeysArrange, PoolTyped DEF Elements
<1>3. ASSUME NEW I \in SUBSET DOMAIN pool
      PROVE  Take(I, nearest) \in Seq(ToSet(pool)) /\ Take(I, listed) \in Seq(ToSet(pool))
  <2>1. /\ Arrangeable(I, listed) /\ Arrangeable(I, nearest)
        /\ Elements(pool, I) \subseteq ToSet(pool)
    BY <1>2
  <2> HIDE DEF listed, nearest
  <2> QED
    BY <2>1, TakeTyped
<1>4. ASSUME NEW I \in SUBSET DOMAIN pool
      PROVE  Arranged(pool, I, listed) \in Seq(ToSet(pool))
  <2>1. Arrangeable(I, listed) /\ Elements(pool, I) \subseteq ToSet(pool)
    BY <1>2
  <2>2. Arranged(pool, I, listed) \in Seq(Elements(pool, I))
    BY <2>1, ArrangedCovers
  <2> QED
    BY <2>1, <2>2
<1>5. SelectPairs = [decisive |-> aTrain \o aCalibration \o aTest, ties |-> ties,
                     probes |-> probes, bTrain |-> bTrain, extras |-> extras]
  BY DEF SelectPairs
<1> HIDE DEF listed, nearest, farthest, In, Free
<1>6. /\ aTrain \in Seq(DecisivePairs) /\ aCalibration \in Seq(DecisivePairs)
      /\ aTest \in Seq(DecisivePairs) /\ bTrain \in Seq(DecisivePairs)
  <2> HIDE DEF decisive
  <2> QED
    BY <1>1
<1>7. /\ ties \in Seq(ToSet(pool)) /\ probes \in Seq(ToSet(pool))
      /\ extras \in Seq(ToSet(pool))
  BY <1>3, <1>4 DEF In, Free
<1> HIDE DEF aTrain, aCalibration, aTest, ties, probes, bTrain, extras
<1>8. aTrain \o aCalibration \o aTest \in Seq(DecisivePairs)
  BY <1>6
<1> QED
  BY <1>5, <1>6, <1>7, <1>8

-----------------------------------------------------------------------------
(* What the store keeps.                                                    *)

Grows(s, t) == \A i \in DOMAIN s : i \in DOMAIN t /\ t[i] = s[i]

\* Presentations, judgments and models stay.
StoreGrows ==
    /\ Grows(serves, serves')
    /\ judgments \subseteq judgments'
    /\ Grows(models, models')

LEMMA StoreStays ==
    ASSUME UNCHANGED <<serves, judgments, models>>
    PROVE  StoreGrows
  BY DEF StoreGrows, Grows

LEMMA Appended ==
    ASSUME NEW S, NEW s \in Seq(S), NEW x \in S
    PROVE  /\ Append(s, x) \in Seq(S)
           /\ Grows(s, Append(s, x))
           /\ Len(s) + 1 \in DOMAIN Append(s, x)
           /\ Append(s, x)[Len(s) + 1] = x
  BY DEF Grows

LEMMA AnswersLast ==
    ASSUME StoreGrows, UNCHANGED events, NEW op, NEW result, Answers(op, result)
    PROVE  Answers(op, result)'
<1>1. CASE op.tool = "train"
  BY <1>1 DEF Answers, StoreGrows, Grows
<1>2. CASE op.tool = "serve"
  BY <1>2 DEF Answers, StoreGrows, Grows
<1>3. CASE op.tool = "judge"
  BY <1>3 DEF Answers, StoreGrows, Grows
<1> QED
  BY <1>1, <1>2, <1>3 DEF Answers

LEMMA RowsKept ==
    ASSUME RowsInv, StoreGrows, UNCHANGED <<batch, events>>
    PROVE  RowsInv'
  BY AnswersLast DEF RowsInv

LEMMA ShownKept ==
    ASSUME ShownInv, StoreGrows, UNCHANGED <<at, shown, specs, events>>
    PROVE  ShownInv'
  BY DEF ShownInv, StoreGrows, Grows

LEMMA EventKept ==
    ASSUME StoreGrows, Len(trained) # 0 => Len(trained') # 0, NEW e, EventOK(e)
    PROVE  EventOK(e)'
  BY DEF EventOK, StoreGrows, Grows

LEMMA EventsKept ==
    ASSUME EventsInv, StoreGrows, UNCHANGED events, Len(trained) # 0 => Len(trained') # 0
    PROVE  EventsInv'
  BY EventKept DEF EventsInv

LEMMA TrainedKept ==
    ASSUME TrainedInv, StoreGrows, UNCHANGED <<trained, events>>
    PROVE  TrainedInv'
  BY DEF TrainedInv, StoreGrows, Grows

LEMMA OutputKept ==
    ASSUME OutputInv, StoreGrows, UNCHANGED output
    PROVE  OutputInv'
  BY DEF OutputInv, StoreGrows, Grows

-----------------------------------------------------------------------------
(* Batches.                                                                 *)

LEMMA ReplaySubmits ==
    ASSUME BatchTypeOK, NEW ops \in Seq(Asks), Submit(Replay, ops)
    PROVE  BatchTypeOK' /\ RowsInv' /\ batch'[Replay].ops = ops
<1>1. DOMAIN batch' = DOMAIN batch /\ batch'[Replay] = [ops |-> ops, done |-> <<>>]
  BY DEF BatchTypeOK, Submit
<1>2. Len(ops) \in Nat /\ <<>> \in Seq(Replies) /\ Len(<<>>) = 0
  OBVIOUS
<1>3. BatchTypeOK'
  BY <1>1, <1>2 DEF BatchTypeOK
<1>4. RowsInv'
  BY <1>1, <1>2 DEF RowsInv
<1> QED
  BY <1>1, <1>3, <1>4

LEMMA ReplayCollects ==
    ASSUME BatchTypeOK, Collected(Replay)
    PROVE  BatchTypeOK' /\ RowsInv'
  BY DEF BatchTypeOK, Collected, RowsInv

LEMMA ReplayReads ==
    ASSUME BatchTypeOK, RowsInv, AllSucceeded(Replay), NEW rows \in Rows(Replay)
    PROVE  /\ rows \in Seq(Replies)
           /\ Len(rows) = Len(batch[Replay].ops)
           /\ \A i \in DOMAIN rows : \E j \in DOMAIN rows :
                 Answers(batch[Replay].ops[j], rows[i])
<1> DEFINE done == batch[Replay].done
           ops == batch[Replay].ops
<1>1. batch[Replay] # Nil /\ Len(done) = Len(ops)
  BY DEF AllSucceeded, Answered
<1>2. done \in Seq(Replies) /\ ops \in Seq(Asks)
  BY <1>1 DEF BatchTypeOK
<1>3. \A i \in 1..Len(done) : Answers(ops[i], done[i])
  BY <1>1 DEF RowsInv
<1>4. PICK p \in [DOMAIN done -> DOMAIN done] : rows = [i \in DOMAIN done |-> done[p[i]]]
  BY DEF Rows
<1> HIDE DEF done, ops
<1>5. DOMAIN done = 1..Len(done) /\ Len(done) \in Nat
  BY <1>2
<1>6. ASSUME NEW i \in 1..Len(done)
      PROVE  rows[i] = done[p[i]] /\ p[i] \in 1..Len(done)
  <2>1. i \in DOMAIN done
    BY <1>5
  <2>2. rows[i] = done[p[i]] /\ p[i] \in DOMAIN done
    BY <1>4, <2>1
  <2> QED
    BY <1>5, <2>2
<1>7. rows \in Seq(Replies) /\ DOMAIN rows = 1..Len(done) /\ Len(rows) = Len(done)
  BY SMTT(30), <1>2, <1>4, <1>5, <1>6
<1> HIDE DEF Answers
<1>8. \A i \in DOMAIN rows : \E j \in DOMAIN rows : Answers(ops[j], rows[i])
  BY <1>3, <1>6, <1>7
<1> QED
  BY <1>1, <1>7, <1>8 DEF done, ops

\* The kernel adds a result that is true of its row.
LEMMA ReplayRow ==
    ASSUME BatchTypeOK, RowsInv, Running(Replay), StoreGrows, UNCHANGED events,
           NEW result \in Replies, RowDone(Replay, result),
           NEW op, op = NextOp(Replay), Answers(op, result)'
    PROVE  BatchTypeOK' /\ RowsInv' /\ batch'[Replay].ops = batch[Replay].ops
<1> DEFINE done == batch[Replay].done
           ops == batch[Replay].ops
           more == Append(done, result)
<1>1. batch[Replay] # Nil /\ Len(done) < Len(ops)
  BY DEF Running
<1>2. batch[Replay] \in [ops : Seq(Asks), done : Seq(Replies)]
  BY <1>1 DEF BatchTypeOK
<1>3. done \in Seq(Replies) /\ ops \in Seq(Asks)
  BY <1>2
<1>4. DOMAIN batch' = DOMAIN batch /\ batch'[Replay] = [batch[Replay] EXCEPT !.done = more]
  BY DEF BatchTypeOK, RowDone
<1>5. /\ batch'[Replay] \in [ops : Seq(Asks), done : Seq(Replies)]
      /\ batch'[Replay].ops = ops /\ batch'[Replay].done = more
  <2>1. more \in Seq(Replies)
    BY <1>3
  <2> HIDE DEF more
  <2> QED
    BY <1>2, <1>4, <2>1
<1>6. /\ Len(more) = Len(done) + 1 /\ Len(done) \in Nat /\ Len(ops) \in Nat
      /\ more[Len(done) + 1] = result
      /\ \A i \in 1..Len(done) : more[i] = done[i]
  BY <1>3
<1>7. \A i \in 1..Len(done) : Answers(ops[i], done[i])
  BY <1>1 DEF RowsInv
<1> HIDE DEF done, ops, more
<1>8. op = ops[Len(done) + 1]
  BY DEF NextOp, done, ops
<1>9. ASSUME NEW i \in 1..Len(more), NEW asked, asked = ops[i], NEW told, told = more[i]
      PROVE  Answers(asked, told)'
  <2>1. CASE i = Len(done) + 1
    <3>1. asked = op /\ told = result
      BY <1>6, <1>8, <1>9, <2>1
    <3> QED
      BY <3>1
  <2>2. CASE i # Len(done) + 1
    <3>1. i \in 1..Len(done) /\ told = done[i]
      BY <1>6, <1>9, <2>2
    <3>2. Answers(asked, told)
      BY <1>7, <1>9, <3>1
    <3> QED
      BY <3>2, AnswersLast
  <2> QED
    BY <2>1, <2>2
<1>10. RowsInv'
  <2>1. batch'[Replay] # Nil => Len(batch'[Replay].done) <= Len(batch'[Replay].ops)
    BY <1>1, <1>3, <1>5, <1>6 DEF done, ops
  <2>2. \A i \in 1..Len(more) : \A asked, told :
           asked = ops[i] /\ told = more[i] => Answers(asked, told)'
    BY <1>9
  <2> QED
    BY <1>5, <2>1, <2>2 DEF RowsInv, Answers
<1>11. BatchTypeOK'
  BY <1>4, <1>5 DEF BatchTypeOK
<1> QED
  BY <1>5, <1>10, <1>11 DEF ops

-----------------------------------------------------------------------------
(* Steps that submit a batch.                                               *)

LEMMA BeginStep ==
    ASSUME ReplayInv, Begin
    PROVE  ReplayInv'
<1> USE DEF ReplayInv
<1>1. /\ UNCHANGED <<pool, specs, shown, events, trained, probed, output>>
      /\ UNCHANGED <<serves, judgments, models>> /\ at = "start" /\ at' = "gate"
      /\ selection' = SelectPairs /\ SelectPairs # Nil
      /\ Submit(Replay, <<[tool |-> "train"]>>)
  BY DEF Begin, storeVars
<1>2. StoreGrows
  BY <1>1, StoreStays
<1>3. <<[tool |-> "train"]>> \in Seq(Asks)
  BY DEF Asks
<1>4. BatchTypeOK' /\ RowsInv' /\ batch'[Replay].ops = <<[tool |-> "train"]>>
  BY <1>1, <1>3, ReplaySubmits
<1>5. StoreTypeOK' /\ ReplayTypeOK'
  BY <1>1 DEF StoreTypeOK, ReplayTypeOK, Specs, Events
<1>6. AskInv' /\ StageInv'
  BY <1>1, <1>4 DEF AskInv, StageInv
<1>7. SelectionInv'
  BY <1>1, SelectionTyped DEF SelectionInv, ReplayTypeOK, DecisivePairs
<1>8. SpecsInv' /\ ShownInv'
  BY <1>1 DEF SpecsInv, ShownInv
<1>9. EventsInv' /\ TrainedInv' /\ OutputInv'
  BY <1>1, <1>2, EventsKept, TrainedKept, OutputKept
<1> QED
  BY <1>4, <1>5, <1>6, <1>7, <1>8, <1>9

\* What a call leaves as it was.
CallKeeps ==
    /\ StoreTypeOK' /\ BatchTypeOK' /\ ReplayTypeOK' /\ RowsInv' /\ SelectionInv'
    /\ EventsInv' /\ TrainedInv' /\ OutputInv'

LEMMA CallStep ==
    ASSUME ReplayInv, NEW from, from # "start", NEW to, NEW ops \in Seq(Asks),
           Call(from, to, ops)
    PROVE  /\ CallKeeps
           /\ at = from /\ at' = to /\ batch'[Replay].ops = ops
           /\ UNCHANGED <<specs, shown, events, trained, probed, serves>>
<1> USE DEF ReplayInv
<1>1. /\ UNCHANGED <<pool, selection, specs, shown, events, trained, probed, output>>
      /\ UNCHANGED <<serves, judgments, models>> /\ at = from /\ at' = to
      /\ Submit(Replay, ops)
  BY DEF Call, storeVars, replayLocals
<1>2. StoreGrows
  BY <1>1, StoreStays
<1>3. BatchTypeOK' /\ RowsInv' /\ batch'[Replay].ops = ops
  BY <1>1, ReplaySubmits
<1>4. StoreTypeOK' /\ ReplayTypeOK'
  BY <1>1 DEF StoreTypeOK, ReplayTypeOK, Specs, Events
<1>5. SelectionInv'
  BY <1>1 DEF SelectionInv, DecisivePairs
<1>6. EventsInv' /\ TrainedInv' /\ OutputInv'
  BY <1>1, <1>2, EventsKept, TrainedKept, OutputKept
<1> QED
  BY <1>1, <1>3, <1>4, <1>5, <1>6 DEF CallKeeps

LEMMA PresentStep ==
    ASSUME ReplayInv, Present
    PROVE  ReplayInv'
<1> DEFINE ops == [i \in DOMAIN specs |-> [tool |-> "serve", pair |-> specs[i].pair]]
<1>1. ops \in Seq(Asks)
  <2>1. specs \in Seq(Specs) /\ ToSet(pool) \subseteq Pairs
    BY PoolTyped DEF ReplayInv, ReplayTypeOK
  <2>2. \A i \in DOMAIN specs : specs[i].pair \in Pairs
    <3>1. \A i \in DOMAIN specs : specs[i] \in Specs
      BY <2>1
    <3> QED
      BY <2>1, <3>1 DEF Specs
  <2>3. \A i \in DOMAIN specs : ops[i] \in Asks
    BY <2>2 DEF Asks
  <2> QED
    BY <2>1, <2>3
<1>2. Call("serve", "serving", ops)
  BY DEF Present
<1> HIDE DEF ops
<1>3. /\ CallKeeps
      /\ at = "serve" /\ at' = "serving" /\ batch'[Replay].ops = ops
      /\ UNCHANGED <<specs, shown, events, trained, probed, serves>>
  BY <1>1, <1>2, CallStep
<1>4. AskInv' /\ StageInv' /\ SpecsInv' /\ ShownInv'
  BY <1>3 DEF AskInv, StageInv, SpecsInv, ShownInv, ReplayInv, ops
<1> QED
  BY <1>3, <1>4 DEF ReplayInv, CallKeeps

LEMMA LabelTyped ==
    ASSUME NEW spec, NEW row
    PROVE  Label(spec, row) \in {"left", "right", "tie"} /\ Label(spec, row) \in Labels
  BY DEF Label, Labels, Sides

LEMMA JudgeStep ==
    ASSUME ReplayInv, Judge
    PROVE  ReplayInv'
<1> DEFINE ops ==
             [i \in DOMAIN specs |->
                [tool |-> "judge", serve |-> shown[i].serve, choice |-> Label(specs[i], shown[i])]]
<1>1. Call("judge", "judging", ops)
  BY DEF Judge
<1>2. at = "judge"
  BY <1>1 DEF Call
<1>3. ops \in Seq(Asks)
  <2>1. specs \in Seq(Specs) /\ serves \in Seq(Serves)
    BY DEF ReplayInv, ReplayTypeOK, StoreTypeOK
  <2>2. \A i \in DOMAIN specs : shown[i].serve \in Nat
    <3>1. DOMAIN serves \subseteq Nat
      BY <2>1
    <3> QED
      BY <1>2, <3>1 DEF ReplayInv, ShownInv
  <2>3. \A i \in DOMAIN specs : ops[i] \in Asks
    BY <2>2, LabelTyped DEF Asks
  <2> HIDE DEF ops
  <2>4. DOMAIN ops = DOMAIN specs
    BY DEF ops
  <2>5. ops = [i \in DOMAIN specs |-> ops[i]]
    BY DEF ops
  <2> QED
    BY <2>1, <2>3, <2>5
<1> HIDE DEF ops
<1>4. /\ CallKeeps
      /\ at' = "judging" /\ batch'[Replay].ops = ops
      /\ UNCHANGED <<specs, shown, events, trained, probed, serves>>
  BY <1>1, <1>3, CallStep
<1>5. AskInv'
  BY <1>4 DEF AskInv, ops, Label
<1>6. StageInv' /\ SpecsInv' /\ ShownInv'
  BY <1>2, <1>4 DEF StageInv, SpecsInv, ShownInv, ReplayInv
<1> QED
  BY <1>4, <1>5, <1>6 DEF ReplayInv, CallKeeps

LEMMA TrainStep ==
    ASSUME ReplayInv, Train
    PROVE  ReplayInv'
<1> DEFINE ops == <<[tool |-> "train"]>>
<1>1. ops \in Seq(Asks)
  BY DEF Asks
<1>2. Call("train", "training", ops)
  BY DEF Train
<1> HIDE DEF ops
<1>3. /\ CallKeeps
      /\ at = "train" /\ at' = "training" /\ batch'[Replay].ops = ops
      /\ UNCHANGED <<specs, shown, events, trained, probed, serves>>
  BY <1>1, <1>2, CallStep
<1>4. AskInv' /\ StageInv' /\ SpecsInv' /\ ShownInv'
  BY <1>3 DEF AskInv, StageInv, SpecsInv, ShownInv, ReplayInv, ops
<1> QED
  BY <1>3, <1>4 DEF ReplayInv, CallKeeps

LEMMA ProbeStep ==
    ASSUME ReplayInv, Probe
    PROVE  ReplayInv'
<1> DEFINE pairs == selection.probes
           ops == [i \in DOMAIN pairs |->
                     [tool |-> "preference", model |-> ProbeModel, pair |-> pairs[i]]]
<1>1. Call("probe", "probing", ops)
  BY DEF Probe
<1>2. at = "probe"
  BY <1>1 DEF Call
<1>3. ProbeModel \in Nat
  <2>1. trained \in Seq(Models) /\ Len(probed) \in Nat
    BY DEF ReplayInv, ReplayTypeOK
  <2>2. Len(trained) = (IF Len(probed) = 0 THEN 1 ELSE 2)
    BY <1>2 DEF ReplayInv, StageInv
  <2>3. \A i \in DOMAIN trained : trained[i].model \in Nat
    <3>1. \A i \in DOMAIN trained : trained[i] \in Models
      BY <2>1
    <3> QED
      BY <3>1 DEF Models
  <2>4. CASE Len(probed) \in {0, 2}
    BY <2>1, <2>2, <2>3, <2>4 DEF ProbeModel
  <2>5. CASE Len(probed) \notin {0, 2}
    BY <2>1, <2>2, <2>3, <2>5 DEF ProbeModel
  <2> QED
    BY <2>4, <2>5
<1>4. ops \in Seq(Asks)
  <2>1. pairs \in Seq(Pairs)
    <3>1. pairs \in Seq(ToSet(pool))
      BY <1>2 DEF ReplayInv, SelectionInv
    <3>2. ToSet(pool) \subseteq Pairs
      BY PoolTyped DEF ReplayInv, ReplayTypeOK
    <3> QED
      BY <3>1, <3>2
  <2>2. \A i \in DOMAIN pairs : ops[i] \in Asks
    BY <1>3, <2>1 DEF Asks
  <2> HIDE DEF pairs
  <2>3. ops = [i \in DOMAIN pairs |-> ops[i]]
    OBVIOUS
  <2> HIDE DEF ops
  <2> QED
    BY <2>1, <2>2, <2>3
<1> HIDE DEF ops
<1>5. /\ CallKeeps
      /\ at' = "probing" /\ batch'[Replay].ops = ops
      /\ UNCHANGED <<specs, shown, events, trained, probed, serves>>
  BY <1>1, <1>4, CallStep
<1>6. AskInv' /\ StageInv' /\ SpecsInv' /\ ShownInv'
  BY <1>2, <1>5 DEF AskInv, StageInv, SpecsInv, ShownInv, ReplayInv
<1> QED
  BY <1>5, <1>6 DEF ReplayInv, CallKeeps

-----------------------------------------------------------------------------
(* Steps that take a batch's rows.                                          *)

LEMMA CollectedStep ==
    ASSUME ReplayInv, UNCHANGED <<storeVars, pool>>, Collected(Replay)
    PROVE  /\ StoreTypeOK' /\ BatchTypeOK' /\ RowsInv' /\ StoreGrows
           /\ UNCHANGED <<serves, judgments, models>>
<1>1. UNCHANGED <<serves, judgments, models>>
  BY DEF storeVars
<1>2. StoreTypeOK'
  BY <1>1 DEF ReplayInv, StoreTypeOK
<1> QED
  BY <1>1, <1>2, StoreStays, ReplayCollects DEF ReplayInv

LEMMA PhasedTyped ==
    ASSUME NEW S, NEW pairs \in Seq(S), NEW phase, NEW T,
           \A q \in S : [pair |-> q, phase |-> phase] \in T
    PROVE  Phased(pairs, phase) \in Seq(T)
<1>1. \A i \in DOMAIN pairs : [pair |-> pairs[i], phase |-> phase] \in T
  OBVIOUS
<1> QED
  BY <1>1 DEF Phased

\* What may be recorded before a model is trained, and what after.
FirstSpecs == {x \in Specs : x.phase # "b_append" /\ (x.phase # "a_tie" => Decisive(x.pair))}
LaterSpecs == {x \in Specs : x.phase = "b_append" /\ Decisive(x.pair)}

LEMMA SpecsFirst ==
    ASSUME NEW ss \in Seq(FirstSpecs), Len(trained) = 0
    PROVE  /\ ss \in Seq(Specs)
           /\ \A i \in DOMAIN ss : /\ ss[i].phase # "a_tie" => Decisive(ss[i].pair)
                                   /\ ss[i].phase = "b_append" <=> Len(trained) # 0
<1>1. \A i \in DOMAIN ss : ss[i] \in FirstSpecs
  OBVIOUS
<1>2. FirstSpecs \subseteq Specs
  BY DEF FirstSpecs
<1>3. ss \in Seq(Specs)
  BY <1>2
<1> QED
  BY <1>1, <1>3 DEF FirstSpecs

LEMMA DecisivePhased ==
    ASSUME NEW ps \in Seq(DecisivePairs)
    PROVE  /\ Phased(ps, "a_decisive") \in Seq(FirstSpecs)
           /\ Phased(ps, "b_append") \in Seq(LaterSpecs)
<1>1. \A q \in DecisivePairs : /\ [pair |-> q, phase |-> "a_decisive"] \in FirstSpecs
                               /\ [pair |-> q, phase |-> "b_append"] \in LaterSpecs
  BY DEF DecisivePairs, FirstSpecs, LaterSpecs, Specs, Phases
<1> QED
  BY <1>1, PhasedTyped

LEMMA TiesPhased ==
    ASSUME NEW ps \in Seq(ToSet(pool))
    PROVE  Phased(ps, "a_tie") \in Seq(FirstSpecs)
<1>1. \A q \in ToSet(pool) : [pair |-> q, phase |-> "a_tie"] \in FirstSpecs
  BY DEF FirstSpecs, Specs, Phases
<1> QED
  BY <1>1, PhasedTyped

LEMMA GateStep ==
    ASSUME ReplayInv, Gate
    PROVE  ReplayInv'
<1>1. /\ UNCHANGED <<storeVars, pool, selection, shown, events, trained, probed, output>>
      /\ at = "gate" /\ at' = "serve" /\ Collected(Replay)
      /\ specs' = Phased(selection.decisive, "a_decisive") \o Phased(selection.ties, "a_tie")
  BY DEF Gate
<1>2. /\ StoreTypeOK' /\ BatchTypeOK' /\ RowsInv' /\ StoreGrows
      /\ UNCHANGED <<serves, judgments, models>>
  BY <1>1, CollectedStep
<1>3. Len(trained) = 0 /\ Len(probed) = 0
  BY <1>1 DEF ReplayInv, StageInv
<1>4. specs' \in Seq(FirstSpecs)
  <2> DEFINE d == Phased(selection.decisive, "a_decisive")
             t == Phased(selection.ties, "a_tie")
  <2>1. d \in Seq(FirstSpecs) /\ t \in Seq(FirstSpecs)
    BY <1>1, DecisivePhased, TiesPhased DEF ReplayInv, SelectionInv
  <2>2. specs' = d \o t
    BY <1>1
  <2> HIDE DEF d, t
  <2> QED
    BY <2>1, <2>2
<1>5. /\ specs' \in Seq(Specs)
      /\ \A i \in DOMAIN specs' : /\ specs'[i].phase # "a_tie" => Decisive(specs'[i].pair)
                                  /\ specs'[i].phase = "b_append" <=> Len(trained) # 0
  BY <1>3, <1>4, SpecsFirst
<1>6. ReplayTypeOK'
  BY <1>1, <1>5 DEF ReplayInv, ReplayTypeOK, Specs, Events
<1>7. AskInv' /\ StageInv' /\ ShownInv'
  BY <1>1, <1>3 DEF AskInv, StageInv, ShownInv
<1>8. SpecsInv'
  BY <1>1, <1>5 DEF SpecsInv, Decisive
<1>9. SelectionInv'
  BY <1>1 DEF ReplayInv, SelectionInv, DecisivePairs
<1>10. EventsInv' /\ TrainedInv' /\ OutputInv'
  BY <1>1, <1>2, EventsKept, TrainedKept, OutputKept DEF ReplayInv
<1> QED
  BY <1>2, <1>6, <1>7, <1>8, <1>9, <1>10 DEF ReplayInv

\* What was displayed names the pair.
LEMMA DisplayNames ==
    ASSUME pool \in Pools, NEW p \in ToSet(pool), NEW q \in ToSet(pool),
           NEW swap \in BOOLEAN, Displayed(p, swap) = Displayed(q, swap)
    PROVE  p = q
<1>1. p.lower = q.lower /\ p.upper = q.upper
  <2>1. CASE swap
    BY <2>1 DEF Displayed
  <2>2. CASE ~swap
    BY <2>2 DEF Displayed
  <2> QED
    BY <2>1, <2>2
<1> QED
  BY <1>1, PairNamed

\* Crossed rows of the presentations are found out, and what is accepted is
\* each pair's own presentation.
LEMMA RowsShow ==
    ASSUME ReplayInv, at = "serving", AllSucceeded(Replay), NEW rows \in Rows(Replay),
           ShownAsSubmitted(rows)
    PROVE  /\ rows \in Seq(Replies) /\ Len(rows) = Len(specs)
           /\ \A i \in DOMAIN specs :
                 /\ rows[i].serve \in DOMAIN serves /\ rows[i].swap \in BOOLEAN
                 /\ serves[rows[i].serve] = [pair |-> specs[i].pair, swap |-> rows[i].swap]
                 /\ rows[i].shown = Displayed(specs[i].pair, rows[i].swap)
                 /\ \A j \in DOMAIN events : events[j].serve # rows[i].serve
           /\ \A i, j \in DOMAIN specs : i # j => rows[i].serve # rows[j].serve
<1> DEFINE ops == [i \in DOMAIN specs |-> [tool |-> "serve", pair |-> specs[i].pair]]
<1>1. batch[Replay].ops = ops
  BY DEF ReplayInv, AskInv
<1>2. /\ rows \in Seq(Replies) /\ Len(rows) = Len(ops)
      /\ \A i \in DOMAIN rows : \E j \in DOMAIN rows : Answers(ops[j], rows[i])
  BY <1>1, ReplayReads DEF ReplayInv
<1>3. specs \in Seq(Specs)
  BY DEF ReplayInv, ReplayTypeOK
<1>4. /\ Len(rows) = Len(specs) /\ DOMAIN rows = DOMAIN specs
      /\ \A j \in DOMAIN specs : ops[j].tool = "serve" /\ ops[j].pair = specs[j].pair
                                 /\ specs[j].pair \in ToSet(pool)
  <2>1. Len(ops) = Len(specs)
    BY <1>3
  <2>2. \A j \in DOMAIN specs : specs[j] \in Specs
    BY <1>3
  <2>3. Len(rows) = Len(specs) /\ DOMAIN rows = DOMAIN specs
    BY <1>2, <1>3, <2>1
  <2> QED
    BY <2>2, <2>3 DEF Specs
<1> HIDE DEF ops
<1>5. ASSUME NEW i \in DOMAIN specs
      PROVE  /\ rows[i].serve \in DOMAIN serves /\ rows[i].swap \in BOOLEAN
             /\ serves[rows[i].serve] = [pair |-> specs[i].pair, swap |-> rows[i].swap]
             /\ rows[i].shown = Displayed(specs[i].pair, rows[i].swap)
             /\ \A j \in DOMAIN events : events[j].serve # rows[i].serve
  <2>1. PICK j \in DOMAIN specs : Answers(ops[j], rows[i])
    BY <1>2, <1>4
  <2>2. /\ rows[i].serve \in DOMAIN serves /\ rows[i].swap \in BOOLEAN
        /\ serves[rows[i].serve] = [pair |-> specs[j].pair, swap |-> rows[i].swap]
        /\ rows[i].shown = Displayed(specs[j].pair, rows[i].swap)
        /\ \A k \in DOMAIN events : events[k].serve # rows[i].serve
    <3>1. ops[j].tool = "serve" /\ ops[j].pair = specs[j].pair
      BY <1>4
    <3> HIDE DEF Displayed
    <3> QED
      BY <2>1, <3>1 DEF Answers
  <2>3. rows[i].shown = Displayed(specs[i].pair, rows[i].swap)
    BY <1>4 DEF ShownAsSubmitted
  <2>4. specs[i].pair \in ToSet(pool) /\ specs[j].pair \in ToSet(pool) /\ pool \in Pools
    BY <1>4 DEF ReplayInv, ReplayTypeOK
  <2>5. specs[j].pair = specs[i].pair
    BY <2>2, <2>3, <2>4, DisplayNames
  <2> QED
    BY <2>2, <2>5
<1>6. \A i, j \in DOMAIN specs : i # j => rows[i].serve # rows[j].serve
  BY <1>4 DEF ShownAsSubmitted
<1> QED
  BY <1>2, <1>4, <1>5, <1>6

LEMMA PresentedStep ==
    ASSUME ReplayInv, Presented
    PROVE  ReplayInv'
<1>1. /\ UNCHANGED <<storeVars, pool, selection, specs, events, trained, probed, output>>
      /\ at = "serving" /\ at' = "judge" /\ Collected(Replay)
  BY DEF Presented
<1>2. /\ StoreTypeOK' /\ BatchTypeOK' /\ RowsInv' /\ StoreGrows
      /\ UNCHANGED <<serves, judgments, models>>
  BY <1>1, CollectedStep
<1>3. PICK rows \in Rows(Replay) : ShownAsSubmitted(rows) /\ shown' = rows
  BY DEF Presented
<1>4. AllSucceeded(Replay)
  BY DEF Presented
<1>5. /\ shown' \in Seq(Replies) /\ Len(shown') = Len(specs)
      /\ \A i \in DOMAIN specs :
            /\ shown'[i].serve \in DOMAIN serves /\ shown'[i].swap \in BOOLEAN
            /\ serves[shown'[i].serve] = [pair |-> specs[i].pair, swap |-> shown'[i].swap]
            /\ shown'[i].shown = Displayed(specs[i].pair, shown'[i].swap)
            /\ \A j \in DOMAIN events : events[j].serve # shown'[i].serve
      /\ \A i, j \in DOMAIN specs : i # j => shown'[i].serve # shown'[j].serve
  BY <1>1, <1>3, <1>4, RowsShow
<1>6. ReplayTypeOK'
  BY <1>1, <1>5 DEF ReplayInv, ReplayTypeOK, Specs, Events
<1>7. AskInv' /\ StageInv' /\ SpecsInv'
  BY <1>1 DEF AskInv, StageInv, SpecsInv, ReplayInv
<1>8. ShownInv'
  BY <1>1, <1>2, <1>5 DEF ShownInv, Displayed
<1>9. SelectionInv'
  BY <1>1 DEF ReplayInv, SelectionInv, DecisivePairs
<1>10. EventsInv' /\ TrainedInv' /\ OutputInv'
  BY <1>1, <1>2, EventsKept, TrainedKept, OutputKept DEF ReplayInv
<1> QED
  BY <1>2, <1>6, <1>7, <1>8, <1>9, <1>10 DEF ReplayInv

\* The label names the side on which the policy's candidate was displayed.
LEMMA LabelTrue ==
    ASSUME NEW spec, NEW row, NEW swap \in BOOLEAN, spec.phase # "a_tie", Decisive(spec.pair),
           row.shown = Displayed(spec.pair, swap)
    PROVE  Displayed(spec.pair, swap)[Label(spec, row)]
               = Preferred(spec.pair, PolicyOf(spec.phase))
<1> DEFINE wanted == Preferred(spec.pair, PolicyOf(spec.phase))
<1>1. wanted \in {spec.pair.lower, spec.pair.upper}
  BY DEF Preferred, Decisive
<1>2. /\ row.shown.left = Displayed(spec.pair, swap).left
      /\ {row.shown.left, row.shown.right} = {spec.pair.lower, spec.pair.upper}
      /\ row.shown.right = Displayed(spec.pair, swap).right
  BY DEF Displayed
<1>3. Label(spec, row) = (IF row.shown.left = wanted THEN "left" ELSE "right")
  BY DEF Label
<1> HIDE DEF wanted
<1>4. CASE row.shown.left = wanted
  BY <1>2, <1>3, <1>4 DEF wanted
<1>5. CASE row.shown.left # wanted
  <2>1. row.shown.right = wanted
    BY <1>1, <1>2, <1>5
  <2> QED
    BY <1>2, <1>3, <1>5, <2>1 DEF wanted
<1> QED
  BY <1>4, <1>5

NewEvents ==
    [i \in DOMAIN specs |->
        [serve |-> shown[i].serve, pair |-> specs[i].pair, phase |-> specs[i].phase,
         choice |-> Label(specs[i], shown[i])]]

\* What is recorded of a batch of judgments is in the store, and new.
LEMMA NewEventsOK ==
    ASSUME ReplayInv, at = "judging", AllSucceeded(Replay), NEW rows \in Rows(Replay),
           \A i \in DOMAIN rows :
              rows[i] = [serve |-> shown[i].serve, choice |-> Label(specs[i], shown[i]),
                         created |-> TRUE]
    PROVE  /\ NewEvents \in Seq(Events) /\ Len(NewEvents) = Len(specs)
           /\ \A i \in DOMAIN specs :
                 /\ EventOK(NewEvents[i])
                 /\ NewEvents[i].phase = specs[i].phase
                 /\ NewEvents[i].serve = shown[i].serve
<1> DEFINE ops == [i \in DOMAIN specs |->
                     [tool |-> "judge", serve |-> shown[i].serve,
                      choice |-> Label(specs[i], shown[i])]]
<1>1. batch[Replay].ops = ops
  BY DEF ReplayInv, AskInv
<1>2. /\ rows \in Seq(Replies) /\ Len(rows) = Len(ops)
      /\ \A i \in DOMAIN rows : \E j \in DOMAIN rows : Answers(ops[j], rows[i])
  BY <1>1, ReplayReads DEF ReplayInv
<1>3. specs \in Seq(Specs) /\ serves \in Seq(Serves)
  BY DEF ReplayInv, ReplayTypeOK, StoreTypeOK
<1>4. DOMAIN rows = DOMAIN specs /\ \A j \in DOMAIN specs : ops[j].tool = "judge"
  <2>1. Len(ops) = Len(specs)
    BY <1>3
  <2>2. DOMAIN rows = 1..Len(rows) /\ DOMAIN specs = 1..Len(specs)
    BY <1>2, <1>3
  <2> QED
    BY <1>2, <2>1, <2>2
<1>5. ASSUME NEW i \in DOMAIN specs
      PROVE  Vote(NewEvents[i]) \in judgments
  <2>1. PICK j \in DOMAIN specs : Answers(ops[j], rows[i])
    BY <1>2, <1>4
  <2>2. Vote(rows[i]) \in judgments
    BY <1>4, <2>1 DEF Answers
  <2>3. rows[i].serve = NewEvents[i].serve /\ rows[i].choice = NewEvents[i].choice
    BY <1>4 DEF NewEvents
  <2> QED
    BY <2>2, <2>3 DEF Vote
<1>6. ASSUME NEW i \in DOMAIN specs
      PROVE  NewEvents[i] \in Events
  <2>1. specs[i] \in Specs
    BY <1>3
  <2>2. shown[i].serve \in Nat
    <3>1. DOMAIN serves \subseteq Nat
      BY <1>3
    <3> QED
      BY <3>1 DEF ReplayInv, ShownInv
  <2>3. Label(specs[i], shown[i]) \in Labels
    BY LabelTyped
  <2> QED
    BY <2>1, <2>2, <2>3 DEF NewEvents, Events, Specs
<1>7. NewEvents \in Seq(Events) /\ Len(NewEvents) = Len(specs)
  <2>1. NewEvents = [i \in DOMAIN specs |-> NewEvents[i]]
    BY DEF NewEvents
  <2> QED
    BY <1>3, <1>6, <2>1
<1>8. ASSUME NEW i \in DOMAIN specs
      PROVE  /\ EventOK(NewEvents[i])
             /\ NewEvents[i].phase = specs[i].phase
             /\ NewEvents[i].serve = shown[i].serve
  <2>1. /\ NewEvents[i].phase = specs[i].phase
        /\ NewEvents[i].serve = shown[i].serve
        /\ NewEvents[i].pair = specs[i].pair
        /\ NewEvents[i].choice = Label(specs[i], shown[i])
    BY DEF NewEvents
  <2>2. /\ shown[i].serve \in DOMAIN serves /\ shown[i].swap \in BOOLEAN
        /\ serves[shown[i].serve].pair = specs[i].pair
        /\ serves[shown[i].serve].swap = shown[i].swap
        /\ shown[i].shown = Displayed(specs[i].pair, shown[i].swap)
    <3>1. /\ shown[i].serve \in DOMAIN serves /\ shown[i].swap \in BOOLEAN
          /\ serves[shown[i].serve] = [pair |-> specs[i].pair, swap |-> shown[i].swap]
          /\ shown[i].shown = Displayed(specs[i].pair, shown[i].swap)
      BY DEF ReplayInv, ShownInv
    <3> QED
      BY <3>1
  <2>3. /\ specs[i].phase # "a_tie" => Decisive(specs[i].pair)
        /\ specs[i].phase = "b_append" => Len(trained) # 0
    BY DEF ReplayInv, SpecsInv
  <2>4. specs[i].phase # "a_tie" =>
           Displayed(specs[i].pair, shown[i].swap)[Label(specs[i], shown[i])]
               = Preferred(specs[i].pair, PolicyOf(specs[i].phase))
    BY <2>2, <2>3, LabelTrue
  <2> QED
    BY <1>5, <2>1, <2>2, <2>3, <2>4 DEF EventOK
<1> QED
  BY <1>7, <1>8

LEMMA VotesSame ==
    ASSUME NEW S, NEW es \in Seq(S), NEW fs \in Seq(S), NEW phases,
           \A i \in DOMAIN fs : fs[i].phase \notin phases
    PROVE  VotesOf(es \o fs, phases) = VotesOf(es, phases)
<1>1. {x \in ToSet(es \o fs) : x.phase \in phases} = {x \in ToSet(es) : x.phase \in phases}
  <2>1. ASSUME NEW i \in DOMAIN es
        PROVE  es[i] \in ToSet(es \o fs)
    <3>1. i \in DOMAIN (es \o fs) /\ (es \o fs)[i] = es[i]
      OBVIOUS
    <3> QED
      BY <3>1 DEF ToSet
  <2>2. ASSUME NEW i \in DOMAIN (es \o fs)
        PROVE  (es \o fs)[i] \in ToSet(es) \/ (es \o fs)[i].phase \notin phases
    <3>1. CASE i \in DOMAIN es
      <4>1. (es \o fs)[i] = es[i]
        BY <3>1
      <4> QED
        BY <3>1, <4>1 DEF ToSet
    <3>2. CASE i \notin DOMAIN es
      <4>1. i - Len(es) \in DOMAIN fs /\ (es \o fs)[i] = fs[i - Len(es)]
        BY <3>2
      <4> QED
        BY <4>1
    <3> QED
      BY <3>1, <3>2
  <2> QED
    BY <2>1, <2>2 DEF ToSet
<1> QED
  BY <1>1 DEF VotesOf

LEMMA Joined ==
    ASSUME NEW S, NEW es \in Seq(S), NEW fs \in Seq(S)
    PROVE  /\ es \o fs \in Seq(S) /\ Len(es \o fs) = Len(es) + Len(fs)
           /\ \A i \in DOMAIN (es \o fs) :
                 \/ i \in DOMAIN es /\ (es \o fs)[i] = es[i]
                 \/ i - Len(es) \in DOMAIN fs /\ (es \o fs)[i] = fs[i - Len(es)]
  OBVIOUS

LEMMA JudgedStep ==
    ASSUME ReplayInv, Judged
    PROVE  ReplayInv'
<1>1. /\ UNCHANGED <<storeVars, pool, selection, specs, shown, trained, probed, output>>
      /\ at = "judging" /\ Collected(Replay) /\ AllSucceeded(Replay)
      /\ at' = (IF trained = <<>> THEN "support" ELSE "train")
      /\ events' = events \o NewEvents
  BY DEF Judged, NewEvents
<1>2. /\ StoreTypeOK' /\ BatchTypeOK' /\ RowsInv' /\ StoreGrows
      /\ UNCHANGED <<serves, judgments, models>>
  BY <1>1, CollectedStep
<1>3. PICK rows \in Rows(Replay) :
         \A i \in DOMAIN rows :
            rows[i] = [serve |-> shown[i].serve, choice |-> Label(specs[i], shown[i]),
                       created |-> TRUE]
  BY DEF Judged
<1>4. /\ NewEvents \in Seq(Events) /\ Len(NewEvents) = Len(specs)
      /\ \A i \in DOMAIN specs :
            /\ EventOK(NewEvents[i])
            /\ NewEvents[i].phase = specs[i].phase
            /\ NewEvents[i].serve = shown[i].serve
  BY <1>1, <1>3, NewEventsOK
<1>5. events \in Seq(Events) /\ trained \in Seq(Models) /\ specs \in Seq(Specs)
  BY DEF ReplayInv, ReplayTypeOK
<1>6. /\ events' \in Seq(Events) /\ Len(events') = Len(events) + Len(specs)
      /\ \A i \in DOMAIN events' :
            \/ i \in DOMAIN events /\ events'[i] = events[i]
            \/ /\ i - Len(events) \in DOMAIN specs
               /\ events'[i] = NewEvents[i - Len(events)]
  <2>1. DOMAIN NewEvents = DOMAIN specs
    BY <1>4, <1>5
  <2>2. PICK S, es, fs : S = Events /\ es = events /\ fs = NewEvents
    OBVIOUS
  <2>3. es \in Seq(S) /\ fs \in Seq(S)
    BY <1>4, <1>5, <2>2
  <2>4. /\ es \o fs \in Seq(S) /\ Len(es \o fs) = Len(es) + Len(fs)
        /\ \A i \in DOMAIN (es \o fs) :
              \/ i \in DOMAIN es /\ (es \o fs)[i] = es[i]
              \/ i - Len(es) \in DOMAIN fs /\ (es \o fs)[i] = fs[i - Len(es)]
    BY <2>3, Joined
  <2>5. events' = es \o fs
    BY <1>1, <2>2
  <2> QED
    BY <1>4, <2>1, <2>2, <2>4, <2>5
<1>7. Len(trained) \in {0, 1} /\ (trained = <<>> <=> Len(trained) = 0)
      /\ Len(trained) = Len(probed)
  <2>1. Len(trained) = Len(probed) /\ Len(probed) \in {0, 1}
    BY <1>1 DEF ReplayInv, StageInv
  <2>2. trained = <<>> <=> Len(trained) = 0
    BY <1>5
  <2> QED
    BY <2>1, <2>2
<1>8. ReplayTypeOK'
  BY <1>1, <1>6 DEF ReplayInv, ReplayTypeOK, Specs, Events
<1>9. AskInv' /\ StageInv' /\ SpecsInv' /\ ShownInv'
  BY <1>1, <1>7 DEF AskInv, StageInv, SpecsInv, ShownInv
<1>10. SelectionInv'
  BY <1>1 DEF ReplayInv, SelectionInv, DecisivePairs
<1>11. EventsInv'
  <2>1. ASSUME NEW i \in DOMAIN events', NEW e, e = events'[i]
        PROVE  EventOK(e)'
    <3>1. EventOK(e)
      <4>1. CASE i \in DOMAIN events /\ e = events[i]
        BY <4>1 DEF ReplayInv, EventsInv
      <4>2. CASE i - Len(events) \in DOMAIN specs /\ e = NewEvents[i - Len(events)]
        BY <1>4, <4>2
      <4> QED
        BY <1>6, <2>1, <4>1, <4>2
    <3> QED
      BY <1>1, <1>2, <3>1, EventKept
  <2>2. ASSUME NEW i \in DOMAIN events', NEW j \in DOMAIN events', i # j
        PROVE  events'[i].serve # events'[j].serve
    <3>1. i \in Nat /\ j \in Nat /\ Len(events) \in Nat
      BY <1>5, <1>6
    <3>2. ASSUME NEW k \in DOMAIN specs
          PROVE  /\ NewEvents[k].serve = shown[k].serve
                 /\ \A l \in DOMAIN events : events[l].serve # NewEvents[k].serve
                 /\ \A l \in DOMAIN specs : k # l => NewEvents[k].serve # NewEvents[l].serve
      <4>1. \A l \in DOMAIN specs : NewEvents[l].serve = shown[l].serve
        BY <1>4
      <4>2. /\ \A l \in DOMAIN events : events[l].serve # shown[k].serve
            /\ \A l \in DOMAIN specs : k # l => shown[k].serve # shown[l].serve
        BY <1>1 DEF ReplayInv, ShownInv
      <4> QED
        BY <4>1, <4>2
    <3>3. CASE i \in DOMAIN events /\ events'[i] = events[i]
      BY <1>6, <2>2, <3>2, <3>3 DEF ReplayInv, EventsInv
    <3>4. CASE i - Len(events) \in DOMAIN specs /\ events'[i] = NewEvents[i - Len(events)]
      <4>1. CASE j \in DOMAIN events /\ events'[j] = events[j]
        BY <3>2, <3>4, <4>1
      <4>2. CASE j - Len(events) \in DOMAIN specs /\ events'[j] = NewEvents[j - Len(events)]
        <5>1. i - Len(events) # j - Len(events)
          BY <2>2, <3>1
        <5> QED
          BY <3>2, <3>4, <4>2, <5>1
      <4> QED
        BY <1>6, <4>1, <4>2
    <3> QED
      BY <1>6, <3>3, <3>4
  <2>3. \A i \in DOMAIN events' : \A e : e = events'[i] => EventOK(e)'
    BY <2>1
  <2> QED
    BY <2>2, <2>3 DEF EventsInv, EventOK
<1>12. TrainedInv'
  <2>1. CASE Len(trained) = 0
    BY <1>1, <2>1 DEF TrainedInv
  <2>2. CASE Len(trained) = 1
    <3>1. \A i \in DOMAIN NewEvents : NewEvents[i].phase \notin {"a_decisive", "a_tie"}
      <4>1. DOMAIN NewEvents = DOMAIN specs
        BY <1>4, <1>5
      <4> QED
        BY <1>1, <1>4, <2>2, <4>1 DEF ReplayInv, SpecsInv
    <3>2. VotesOf(events \o NewEvents, {"a_decisive", "a_tie"})
              = VotesOf(events, {"a_decisive", "a_tie"})
      BY <1>4, <1>5, <3>1, VotesSame
    <3>3. VotesOf(events', {"a_decisive", "a_tie"}) = VotesOf(events, {"a_decisive", "a_tie"})
      BY <1>1, <3>2
    <3> QED
      BY <1>1, <1>2, <2>2, <3>3 DEF ReplayInv, TrainedInv
  <2> QED
    BY <1>7, <2>1, <2>2
<1>13. OutputInv'
  BY <1>1, <1>2, OutputKept DEF ReplayInv
<1> QED
  BY <1>2, <1>8, <1>9, <1>10, <1>11, <1>12, <1>13 DEF ReplayInv

LEMMA LeastFound ==
    ASSUME NEW T \in SUBSET Nat, T # {}
    PROVE  Min(T) \in T
<1>1. PICK x \in T : \A y \in T : x =< y
  BY LeastNatural
<1> QED
  BY <1>1 DEF Min

LEMMA SupportStep ==
    ASSUME ReplayInv, Support
    PROVE  ReplayInv'
<1>1. /\ UNCHANGED <<batch, pool, selection, shown, events, trained, probed, output>>
      /\ UNCHANGED <<serves, judgments, models>> /\ at = "support"
  BY DEF Support, khiveVars, storeVars
<1>2. StoreGrows
  BY <1>1, StoreStays
<1>3. Len(trained) = 0 /\ Len(probed) = 0
  BY <1>1 DEF ReplayInv, StageInv
<1>4. \/ at' = "train" /\ UNCHANGED specs
      \/ /\ at' = "serve"
         /\ specs' \in Seq(FirstSpecs)
  <2>1. CASE at' = "train" /\ UNCHANGED specs
    BY <2>1
  <2>2. CASE ~(at' = "train" /\ UNCHANGED specs)
    <3> DEFINE extras == selection.extras
               spare == {i \in DOMAIN extras :
                           /\ extras[i].split = Unsupported[1] /\ Decisive(extras[i])
                           /\ extras[i] \notin {e.pair : e \in ToSet(events)}}
    <3>1. /\ at' = "serve" /\ spare # {}
          /\ specs' = Phased(<<extras[Min(spare)]>>, "a_decisive")
      BY <2>2 DEF Support
    <3>2. extras \in Seq(ToSet(pool))
      BY <1>1 DEF ReplayInv, SelectionInv
    <3>3. spare \in SUBSET Nat
      BY <3>2
    <3>4. Min(spare) \in spare
      BY <3>1, <3>3, LeastFound
    <3>5. extras[Min(spare)] \in DecisivePairs
      <4>1. PICK i \in DOMAIN extras : i = Min(spare) /\ Decisive(extras[i])
        BY <3>4
      <4>2. extras[i] \in ToSet(pool)
        BY <3>2
      <4> QED
        BY <4>1, <4>2 DEF DecisivePairs
    <3> HIDE DEF extras, spare
    <3>6. <<extras[Min(spare)]>> \in Seq(DecisivePairs)
      BY <3>5
    <3> QED
      BY <3>1, <3>6, DecisivePhased
  <2> QED
    BY <2>1, <2>2
<1>5. specs' \in Seq(Specs) /\ SpecsInv'
  <2>1. CASE at' = "train" /\ UNCHANGED specs
    BY <2>1 DEF ReplayInv, ReplayTypeOK, SpecsInv
  <2>2. CASE specs' \in Seq(FirstSpecs)
    <3>1. /\ specs' \in Seq(Specs)
          /\ \A i \in DOMAIN specs' :
                /\ specs'[i].phase # "a_tie" => Decisive(specs'[i].pair)
                /\ specs'[i].phase = "b_append" <=> Len(trained) # 0
      BY <1>3, <2>2, SpecsFirst
    <3> QED
      BY <1>1, <3>1 DEF SpecsInv, Decisive
  <2> QED
    BY <1>4, <2>1, <2>2
<1>6. ReplayTypeOK' /\ StoreTypeOK' /\ BatchTypeOK'
  BY <1>1, <1>5 DEF ReplayInv, ReplayTypeOK, StoreTypeOK, BatchTypeOK, Specs, Events
<1>7. AskInv' /\ StageInv' /\ ShownInv'
  BY <1>1, <1>3, <1>4 DEF AskInv, StageInv, ShownInv
<1>8. SelectionInv'
  BY <1>1 DEF ReplayInv, SelectionInv, DecisivePairs
<1>9. RowsInv' /\ EventsInv' /\ TrainedInv' /\ OutputInv'
  BY <1>1, <1>2, RowsKept, EventsKept, TrainedKept, OutputKept DEF ReplayInv
<1> QED
  BY <1>5, <1>6, <1>7, <1>8, <1>9 DEF ReplayInv

\* Events are judgments of different presentations: there are as many of the
\* one as of the other.
LEMMA VotesCounted ==
    ASSUME ReplayTypeOK, EventsInv
    PROVE  Cardinality(VotesOf(events, Phases)) = Len(events)
<1> DEFINE n == Len(events)
           votes == VotesOf(events, Phases)
           vote == [i \in 1..n |-> Vote(events[i])]
<1>1. n \in Nat /\ DOMAIN events = 1..n /\ \A i \in 1..n : events[i] \in Events
  BY DEF ReplayTypeOK
<1>2. votes = {Vote(events[i]) : i \in 1..n}
  <2>1. \A i \in 1..n : events[i].phase \in Phases
    BY <1>1 DEF Events
  <2>2. {x \in ToSet(events) : x.phase \in Phases} = {events[i] : i \in 1..n}
    BY <1>1, <2>1 DEF ToSet
  <2> HIDE DEF n
  <2> QED
    BY <2>2 DEF VotesOf
<1>3. ASSUME NEW i \in 1..n, NEW j \in 1..n, vote[i] = vote[j]
      PROVE  i = j
  <2>1. events[i].serve = events[j].serve
    BY <1>3 DEF Vote
  <2> QED
    BY <1>1, <2>1 DEF EventsInv
<1> HIDE DEF n, votes
<1>4. vote \in [1..n -> votes]
  BY <1>2
<1>5. vote \in Injection(1..n, votes)
  BY <1>3, <1>4 DEF Injection, IsInjective
<1>6. vote \in Surjection(1..n, votes)
  BY <1>2, <1>4 DEF Surjection
<1>7. ExistsBijection(1..n, votes)
  BY <1>5, <1>6 DEF ExistsBijection, Bijection
<1>8. n \in Nat
  BY <1>1 DEF n
<1> QED
  BY <1>7, <1>8, FS_CountingElements DEF n, votes

\* A snapshot that the counts let pass holds the call's judgments and no other.
LEMMA SnapshotExact ==
    ASSUME ReplayInv, at = "training", AllSucceeded(Replay),
           SnapshotMatches(batch[Replay].done[1])
    PROVE  /\ batch[Replay].done[1] \in Models
           /\ batch[Replay].done[1].model \in DOMAIN models
           /\ models[batch[Replay].done[1].model] = VotesOf(events, Phases)
<1> DEFINE row == batch[Replay].done[1]
           votes == VotesOf(events, Phases)
<1>1. batch[Replay].ops = <<[tool |-> "train"]>>
  BY DEF ReplayInv, AskInv
<1>2. batch[Replay] # Nil /\ Len(batch[Replay].done) = Len(batch[Replay].ops)
  BY DEF AllSucceeded, Answered
<1>3. Answers(batch[Replay].ops[1], row)
  <2>1. 1 \in 1..Len(batch[Replay].done)
    BY <1>1, <1>2
  <2> QED
    BY <1>2, <2>1 DEF ReplayInv, RowsInv
<1>4. batch[Replay].ops[1].tool = "train"
  BY <1>1
<1> HIDE DEF row
<1>5. "snapshot" \in DOMAIN row /\ Cardinality(row.snapshot) = Len(events)
  BY DEF SnapshotMatches, row
<1>6. /\ row \in Models /\ IsFiniteSet(row.snapshot)
      /\ row.model \in DOMAIN models
      /\ models[row.model] = row.snapshot
      /\ votes \subseteq row.snapshot
  BY <1>3, <1>4, <1>5 DEF Answers
<1>7. Cardinality(votes) = Len(events)
  BY VotesCounted DEF ReplayInv
<1> HIDE DEF votes
<1>8. row.snapshot = votes
  BY <1>5, <1>6, <1>7, FS_Subset
<1> QED
  BY <1>6, <1>8 DEF row, votes

LEMMA TrainedStep ==
    ASSUME ReplayInv, Trained
    PROVE  ReplayInv'
<1>1. /\ UNCHANGED <<storeVars, pool, selection, specs, shown, events, probed, output>>
      /\ at = "training" /\ at' = "probe" /\ Collected(Replay) /\ AllSucceeded(Replay)
  BY DEF Trained
<1>2. /\ StoreTypeOK' /\ BatchTypeOK' /\ RowsInv' /\ StoreGrows
      /\ UNCHANGED <<serves, judgments, models>>
  BY <1>1, CollectedStep
<1>3. PICK row : row = batch[Replay].done[1]
  OBVIOUS
<1>4. SnapshotMatches(row) /\ trained' = Append(trained, row)
  BY <1>3 DEF Trained
<1>5. /\ row \in Models /\ row.model \in DOMAIN models
      /\ models[row.model] = VotesOf(events, Phases)
  BY <1>1, <1>3, <1>4, SnapshotExact
<1>6. trained \in Seq(Models) /\ events \in Seq(Events)
  BY DEF ReplayInv, ReplayTypeOK
<1>7. Len(trained) = Len(probed) /\ Len(probed) \in {0, 1}
  BY <1>1 DEF ReplayInv, StageInv
<1>8. /\ trained' \in Seq(Models) /\ Len(trained') = Len(trained) + 1
      /\ trained'[Len(trained) + 1] = row
      /\ \A i \in 1..Len(trained) : trained'[i] = trained[i]
  BY <1>4, <1>5, <1>6
<1>9. ReplayTypeOK'
  BY <1>1, <1>8 DEF ReplayInv, ReplayTypeOK, Specs, Events
<1>10. AskInv' /\ SpecsInv' /\ ShownInv'
  BY <1>1 DEF AskInv, SpecsInv, ShownInv
<1>11. StageInv'
  BY <1>1, <1>7, <1>8 DEF StageInv
<1>12. SelectionInv'
  BY <1>1 DEF ReplayInv, SelectionInv, DecisivePairs
<1>13. EventsInv'
  BY <1>1, <1>2, <1>7, <1>8, EventsKept DEF ReplayInv
<1>14. TrainedInv'
  <2>1. CASE Len(trained) = 0
    <3>1. VotesOf(events, {"a_decisive", "a_tie"}) = VotesOf(events, Phases)
      <4>1. \A i \in DOMAIN events : events[i].phase \in {"a_decisive", "a_tie"}
        <5>1. \A i \in DOMAIN events : events[i] \in Events
          BY <1>6
        <5>2. \A i \in DOMAIN events : events[i].phase # "b_append"
          BY <2>1 DEF ReplayInv, EventsInv, EventOK
        <5> QED
          BY <5>1, <5>2 DEF Events, Phases
      <4>2. {x \in ToSet(events) : x.phase \in {"a_decisive", "a_tie"}}
                = {x \in ToSet(events) : x.phase \in Phases}
        BY <4>1 DEF ToSet, Phases
      <4> QED
        BY <4>2 DEF VotesOf
    <3>2. trained'[1] = row /\ Len(trained') = 1
      BY <1>8, <2>1
    <3> QED
      BY <1>1, <1>2, <1>5, <3>1, <3>2 DEF TrainedInv
  <2>2. CASE Len(trained) = 1
    <3>1. trained'[2] = row /\ Len(trained') = 2 /\ trained'[1] = trained[1]
      BY <1>8, <2>2
    <3>2. /\ trained[1].model \in DOMAIN models
          /\ models[trained[1].model] = VotesOf(events, {"a_decisive", "a_tie"})
      BY <2>2 DEF ReplayInv, TrainedInv
    <3> QED
      BY <1>1, <1>2, <1>5, <3>1, <3>2 DEF TrainedInv
  <2> QED
    BY <1>7, <2>1, <2>2
<1>15. OutputInv'
  BY <1>1, <1>2, OutputKept DEF ReplayInv
<1> QED
  BY <1>2, <1>9, <1>10, <1>11, <1>12, <1>13, <1>14, <1>15 DEF ReplayInv

LEMMA ProbedStep ==
    ASSUME ReplayInv, Probed
    PROVE  ReplayInv'
<1>1. /\ UNCHANGED <<storeVars, pool, selection, shown, events, trained, output>>
      /\ at = "probing" /\ Collected(Replay) /\ AllSucceeded(Replay)
  BY DEF Probed
<1>2. /\ StoreTypeOK' /\ BatchTypeOK' /\ RowsInv' /\ StoreGrows
      /\ UNCHANGED <<serves, judgments, models>>
  BY <1>1, CollectedStep
<1>3. PICK rows \in Rows(Replay) : probed' = Append(probed, rows)
  BY DEF Probed
<1>4. rows \in Seq(Replies)
  BY <1>1, ReplayReads DEF ReplayInv
<1>5. probed \in Seq(Seq(Replies))
  BY DEF ReplayInv, ReplayTypeOK
<1>6. probed' \in Seq(Seq(Replies)) /\ Len(probed') = Len(probed) + 1 /\ Len(probed) \in Nat
  BY <1>3, <1>4, <1>5
<1>7. /\ Len(trained) = IF Len(probed) = 0 THEN 1 ELSE 2
      /\ Len(probed) < 4
  BY <1>1 DEF ReplayInv, StageInv
<1>8. CASE Len(probed) = 0
  <2>1. specs' = Phased(selection.bTrain, "b_append") /\ at' = "serve"
    BY <1>8 DEF Probed
  <2>2. specs' \in Seq(LaterSpecs)
    BY <1>1, <2>1, DecisivePhased DEF ReplayInv, SelectionInv
  <2>3. /\ specs' \in Seq(Specs)
        /\ \A i \in DOMAIN specs' : specs'[i].phase = "b_append" /\ Decisive(specs'[i].pair)
    <3>1. \A i \in DOMAIN specs' : specs'[i] \in LaterSpecs
      BY <2>2
    <3>2. LaterSpecs \subseteq Specs
      BY DEF LaterSpecs
    <3>3. specs' \in Seq(Specs)
      BY <2>2, <3>2
    <3> QED
      BY <3>1, <3>3 DEF LaterSpecs
  <2>4. ReplayTypeOK'
    BY <1>1, <1>6, <2>3 DEF ReplayInv, ReplayTypeOK, Specs, Events
  <2>5. AskInv' /\ StageInv' /\ ShownInv'
    BY <1>1, <1>6, <1>7, <1>8, <2>1 DEF AskInv, StageInv, ShownInv
  <2>6. SpecsInv'
    BY <1>1, <1>7, <1>8, <2>3 DEF SpecsInv, Decisive
  <2> QED
    BY <1>1, <1>2, <2>1, <2>4, <2>5, <2>6, EventsKept, TrainedKept, OutputKept
    DEF ReplayInv, SelectionInv, DecisivePairs
<1>9. CASE Len(probed) # 0
  <2>1. UNCHANGED specs /\ at' = (IF Len(probed) = 3 THEN "publish" ELSE "probe")
    BY <1>9 DEF Probed
  <2>2. ReplayTypeOK'
    BY <1>1, <1>6, <2>1 DEF ReplayInv, ReplayTypeOK, Specs, Events
  <2>3. AskInv' /\ ShownInv' /\ SpecsInv'
    BY <2>1 DEF AskInv, ShownInv, SpecsInv
  <2>4. StageInv'
    <3>1. Len(trained') = 2
      BY <1>1, <1>7, <1>9
    <3>2. Len(probed') = Len(probed) + 1 /\ Len(probed) \in Nat /\ Len(probed) < 4
      BY <1>6, <1>7
    <3>3. at' = "publish" \/ (at' = "probe" /\ Len(probed') < 4 /\ Len(probed') # 0)
      <4>1. CASE Len(probed) = 3
        BY <2>1, <4>1
      <4>2. CASE Len(probed) # 3
        <5>1. at' = "probe"
          BY <2>1, <4>2
        <5>2. Len(probed') < 4 /\ Len(probed') # 0
          <6>1. PICK m, n : m = Len(probed) /\ n = Len(probed')
            OBVIOUS
          <6>2. n = m + 1 /\ m \in Nat /\ m < 4 /\ m # 3
            BY <3>2, <4>2, <6>1
          <6>3. n < 4 /\ n # 0
            BY <6>2
          <6> QED
            BY <6>1, <6>3
        <5> QED
          BY <5>1, <5>2
      <4> QED
        BY <4>1, <4>2
    <3> QED
      BY <3>1, <3>3 DEF StageInv
  <2> QED
    BY <1>1, <1>2, <2>1, <2>2, <2>3, <2>4, EventsKept, TrainedKept, OutputKept
    DEF ReplayInv, SelectionInv, DecisivePairs
<1> QED
  BY <1>8, <1>9

LEMMA PublishStep ==
    ASSUME ReplayInv, Publish
    PROVE  ReplayInv'
<1>1. /\ UNCHANGED <<batch, pool, selection, specs, shown, events, trained, probed>>
      /\ UNCHANGED <<serves, judgments, models>> /\ at = "publish" /\ at' = "ended"
      /\ output' = [events |-> events, a |-> trained[1].model, b |-> trained[2].model]
  BY DEF Publish, khiveVars, storeVars, replayLocals
<1>2. StoreGrows
  BY <1>1, StoreStays
<1>3. Len(trained) = 2
  BY <1>1 DEF ReplayInv, StageInv
<1>4. ReplayTypeOK' /\ StoreTypeOK' /\ BatchTypeOK'
  BY <1>1 DEF ReplayInv, ReplayTypeOK, StoreTypeOK, BatchTypeOK, Specs, Events
<1>5. AskInv' /\ StageInv' /\ ShownInv' /\ SpecsInv'
  BY <1>1, <1>3 DEF AskInv, StageInv, ShownInv, SpecsInv
<1>6. SelectionInv'
  BY <1>1 DEF ReplayInv, SelectionInv, DecisivePairs
<1>7. RowsInv' /\ EventsInv' /\ TrainedInv'
  BY <1>1, <1>2, RowsKept, EventsKept, TrainedKept DEF ReplayInv
<1>8. OutputInv'
  BY <1>1, <1>3 DEF ReplayInv, TrainedInv, OutputInv
<1> QED
  BY <1>4, <1>5, <1>6, <1>7, <1>8 DEF ReplayInv

-----------------------------------------------------------------------------
(* The other steps.                                                         *)

\* A step of the store leaves the call's own invariants.
LEMMA StoreStep ==
    ASSUME ReplayInv, StoreGrows, UNCHANGED <<replayLocals, at, output>>,
           StoreTypeOK', BatchTypeOK', RowsInv', batch'[Replay].ops = batch[Replay].ops
    PROVE  ReplayInv'
<1>1. UNCHANGED <<pool, selection, specs, shown, events, trained, probed>>
  BY DEF replayLocals
<1>2. ReplayTypeOK'
  BY <1>1 DEF ReplayInv, ReplayTypeOK, Specs, Events
<1>3. AskInv' /\ StageInv' /\ SpecsInv'
  BY <1>1 DEF ReplayInv, AskInv, StageInv, SpecsInv, Label, Preferred, PolicyOf, Decisive
<1>4. SelectionInv'
  BY <1>1 DEF ReplayInv, SelectionInv, DecisivePairs
<1>5. ShownInv' /\ EventsInv' /\ TrainedInv' /\ OutputInv'
  BY <1>1, ShownKept, EventsKept, TrainedKept, OutputKept DEF ReplayInv
<1> QED
  BY <1>2, <1>3, <1>4, <1>5 DEF ReplayInv

\* A vote on the next presentation.
LEMMA ForeignStep ==
    ASSUME ReplayInv, ForeignJudgment
    PROVE  ReplayInv'
<1>1. /\ UNCHANGED <<models, batch, replayLocals, at, output>> /\ UNCHANGED events
  BY DEF ForeignJudgment, replayLocals
<1>2. PICK f \in ForeignJudgments :
         /\ serves' = Append(serves, [pair |-> f.pair, swap |-> FALSE])
         /\ judgments' = judgments \cup {[serve |-> Len(serves) + 1, choice |-> f.choice]}
  BY DEF ForeignJudgment
<1>3. [pair |-> f.pair, swap |-> FALSE] \in Serves
  <2>1. f.pair \in Pairs
    BY DEF Pairs
  <2> QED
    BY <2>1 DEF Serves
<1>4. serves \in Seq(Serves) /\ judgments \in SUBSET Votes /\ IsFiniteSet(judgments)
  BY DEF ReplayInv, StoreTypeOK
<1>5. serves' \in Seq(Serves) /\ Grows(serves, serves')
  BY <1>2, <1>3, <1>4, Appended
<1>6. PICK vote \in Votes : vote = [serve |-> Len(serves) + 1, choice |-> f.choice]
  <2>1. f.choice \in {g.choice : g \in ForeignJudgments}
    OBVIOUS
  <2>2. f.choice \in Labels
    BY <2>1 DEF Labels
  <2>3. Len(serves) + 1 \in Nat
    BY <1>4
  <2> QED
    BY <2>2, <2>3 DEF Votes
<1>7. judgments' \in SUBSET Votes /\ IsFiniteSet(judgments') /\ judgments \subseteq judgments'
  <2>1. judgments' = judgments \cup {vote}
    BY <1>2, <1>6
  <2> QED
    BY <1>4, <2>1, FS_AddElement
<1>8. StoreGrows
  BY <1>1, <1>5, <1>7 DEF StoreGrows, Grows
<1>9. StoreTypeOK' /\ BatchTypeOK'
  BY <1>1, <1>5, <1>7 DEF ReplayInv, StoreTypeOK, BatchTypeOK
<1>10. RowsInv'
  BY <1>1, <1>8, RowsKept DEF ReplayInv
<1> QED
  BY <1>1, <1>8, <1>9, <1>10, StoreStep

\* The kernel's verbs.
LEMMA ServeRow ==
    ASSUME ReplayInv, UNCHANGED events, NEW op \in Asks, op.tool = "serve",
           NEW swap \in BOOLEAN, ServeVerb(Replay, op.pair, swap)
    PROVE  /\ StoreTypeOK' /\ StoreGrows
           /\ \E result \in Replies : RowDone(Replay, result) /\ Answers(op, result)'
<1>1. PICK id, result :
         /\ id = Len(serves) + 1
         /\ result = [serve |-> id, shown |-> Displayed(op.pair, swap), swap |-> swap]
  OBVIOUS
<1>2. /\ serves' = Append(serves, [pair |-> op.pair, swap |-> swap])
      /\ UNCHANGED <<judgments, models>> /\ RowDone(Replay, result)
  BY <1>1 DEF ServeVerb
<1>3. op.pair \in Pairs
  BY DEF Asks
<1>4. serves \in Seq(Serves) /\ [pair |-> op.pair, swap |-> swap] \in Serves
  BY <1>3 DEF ReplayInv, StoreTypeOK, Serves
<1>5. /\ serves' \in Seq(Serves) /\ Grows(serves, serves')
      /\ id \in DOMAIN serves'
      /\ serves'[id] = [pair |-> op.pair, swap |-> swap]
  BY <1>1, <1>2, <1>4, Appended
<1>6. result \in Replies
  <2>1. id \in Nat /\ Displayed(op.pair, swap) \in Displays
    BY <1>1, <1>3, <1>4 DEF Displays
  <2> QED
    BY <1>1, <2>1 DEF Replies
<1>7. \A i \in DOMAIN events : events[i].serve # id
  BY <1>1, <1>4 DEF ReplayInv, EventsInv, EventOK
<1>8. Answers(op, result)'
  BY <1>1, <1>5, <1>7 DEF Answers, Displayed
<1>9. StoreTypeOK' /\ StoreGrows
  BY <1>2, <1>5 DEF ReplayInv, StoreTypeOK, StoreGrows, Grows
<1> QED
  BY <1>2, <1>6, <1>8, <1>9

LEMMA JudgeRow ==
    ASSUME ReplayInv, NEW op \in Asks, op.tool = "judge",
           JudgeVerb(Replay, op.serve, op.choice)
    PROVE  /\ StoreTypeOK' /\ StoreGrows
           /\ \E result \in Replies : RowDone(Replay, result) /\ Answers(op, result)'
<1>1. PICK vote, result :
         /\ vote = [serve |-> op.serve, choice |-> op.choice]
         /\ result = [serve |-> op.serve, choice |-> op.choice,
                      created |-> vote \notin judgments]
  OBVIOUS
<1>2. /\ judgments' = judgments \cup {vote}
      /\ UNCHANGED <<serves, models>> /\ RowDone(Replay, result)
  BY <1>1 DEF JudgeVerb
<1>3. op.serve \in Nat /\ op.choice \in Labels
  BY DEF Asks
<1>4. result \in Replies
  BY <1>1, <1>3 DEF Replies
<1>5. Answers(op, result)'
  <2>1. Vote(result) = vote
    BY <1>1 DEF Vote
  <2>2. Vote(result) \in judgments'
    BY <1>2, <2>1
  <2> QED
    BY <2>2 DEF Answers, Vote
<1>6. vote \in Votes
  BY <1>1, <1>3 DEF Votes
<1>7. judgments' \in SUBSET Votes /\ IsFiniteSet(judgments') /\ judgments \subseteq judgments'
  BY <1>2, <1>6, FS_AddElement DEF ReplayInv, StoreTypeOK
<1>8. StoreTypeOK' /\ StoreGrows
  BY <1>2, <1>7 DEF ReplayInv, StoreTypeOK, StoreGrows, Grows
<1> QED
  BY <1>2, <1>4, <1>5, <1>8

\* A finite set of judgments is of finitely many pairs.
LEMMA PairsFinite ==
    ASSUME NEW js, IsFiniteSet(js)
    PROVE  IsFiniteSet(Groups(js))
<1> DEFINE paired == [j \in js |-> PairOf(j)]
<1>1. paired \in Surjection(js, Groups(js))
  <2>1. paired \in [js -> Groups(js)]
    BY DEF Groups
  <2>2. \A pair \in Groups(js) : \E j \in js : paired[j] = pair
    BY DEF Groups
  <2> QED
    BY <2>1, <2>2 DEF Surjection
<1> HIDE DEF paired
<1> QED
  BY <1>1, FS_Surjection

LEMMA TrainRow ==
    ASSUME ReplayInv, UNCHANGED events, NEW op \in Asks, op.tool = "train", TrainVerb(Replay)
    PROVE  /\ StoreTypeOK' /\ StoreGrows
           /\ \E result \in Replies : RowDone(Replay, result) /\ Answers(op, result)'
<1>1. PICK support, id, snapshot :
         /\ support = Cardinality(Groups(JudgedIn(judgments, "train", Sides)))
         /\ id = Len(models) + 1
         /\ snapshot = judgments
  OBVIOUS
<1>2. /\ models \in Seq(SUBSET Votes) /\ judgments \in SUBSET Votes
      /\ IsFiniteSet(judgments)
  BY DEF ReplayInv, StoreTypeOK
<1>3. CASE RowDone(Replay, [refused |-> support]) /\ UNCHANGED <<serves, judgments, models>>
  <2>1. support \in Nat
    <3>1. JudgedIn(judgments, "train", Sides) \in SUBSET judgments
      BY DEF JudgedIn
    <3>2. IsFiniteSet(JudgedIn(judgments, "train", Sides))
      BY <1>2, <3>1, FS_Subset
    <3>3. IsFiniteSet(Groups(JudgedIn(judgments, "train", Sides)))
      BY <3>2, PairsFinite
    <3> QED
      BY <1>1, <3>3, FS_CardinalityType
  <2>2. [refused |-> support] \in Replies
    BY <2>1 DEF Replies
  <2>3. Answers(op, [refused |-> support])'
    BY DEF Answers
  <2>4. StoreTypeOK' /\ StoreGrows
    BY <1>3, StoreStays DEF ReplayInv, StoreTypeOK
  <2> QED
    BY <1>3, <2>2, <2>3, <2>4
<1>4. CASE /\ models' = Append(models, snapshot)
           /\ RowDone(Replay, [model |-> id, snapshot |-> snapshot])
           /\ UNCHANGED <<serves, judgments>>
  <2>1. PICK result : result = [model |-> id, snapshot |-> snapshot]
    OBVIOUS
  <2>2. /\ models' \in Seq(SUBSET Votes) /\ Grows(models, models')
        /\ id \in DOMAIN models' /\ models'[id] = snapshot
    BY <1>1, <1>2, <1>4, Appended
  <2>3. result \in Models /\ result.model = id /\ result.snapshot = snapshot
    BY <1>1, <1>2, <2>1 DEF Models
  <2>4. VotesOf(events, Phases) \subseteq snapshot
    <3>1. \A i \in DOMAIN events : Vote(events[i]) \in judgments
      BY DEF ReplayInv, EventsInv, EventOK
    <3> QED
      BY <1>1, <3>1 DEF VotesOf, ToSet
  <2>5. VotesOf(events, Phases)' = VotesOf(events, Phases)
    BY DEF VotesOf, Vote
  <2>6. Answers(op, result)'
    BY <1>1, <1>2, <2>2, <2>3, <2>4, <2>5 DEF Answers, Models, Votes
  <2>7. result \in Replies
    BY <2>3 DEF Replies
  <2>8. StoreTypeOK' /\ StoreGrows
    BY <1>4, <2>2 DEF ReplayInv, StoreTypeOK, StoreGrows, Grows
  <2> QED
    BY <1>4, <2>1, <2>6, <2>7, <2>8
<1> QED
  BY <1>1, <1>3, <1>4 DEF TrainVerb

LEMMA PerformStep ==
    ASSUME ReplayInv, Perform(Replay), UNCHANGED replayVars
    PROVE  ReplayInv'
<1>1. /\ UNCHANGED events /\ UNCHANGED <<replayLocals, at, output>> /\ Running(Replay)
  BY DEF Perform, replayVars, replayLocals
<1>2. PICK op : op = NextOp(Replay)
  OBVIOUS
<1>3. op \in Asks
  <2>1. batch[Replay] \in [ops : Seq(Asks), done : Seq(Replies)]
    BY <1>1 DEF Running, ReplayInv, BatchTypeOK
  <2>2. /\ batch[Replay].ops \in Seq(Asks) /\ Len(batch[Replay].done) \in Nat
        /\ Len(batch[Replay].done) < Len(batch[Replay].ops)
    BY <1>1, <2>1 DEF Running
  <2>3. Len(batch[Replay].done) + 1 \in DOMAIN batch[Replay].ops
    BY <2>2
  <2> QED
    BY <1>2, <2>2, <2>3 DEF NextOp
<1>4. op.tool \in {"train", "serve", "judge", "preference"}
  BY <1>3 DEF Asks
<1>5. /\ StoreTypeOK' /\ StoreGrows
      /\ \E result \in Replies : RowDone(Replay, result) /\ Answers(op, result)'
  <2>1. CASE op.tool = "train"
    BY <1>1, <1>2, <1>3, <2>1, TrainRow DEF Perform
  <2>2. CASE op.tool = "serve"
    BY <1>1, <1>2, <1>3, <2>2, ServeRow DEF Perform
  <2>3. CASE op.tool = "judge"
    BY <1>2, <1>3, <2>3, JudgeRow DEF Perform
  <2>4. CASE op.tool = "preference"
    <3>1. PreferenceVerb(Replay, op.model, op.pair)
      BY <1>2, <2>4 DEF Perform
    <3>2. PICK result : result = [model |-> op.model, pair |-> op.pair]
      OBVIOUS
    <3>3. UNCHANGED <<serves, judgments, models>> /\ RowDone(Replay, result)
      BY <3>1, <3>2 DEF PreferenceVerb, storeVars
    <3>4. result \in Replies
      BY <1>3, <2>4, <3>2 DEF Asks, Replies
    <3>5. Answers(op, result)'
      BY <2>4 DEF Answers
    <3>6. StoreTypeOK' /\ StoreGrows
      BY <3>3, StoreStays DEF ReplayInv, StoreTypeOK
    <3> QED
      BY <3>3, <3>4, <3>5, <3>6
  <2> QED
    BY <1>4, <2>1, <2>2, <2>3, <2>4
<1>6. PICK result \in Replies : RowDone(Replay, result) /\ Answers(op, result)'
  BY <1>5
<1>7. BatchTypeOK' /\ RowsInv' /\ batch'[Replay].ops = batch[Replay].ops
  BY <1>1, <1>2, <1>5, <1>6, ReplayRow DEF ReplayInv
<1> QED
  BY <1>1, <1>5, <1>7, StoreStep

LEMMA ReplayStep ==
    ASSUME ReplayInv, [ReplayNext]_<<khiveVars, replayVars>>
    PROVE  ReplayInv'
<1>1. CASE UNCHANGED <<khiveVars, replayVars>>
  <2>1. UNCHANGED <<serves, judgments, models, batch, events>>
        /\ UNCHANGED <<replayLocals, at, output>>
    BY <1>1 DEF khiveVars, storeVars, replayVars, replayLocals
  <2>2. StoreGrows
    BY <2>1, StoreStays
  <2>3. StoreTypeOK' /\ BatchTypeOK' /\ RowsInv'
    BY <2>1, <2>2, RowsKept DEF ReplayInv, StoreTypeOK, BatchTypeOK
  <2> QED
    BY <2>1, <2>2, <2>3, StoreStep
<1>2. CASE ReplayNext
  BY <1>2, BeginStep, GateStep, PresentStep, PresentedStep, JudgeStep, JudgedStep,
     SupportStep, TrainStep, TrainedStep, ProbeStep, ProbedStep, PublishStep,
     ForeignStep, PerformStep
  DEF ReplayNext
<1> QED
  BY <1>1, <1>2

LEMMA ReplayStart == KhiveInit /\ ReplayInit => ReplayInv
<1> SUFFICES ASSUME KhiveInit, ReplayInit
             PROVE  ReplayInv
  OBVIOUS
<1>1. /\ serves = <<>> /\ judgments = {} /\ models = <<>>
      /\ batch = [c \in Clients |-> Nil]
  BY DEF KhiveInit
<1>2. /\ pool \in Pools /\ at = "start" /\ output = Unused
      /\ specs = <<>> /\ shown = <<>> /\ events = <<>> /\ trained = <<>> /\ probed = <<>>
  BY DEF ReplayInit
<1>3. StoreTypeOK /\ BatchTypeOK
  BY <1>1, ReplayAssumption, FS_EmptySet DEF StoreTypeOK, BatchTypeOK
<1>4. ReplayTypeOK
  BY <1>2 DEF ReplayTypeOK
<1>5. RowsInv /\ AskInv /\ StageInv
  BY <1>1, <1>2, ReplayAssumption DEF RowsInv, AskInv, StageInv
<1>6. SelectionInv /\ SpecsInv /\ ShownInv
  BY <1>2 DEF SelectionInv, SpecsInv, ShownInv
<1>7. EventsInv /\ TrainedInv /\ OutputInv
  BY <1>2 DEF EventsInv, TrainedInv, OutputInv
<1> QED
  BY <1>3, <1>4, <1>5, <1>6, <1>7 DEF ReplayInv

LEMMA ReplayKeeps == ReplaySpec => []ReplayInv
<1>1. KhiveInit /\ ReplayInit => ReplayInv
  BY ReplayStart
<1>2. ReplayInv /\ [ReplayNext]_<<khiveVars, replayVars>> => ReplayInv'
  BY ReplayStep
<1> QED
  BY <1>1, <1>2, PTL DEF ReplaySpec

-----------------------------------------------------------------------------
(* Theorems.                                                                *)

\* Every judgment the replay records names the side on which its policy's
\* candidate was displayed, whatever sides Khive draws, whatever order the rows
\* come back in and whoever else judges in the scope.
THEOREM LabelsAreThePolicys == ReplaySpec => []LabelsFollowPolicy
<1>1. ReplayInv => LabelsFollowPolicy
  <2> SUFFICES ASSUME ReplayInv, NEW e \in ToSet(events)
               PROVE  /\ [serve |-> e.serve, choice |-> e.choice] \in judgments
                      /\ serves[e.serve].pair = e.pair
                      /\ e.phase # "a_tie" =>
                            Displayed(e.pair, serves[e.serve].swap)[e.choice]
                                = Preferred(e.pair, PolicyOf(e.phase))
    BY DEF LabelsFollowPolicy
  <2>1. EventOK(e)
    BY DEF ReplayInv, EventsInv, ToSet
  <2> QED
    BY <2>1 DEF EventOK, Vote
<1> QED
  BY <1>1, ReplayKeeps, PTL

\* The models a published document names were trained on the events it lists
\* and on nothing anybody else judged.
THEOREM DocumentsAccount == ReplaySpec => []DocumentExplainsModels
<1>1. ReplayInv => DocumentExplainsModels
  BY DEF ReplayInv, OutputInv, DocumentExplainsModels, VotesOf, Vote, Phases
<1> QED
  BY <1>1, ReplayKeeps, PTL
==============================================================================
