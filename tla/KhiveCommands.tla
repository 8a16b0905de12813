--------------------------- MODULE KhiveCommands ---------------------------
(***************************************************************************)
(* The commands that publish through Khive: `build`, which embeds the      *)
(* reference images and writes brand.mb, and `rank` with a preference      *)
(* export, which embeds the candidates, writes the report, creates the     *)
(* scope's board entity and writes the feature artifact (cli.py,           *)
(* encoders.py).  Image files may change while a command runs, the kernel  *)
(* may load another model, and a command may raise or be killed anywhere.  *)
(* The scores are computed by module Ranking.                              *)
(***************************************************************************)
EXTENDS Khive, SequencesExt

CONSTANTS
    Commands,        \* the commands, all with the same arguments
    MaxFiles,        \* bound: how many image files there are at most
    Size,            \* bytes of a content
    RequestMaxImages,\* KHIVE_REQUEST_MAX_IMAGES
    RequestMaxBytes, \* KHIVE_REQUEST_MAX_BYTES
    ProcessMaxUnique,\* _KHIVE_INGEST_PROCESS_MAX_UNIQUE
    Absent, Torn

ASSUME CommandAssumption ==
    /\ Commands \subseteq Clients
    /\ MaxFiles \in Nat \ {0}
    /\ ProcessMaxUnique \in Nat \ {0}

VARIABLES
    files,           \* what the image files hold, in the order they are listed
    brand,           \* brand.mb
    report,          \* the report file: which command's report
    artifact,        \* the preference feature artifact
    pc, kind,
    loaded,          \* contents each command read and hashed
    board,           \* the brand it read
    space,           \* the descriptor its encoder bound
    vectors,         \* accepted rows, one per distinct content
    digest,          \* what it hashed as its report
    entity           \* the board entity it created

outputs == <<brand, report, artifact>>
locals == <<kind, loaded, board, space, vectors, digest, entity>>
commandVars == <<files, outputs, pc, locals>>

CommandInit ==
    /\ files \in UNION {[1..n -> Contents] : n \in 1..MaxFiles}
    /\ brand \in {Absent} \cup {[space |-> d] : d \in Descriptors}
    /\ report = Absent /\ artifact = Absent
    /\ pc = [c \in Commands |-> "idle"]
    /\ kind = [c \in Commands |-> Nil]
    /\ loaded = [c \in Commands |-> <<>>]
    /\ board = [c \in Commands |-> Nil]
    /\ space = [c \in Commands |-> Nil]
    /\ vectors = [c \in Commands |-> <<>>]
    /\ digest = [c \in Commands |-> Nil]
    /\ entity = [c \in Commands |-> Nil]

Set(var, c, value) == [var EXCEPT ![c] = value]
Goto(c, l) == pc' = Set(pc, c, l)

Bytes(s) == FoldSeq(LAMBDA content, sum : Size[content] + sum, 0, s)

\* The distinct contents in the order of their first occurrence.
Firsts(s) == {i \in DOMAIN s : \A j \in 1..(i - 1) : s[j] # s[i]}

Unique(s) == Arranged(s, Firsts(s), AsListed(s))

\* The row an occurrence's content was mapped to.
RowOf(c, i) ==
    vectors[c][CHOOSE k \in DOMAIN Unique(loaded[c]) : Unique(loaded[c])[k] = loaded[c][i]]

-----------------------------------------------------------------------------
\* _load_all: every file is read and hashed, within the count and the byte
\* budget of a request; both commands refuse fewer than two.
Load(c) ==
    /\ pc[c] = "idle"
    /\ 2 <= Len(files) /\ Len(files) <= RequestMaxImages
    /\ Bytes(files) <= RequestMaxBytes
    /\ loaded' = Set(loaded, c, files)
    /\ \/ kind' = Set(kind, c, "build") /\ UNCHANGED board
       \/ /\ brand # Absent
          /\ IsInjective(files)
          /\ kind' = Set(kind, c, "export")
          /\ board' = Set(board, c, brand)
    /\ Goto(c, "discover")
    /\ UNCHANGED <<khiveVars, files, outputs, space, vectors, digest, entity>>

Ask(c, from, to, ops) ==
    /\ pc[c] = from /\ Submit(c, ops) /\ Goto(c, to)
    /\ UNCHANGED <<storeVars, files, outputs, locals>>

\* KhiveLatticeEncoder's constructor; a rank refuses another space than its
\* board's.
Discover(c) == Ask(c, "discover", "discovering", <<[tool |-> "model"]>>)

Discovered(c) ==
    /\ pc[c] = "discovering" /\ AllSucceeded(c)
    /\ \E rows \in Rows(c) :
          /\ kind[c] = "export" => rows[1].descriptor = board[c].space
          /\ space' = Set(space, c, rows[1].descriptor)
    /\ Collected(c) /\ Goto(c, "sources")
    /\ UNCHANGED <<storeVars, files, outputs, kind, loaded, board, vectors, digest, entity>>

\* embed_source_assets: every file is read again and must still have the digest
\* it was loaded with.
ReadSources(c) ==
    /\ pc[c] = "sources"
    /\ files = loaded[c]
    /\ Goto(c, "ingest")
    /\ UNCHANGED <<khiveVars, files, outputs, locals>>

Pending(c) == SubSeq(Unique(loaded[c]), Len(vectors[c]) + 1, Len(Unique(loaded[c])))

\* The next process's group.
Group(c) ==
    LET rest == Pending(c)
    IN SubSeq(rest, 1, IF Len(rest) < ProcessMaxUnique THEN Len(rest) ELSE ProcessMaxUnique)

\* _ingest_payloads
IngestGroup(c) ==
    /\ Pending(c) # <<>>
    /\ Ask(c, "ingest", "ingesting",
           [i \in DOMAIN Group(c) |-> [tool |-> "ingest", content |-> Group(c)[i]]])

\* Faulty variant: the rows are taken in the order they come.
ValidAsOrdered(c, rows) == \A i \in DOMAIN rows : rows[i].descriptor = space[c]

\* _validate_ingest_result
ValidIngest(c, rows) ==
    \A i \in DOMAIN rows :
        /\ rows[i].descriptor = space[c]
        /\ rows[i].content = Group(c)[i]

Ingested(c) ==
    /\ pc[c] = "ingesting" /\ AllSucceeded(c)
    /\ \E rows \in Rows(c) :
          /\ ValidIngest(c, rows)
          /\ vectors' = Set(vectors, c, vectors[c] \o rows)
    /\ Collected(c)
    /\ Goto(c, IF Len(vectors'[c]) < Len(Unique(loaded[c])) THEN "ingest" ELSE "embedded")
    /\ UNCHANGED <<storeVars, files, outputs, kind, loaded, board, space, digest, entity>>

\* write_board: atomic.
WriteBoard(c) ==
    /\ pc[c] = "embedded" /\ kind[c] = "build"
    /\ brand' = [space |-> space[c]]
    /\ Goto(c, "ended")
    /\ UNCHANGED <<khiveVars, files, report, artifact, locals>>

\* write_report: the text replaces the file in place.
OpenReport(c) ==
    /\ pc[c] = "embedded" /\ kind[c] = "export"
    /\ report' = Torn
    /\ Goto(c, "report")
    /\ UNCHANGED <<khiveVars, files, brand, artifact, locals>>

WriteReport(c) ==
    /\ pc[c] = "report"
    /\ report' = c
    /\ Goto(c, "digest")
    /\ UNCHANGED <<khiveVars, files, brand, artifact, locals>>

\* The report is read back and hashed.
HashReport(c) ==
    /\ pc[c] = "digest"
    /\ digest' = Set(digest, c, report)
    /\ Goto(c, "create")
    /\ UNCHANGED <<khiveVars, files, outputs, kind, loaded, board, space, vectors, entity>>

Scope(c) == [report |-> digest[c], space |-> space[c]]

\* publish_board
CreateBoard(c) == Ask(c, "create", "creating", <<[tool |-> "create", scope |-> Scope(c)]>>)

\* Faulty variant: the artifact is written whether or not the entity exists.
CreatedPresumed(c) ==
    /\ pc[c] = "creating"
    /\ entity' = Set(entity, c, Len(boards) + 1)
    /\ Collected(c) /\ Goto(c, "artifact")
    /\ UNCHANGED <<storeVars, files, outputs, kind, loaded, board, space, vectors, digest>>

\* _parse_published_board
Created(c) ==
    /\ pc[c] = "creating" /\ AllSucceeded(c)
    /\ \E rows \in Rows(c) :
          /\ rows[1].scope = Scope(c)
          /\ entity' = Set(entity, c, rows[1].id)
    /\ Collected(c) /\ Goto(c, "artifact")
    /\ UNCHANGED <<storeVars, files, outputs, kind, loaded, board, space, vectors, digest>>

\* PreferenceFeatureArtifact.build and its writer: atomic.
WriteArtifact(c) ==
    /\ pc[c] = "artifact"
    /\ artifact' = [entity |-> entity[c], scope |-> Scope(c)]
    /\ Goto(c, "ended")
    /\ UNCHANGED <<khiveVars, files, brand, report, locals>>

\* Any error, a fault of the kernel among them, or a kill; the kernel's process
\* goes on.
StopCommand(c) ==
    /\ pc[c] \notin {"idle", "ended"}
    /\ Goto(c, "ended")
    /\ UNCHANGED <<khiveVars, files, outputs, locals>>

\* Somebody edits a file.
EditFile ==
    /\ \E p \in DOMAIN files : \E content \in Contents \ {files[p]} :
          files' = [files EXCEPT ![p] = content]
    /\ UNCHANGED <<khiveVars, outputs, pc, locals>>

KernelStep(c) == (FailRow(c) \/ Perform(c)) /\ UNCHANGED commandVars

CommandNext ==
    \/ EditFile
    \/ Reload /\ UNCHANGED commandVars
    \/ \E c \in Commands :
          \/ Load(c) \/ Discover(c) \/ Discovered(c) \/ ReadSources(c)
          \/ IngestGroup(c) \/ Ingested(c) \/ WriteBoard(c)
          \/ OpenReport(c) \/ WriteReport(c) \/ HashReport(c)
          \/ CreateBoard(c) \/ Created(c) \/ WriteArtifact(c)
          \/ StopCommand(c) \/ KernelStep(c)

\* The commands over a store nobody else uses.
CommandSpec == KhiveInit /\ CommandInit /\ [][CommandNext]_<<khiveVars, commandVars>>

-----------------------------------------------------------------------------
(* Properties.                                                              *)

\* What a command goes on with after embedding is, occurrence by occurrence,
\* the embedding of the bytes it loaded and hashed, all in the one space its
\* encoder bound, and for a rank in its board's: though files change between
\* the two reads, the kernel loads another model between two groups, and rows
\* come back crossed or doubled.
MatrixIsOfLoadedBytes ==
    \A c \in Commands :
        pc[c] \in {"embedded", "report", "digest", "create", "creating", "artifact"} =>
            /\ \A i \in DOMAIN loaded[c] :
                  /\ RowOf(c, i).content = loaded[c][i]
                  /\ RowOf(c, i).descriptor = space[c]
            /\ kind[c] = "export" => board[c].space = space[c]

\* An artifact on disk names a board entity that exists in Khive for exactly
\* its scope, whatever was killed between the two.
ScopeIsPublished ==
    artifact # Absent =>
        /\ artifact.entity \in DOMAIN boards
        /\ boards[artifact.entity] = artifact.scope
=============================================================================
