------------------------ MODULE LedgerBootstrapProofs ------------------------
(***************************************************************************)
(* What holds of the first opening of the ledger's file for every number   *)
(* of processes, crashes, failures and files.                              *)
(*                                                                         *)
(* Everything follows from what the bootstrap lock protects: whoever holds *)
(* it past the creation looks at the file the path names, and a holder who *)
(* may discard that file adopted it when it had no schema, so that nobody  *)
(* has written through the path since.                                     *)
(***************************************************************************)
EXTENDS LedgerBootstrap, TLAPS

\* Where a recorder holds the bootstrap lock, and where a file is known.
Opening == {"examine", "connect", "verify", "probe", "configure", "initialize",
            "reverify", "discard_log", "discard_main"}
Holding == Opening \cup {"create"}
Connected == {"verify", "probe", "configure", "initialize", "reverify", "begin"}

Views == [schema : BOOLEAN, rows : SUBSET Processes]
Files == [private : BOOLEAN, header : BOOLEAN, main : Views, current : Views]

BootTypeOK ==
    /\ path \in 0..MaxFiles
    /\ created \in 0..MaxFiles
    /\ files \in [1..MaxFiles -> Files]
    /\ lock \in Processes \cup {Nobody}
    /\ pc \in [Processes -> PCs]
    /\ creator \in [Processes -> BOOLEAN]
    /\ before \in [Processes -> 0..MaxFiles]
    /\ conn \in [Processes -> 0..MaxFiles]
    /\ acknowledged \subseteq Processes
    /\ failures \in Nat

\* The lock is held by the one recorder that is opening, and other operations
\* neither create nor discard.
LockInv ==
    /\ \A p \in Recorders : lock = p <=> pc[p] \in Holding
    /\ \A p \in Openers :
          /\ lock # p /\ ~creator[p]
          /\ pc[p] \notin {"create", "configure", "initialize", "discard_log",
                           "discard_main"}
    /\ \A p \in Processes : pc[p] \in Connected => conn[p] # 0

\* What the holder of the lock knows of the file the path names.
HolderInv ==
    \A p \in Recorders : pc[p] \in Opening =>
        /\ path # 0
        /\ pc[p] \in Opening \ {"examine", "discard_log", "discard_main"} => before[p] = path
        /\ pc[p] \in Connected => conn[p] = path
        /\ creator[p] => /\ acknowledged = {}
                         /\ \A r \in Recorders : pc[r] # "begin"
                         /\ pc[p] \notin {"verify", "probe"}
        /\ (creator[p] /\ pc[p] \in {"examine", "connect", "configure", "initialize"})
              => ~files[path].current.schema
        /\ (creator[p] /\ pc[p] = "reverify") => files[path].current.schema
        /\ ~creator[p] => /\ pc[p] \in {"examine", "connect", "verify", "reverify"}
                          /\ files[path].current.schema
        /\ pc[p] = "initialize" => files[path].header

\* A recorder about to write, and whoever has written, did so on the file the path
\* names, which then has its schema; no other file ever holds a row.
WrittenInv ==
    /\ \A r \in Recorders : pc[r] = "begin" =>
          path # 0 /\ conn[r] = path /\ files[path].current.schema
    /\ acknowledged # {} =>
          /\ path # 0
          /\ files[path].current.schema
          /\ acknowledged \subseteq files[path].current.rows
    /\ \A i \in 1..MaxFiles :
          /\ (files[i].current.rows # {} \/ files[i].main.rows # {})
                => i = path /\ acknowledged # {}
          /\ (files[i].current.schema \/ files[i].main.schema) => files[i].header

BootInv == BootTypeOK /\ LockInv /\ HolderInv /\ WrittenInv

-----------------------------------------------------------------------------
(* Types.                                                                   *)

\* Going to a place of the program, with or without leaving the lock.
LEMMA GotoTyped ==
    ASSUME BootTypeOK, NEW p \in Processes, NEW l \in PCs, Goto(p, l)
    PROVE  pc' \in [Processes -> PCs]
  BY DEF BootTypeOK, Goto

LEMMA EndTyped ==
    ASSUME BootTypeOK, NEW p \in Processes, NEW l \in PCs, End(p, l)
    PROVE  pc' \in [Processes -> PCs] /\ lock' \in Processes \cup {Nobody}
  BY GotoTyped DEF BootTypeOK, End, Release

LEMMA Places ==
    /\ Finals \subseteq PCs
    /\ {"create", "examine", "connect", "verify", "probe", "configure", "initialize",
        "reverify", "discard_log", "discard_main", "begin"} \subseteq PCs
    /\ {"done", "refused", "denied", "corrupt", "failed", "crashed"} \subseteq PCs
  BY DEF PCs, Finals

LEMMA CreateTyped ==
    ASSUME BootTypeOK, NEW private \in BOOLEAN, Create(private)
    PROVE  /\ path' \in 0..MaxFiles /\ created' \in 0..MaxFiles
           /\ files' \in [1..MaxFiles -> Files]
<1>1. NewFile(private) \in Files
  BY DEF NewFile, NoSchema, Files, Views
<1>2. created + 1 \in 0..MaxFiles
  BY BootstrapAssumption DEF BootTypeOK, Create
<1> QED
  BY <1>1, <1>2 DEF BootTypeOK, Create

\* What the operations write into a file.
LEMMA FileTyped ==
    ASSUME BootTypeOK, NEW i \in 1..MaxFiles, NEW rows \in SUBSET Processes
    PROVE  /\ [files EXCEPT ![i].header = TRUE] \in [1..MaxFiles -> Files]
           /\ [files EXCEPT ![i].current.schema = TRUE] \in [1..MaxFiles -> Files]
           /\ [files EXCEPT ![i].current.rows = rows] \in [1..MaxFiles -> Files]
           /\ [files EXCEPT ![i].current = files[i].main] \in [1..MaxFiles -> Files]
           /\ [files EXCEPT ![i].main = files[i].current] \in [1..MaxFiles -> Files]
<1>1. /\ files[i] \in Files
      /\ files[i].current \in Views
      /\ files[i].main \in Views
  BY DEF BootTypeOK, Files
<1>2. /\ [files[i].current EXCEPT !.schema = TRUE] \in Views
      /\ [files[i].current EXCEPT !.rows = rows] \in Views
  BY <1>1 DEF Views
<1>3. /\ [files[i] EXCEPT !.header = TRUE] \in Files
      /\ \A v \in Views : /\ [files[i] EXCEPT !.current = v] \in Files
                          /\ [files[i] EXCEPT !.main = v] \in Files
  BY <1>1 DEF Files
<1>4. \A f \in Files : [files EXCEPT ![i] = f] \in [1..MaxFiles -> Files]
  BY DEF BootTypeOK
<1> HIDE DEF Files, Views
<1>5. [files EXCEPT ![i] = [files[i] EXCEPT !.current =
          [files[i].current EXCEPT !.schema = TRUE]]] \in [1..MaxFiles -> Files]
  BY <1>2, <1>3, <1>4
<1>6. [files EXCEPT ![i] = [files[i] EXCEPT !.current =
          [files[i].current EXCEPT !.rows = rows]]] \in [1..MaxFiles -> Files]
  BY <1>2, <1>3, <1>4
<1>7. [files EXCEPT ![i].header = TRUE] \in [1..MaxFiles -> Files]
  BY <1>3, <1>4
<1>8. [files EXCEPT ![i].current = files[i].main] \in [1..MaxFiles -> Files]
  BY <1>1, <1>3, <1>4
<1>9. [files EXCEPT ![i].main = files[i].current] \in [1..MaxFiles -> Files]
  BY <1>1, <1>3, <1>4
<1>10. [files EXCEPT ![i].current.schema = TRUE] \in [1..MaxFiles -> Files]
  BY <1>5
<1>11. [files EXCEPT ![i].current.rows = rows] \in [1..MaxFiles -> Files]
  BY <1>6
<1> QED
  BY <1>7, <1>8, <1>9, <1>10, <1>11

\* Every step keeps the types.
LEMMA StepBootType ==
    ASSUME BootTypeOK, LockInv, [BootNext]_bootVars
    PROVE  BootTypeOK'
<1> USE Places
<1>0. \A p \in Processes : pc[p] \in Connected => conn[p] \in 1..MaxFiles
  BY BootstrapAssumption DEF BootTypeOK, LockInv
<1>1. ASSUME NEW p \in Processes, Begin(p)
      PROVE  BootTypeOK'
  <2>1. pc' \in [Processes -> PCs] /\ lock' \in Processes \cup {Nobody}
    BY <1>1, GotoTyped DEF Begin, BootTypeOK
  <2> QED
    BY <1>1, <2>1 DEF Begin, BootTypeOK
<1>2. ASSUME NEW p \in Processes, CreateFile(p)
      PROVE  BootTypeOK'
  <2>1. pc' \in [Processes -> PCs] /\ lock' \in Processes \cup {Nobody}
    BY <1>2, GotoTyped, EndTyped DEF CreateFile, BootTypeOK
  <2>2. /\ path' \in 0..MaxFiles /\ created' \in 0..MaxFiles
        /\ files' \in [1..MaxFiles -> Files]
    BY <1>2, CreateTyped DEF CreateFile, BootTypeOK
  <2>3. creator' \in [Processes -> BOOLEAN]
    BY <1>2 DEF CreateFile, BootTypeOK, Uninitialized
  <2> QED
    BY <1>2, <2>1, <2>2, <2>3 DEF CreateFile, BootTypeOK
<1>3. ASSUME NEW p \in Processes, Examine(p)
      PROVE  BootTypeOK'
  <2>1. pc' \in [Processes -> PCs] /\ lock' \in Processes \cup {Nobody}
    BY <1>3, GotoTyped, EndTyped DEF Examine, BootTypeOK
  <2> QED
    BY <1>3, <2>1 DEF Examine, BootTypeOK
<1>4. ASSUME NEW p \in Processes, Connect(p)
      PROVE  BootTypeOK'
  <2>1. pc' \in [Processes -> PCs]
    BY <1>4, GotoTyped DEF Connect
  <2>2. /\ path' \in 0..MaxFiles /\ created' \in 0..MaxFiles
        /\ files' \in [1..MaxFiles -> Files]
    BY <1>4, CreateTyped, BootstrapAssumption DEF Connect, BootTypeOK
  <2> QED
    BY <1>4, <2>1, <2>2 DEF Connect, BootTypeOK
<1>5. ASSUME NEW p \in Processes, Verify(p)
      PROVE  BootTypeOK'
  BY <1>5, GotoTyped DEF Verify, BootTypeOK
<1>6. ASSUME NEW p \in Processes, Probe(p)
      PROVE  BootTypeOK'
  BY <1>6, EndTyped DEF Probe, BootTypeOK
<1>7. ASSUME NEW p \in Processes, Configure(p)
      PROVE  BootTypeOK'
  <2>1. pc' \in [Processes -> PCs]
    BY <1>7, GotoTyped DEF Configure
  <2>2. conn[p] \in 1..MaxFiles
    BY <1>0, <1>7 DEF Configure, Connected
  <2>3. files' \in [1..MaxFiles -> Files]
    BY <1>7, <2>2, FileTyped DEF Configure, BootTypeOK
  <2> QED
    BY <1>7, <2>1, <2>3 DEF Configure, BootTypeOK
<1>8. ASSUME NEW p \in Processes, Initialize(p)
      PROVE  BootTypeOK'
  <2>1. pc' \in [Processes -> PCs]
    BY <1>8, GotoTyped DEF Initialize
  <2>2. conn[p] \in 1..MaxFiles
    BY <1>0, <1>8 DEF Initialize, Connected
  <2>3. files' \in [1..MaxFiles -> Files]
    BY <1>8, <2>2, FileTyped DEF Initialize, BootTypeOK
  <2> QED
    BY <1>8, <2>1, <2>3 DEF Initialize, BootTypeOK
<1>9. ASSUME NEW p \in Processes, Reverify(p)
      PROVE  BootTypeOK'
  <2>1. pc' \in [Processes -> PCs] /\ lock' \in Processes \cup {Nobody}
    BY <1>9, GotoTyped, EndTyped DEF Reverify, BootTypeOK, Release
  <2> QED
    BY <1>9, <2>1 DEF Reverify, BootTypeOK
<1>10. ASSUME NEW p \in Processes, Fail(p)
       PROVE  BootTypeOK'
  <2>1. pc' \in [Processes -> PCs] /\ lock' \in Processes \cup {Nobody}
    BY <1>10, GotoTyped, EndTyped DEF Fail, BootTypeOK
  <2> QED
    BY <1>10, <2>1 DEF Fail, BootTypeOK
<1>11. ASSUME NEW p \in Processes, DiscardLog(p)
       PROVE  BootTypeOK'
  <2>1. pc' \in [Processes -> PCs]
    BY <1>11, GotoTyped DEF DiscardLog
  <2>2. path # 0 => path \in 1..MaxFiles
    BY BootstrapAssumption DEF BootTypeOK
  <2>3. files' \in [1..MaxFiles -> Files]
    BY <1>11, <2>2, FileTyped DEF DiscardLog, BootTypeOK
  <2> QED
    BY <1>11, <2>1, <2>3 DEF DiscardLog, BootTypeOK
<1>12. ASSUME NEW p \in Processes, DiscardMain(p)
       PROVE  BootTypeOK'
  BY <1>12, EndTyped, BootstrapAssumption DEF DiscardMain, BootTypeOK
<1>13. ASSUME NEW p \in Processes, Write(p)
       PROVE  BootTypeOK'
  <2>1. pc' \in [Processes -> PCs]
    BY <1>13, GotoTyped DEF Write
  <2>2. conn[p] \in 1..MaxFiles
    BY <1>0, <1>13 DEF Write, Connected
  <2>3. files[conn[p]].current.rows \cup {p} \in SUBSET Processes
    BY <2>2 DEF BootTypeOK, Files, Views
  <2>4. files' \in [1..MaxFiles -> Files]
    <3>1. [files EXCEPT ![conn[p]].current.rows = files[conn[p]].current.rows \cup {p}]
             \in [1..MaxFiles -> Files]
      BY <2>2, <2>3, FileTyped
    <3> QED
      BY <1>13, <3>1 DEF Write, BootTypeOK
  <2> QED
    BY <1>13, <2>1, <2>4 DEF Write, BootTypeOK
<1>14. ASSUME NEW p \in Processes, Crash(p)
       PROVE  BootTypeOK'
  BY <1>14, EndTyped DEF Crash, BootTypeOK
<1>15. CASE Checkpoint
  <2>1. path \in 1..MaxFiles
    BY <1>15, BootstrapAssumption DEF Checkpoint, BootTypeOK
  <2>2. files' \in [1..MaxFiles -> Files]
    <3>1. {} \in SUBSET Processes
      OBVIOUS
    <3> QED
      BY <1>15, <2>1, <3>1, FileTyped DEF Checkpoint
  <2> QED
    BY <1>15, <2>2 DEF Checkpoint, BootTypeOK
<1>16. CASE UNCHANGED bootVars
  BY <1>16 DEF bootVars, BootTypeOK
<1> HIDE Places
<1> QED
  BY <1>1, <1>2, <1>3, <1>4, <1>5, <1>6, <1>7, <1>8, <1>9, <1>10, <1>11, <1>12, <1>13,
     <1>14, <1>15, <1>16 DEF BootNext, Step

-----------------------------------------------------------------------------
(* The lock, its holder and the file.                                       *)

\* The lock changes hands only where its holder stops opening.
LEMMA StepLock ==
    ASSUME BootTypeOK, LockInv, [BootNext]_bootVars
    PROVE  LockInv'
<1> USE BootstrapAssumption DEF BootTypeOK, LockInv, Processes, PCs, Finals, Holding, Opening,
    Connected
<1>1. ASSUME NEW p \in Processes, Begin(p)
      PROVE  LockInv'
  BY <1>1 DEF Begin, Goto
<1>2. ASSUME NEW p \in Processes, CreateFile(p)
      PROVE  LockInv'
  BY <1>2 DEF CreateFile, Goto, End, Release, Create, NewFile, NoSchema, Uninitialized
<1>3. ASSUME NEW p \in Processes, Examine(p)
      PROVE  LockInv'
  BY <1>3 DEF Examine, Goto, End, Release, Empty
<1>4. ASSUME NEW p \in Processes, Connect(p)
      PROVE  LockInv'
  BY <1>4 DEF Connect, Goto, Create, NewFile, NoSchema
<1>5. ASSUME NEW p \in Processes, Verify(p)
      PROVE  LockInv'
  BY <1>5 DEF Verify, Goto, Here
<1>6. ASSUME NEW p \in Processes, Probe(p)
      PROVE  LockInv'
  BY <1>6 DEF Probe, Goto, End, Release
<1>7. ASSUME NEW p \in Processes, Configure(p)
      PROVE  LockInv'
  BY <1>7 DEF Configure, Goto
<1>8. ASSUME NEW p \in Processes, Initialize(p)
      PROVE  LockInv'
  BY <1>8 DEF Initialize, Goto, Here
<1>9. ASSUME NEW p \in Processes, Reverify(p)
      PROVE  LockInv'
  BY <1>9 DEF Reverify, Goto, End, Release
<1>10. ASSUME NEW p \in Processes, Fail(p)
      PROVE  LockInv'
  BY <1>10 DEF Fail, Goto, End, Release
<1>11. ASSUME NEW p \in Processes, DiscardLog(p)
      PROVE  LockInv'
  BY <1>11 DEF DiscardLog, Goto
<1>12. ASSUME NEW p \in Processes, DiscardMain(p)
      PROVE  LockInv'
  BY <1>12 DEF DiscardMain, Goto, End, Release
<1>13. ASSUME NEW p \in Processes, Write(p)
      PROVE  LockInv'
  BY <1>13 DEF Write, Goto, Here
<1>14. ASSUME NEW p \in Processes, Crash(p)
      PROVE  LockInv'
  BY <1>14 DEF Crash, Goto, End, Release
<1>15. CASE Checkpoint
  BY <1>15 DEF Checkpoint
<1>16. CASE UNCHANGED bootVars
  BY <1>16 DEF bootVars
<1> QED
  BY <1>1, <1>2, <1>3, <1>4, <1>5, <1>6, <1>7, <1>8, <1>9, <1>10, <1>11, <1>12, <1>13, <1>14,
     <1>15, <1>16 DEF BootNext, Step

\* What the holder knows stays true, whatever the others do meanwhile: only it can
\* take the path away or commit a schema, and nobody writes while it may discard.
LEMMA StepHolder ==
    ASSUME BootInv, [BootNext]_bootVars
    PROVE  HolderInv'
<1> USE BootstrapAssumption DEF BootInv, BootTypeOK, LockInv, HolderInv, WrittenInv, Processes,
    Files, Views, PCs, Finals, Holding, Opening, Connected
<1>1. ASSUME NEW p \in Processes, Begin(p)
      PROVE  HolderInv'
  BY <1>1 DEF Begin, Goto
<1>2. ASSUME NEW p \in Processes, CreateFile(p)
      PROVE  HolderInv'
  <2>1. p \in Recorders /\ \A q \in Recorders : q # p => pc[q] \notin Opening
    BY <1>2 DEF CreateFile
  <2>2. CASE path = 0
    <3>1. acknowledged = {} /\ \A r \in Recorders : pc[r] # "begin"
      BY <2>2
    <3>2. path' = created + 1 /\ created + 1 \in 1..MaxFiles
      BY <1>2, <2>2 DEF CreateFile, Create
    <3>3. files'[path'] = NewFile(TRUE)
      BY <1>2, <2>2, <3>2 DEF CreateFile, Create
    <3>4. ~files'[path'].current.schema
      BY <3>3 DEF NewFile, NoSchema
    <3>5. /\ pc' = [pc EXCEPT ![p] = "examine"]
          /\ creator' = [creator EXCEPT ![p] = TRUE]
          /\ UNCHANGED <<before, conn, acknowledged>>
      BY <1>2, <2>2 DEF CreateFile, Goto
    <3> QED
      BY <2>1, <3>1, <3>2, <3>4, <3>5
  <2>3. CASE path # 0
    <3>1. UNCHANGED <<path, files, before, conn, acknowledged>>
      BY <1>2, <2>3 DEF CreateFile
    <3>2. ~files[path].current.schema =>
             acknowledged = {} /\ \A r \in Recorders : pc[r] # "begin"
      BY <2>3
    <3>3. \/ /\ pc' = [pc EXCEPT ![p] = "examine"]
             /\ creator' = [creator EXCEPT ![p] = ~files[path].current.schema]
          \/ pc' = [pc EXCEPT ![p] = "denied"] /\ UNCHANGED creator
      BY <1>2, <2>3 DEF CreateFile, Goto, End, Uninitialized
    <3>4. \A q \in Recorders : q # p => pc'[q] = pc[q]
      BY <3>3
    <3>5. \A q \in Recorders : pc'[q] \in Opening =>
             /\ q = p
             /\ pc'[p] = "examine"
             /\ creator'[p] = ~files[path].current.schema
      BY <2>1, <3>3, <3>4
    <3>6. acknowledged = {} /\ (\A r \in Recorders : pc[r] # "begin")
             => \A r \in Recorders : pc'[r] # "begin"
      BY <3>3
    <3> QED
      BY <2>3, <3>1, <3>2, <3>5, <3>6
  <2> QED
    BY <2>2, <2>3
<1>3. ASSUME NEW p \in Processes, Examine(p)
      PROVE  HolderInv'
  <2>1. UNCHANGED <<path, files, creator, conn, acknowledged>>
    BY <1>3 DEF Examine
  <2>2. \/ pc' = [pc EXCEPT ![p] = "connect"] /\ before' = [before EXCEPT ![p] = path]
        \/ pc' = [pc EXCEPT ![p] = "denied"] /\ UNCHANGED before
    BY <1>3 DEF Examine, Goto, End
  <2>3. pc[p] = "examine"
    BY <1>3 DEF Examine
  <2> QED
    BY <2>1, <2>2, <2>3
<1>4. ASSUME NEW p \in Processes, Connect(p)
      PROVE  HolderInv'
  BY <1>4 DEF Connect, Goto, Create, NewFile, NoSchema
<1>5. ASSUME NEW p \in Processes, Verify(p)
      PROVE  HolderInv'
  BY <1>5 DEF Verify, Goto, Here
<1>6. ASSUME NEW p \in Processes, Probe(p)
      PROVE  HolderInv'
  BY <1>6 DEF Probe, Goto, End, Release
<1>7. ASSUME NEW p \in Processes, Configure(p)
      PROVE  HolderInv'
  BY <1>7 DEF Configure, Goto
<1>8. ASSUME NEW p \in Processes, Initialize(p)
      PROVE  HolderInv'
  BY <1>8 DEF Initialize, Goto, Here
<1>9. ASSUME NEW p \in Processes, Reverify(p)
      PROVE  HolderInv'
  BY <1>9 DEF Reverify, Goto, End, Release
<1>10. ASSUME NEW p \in Processes, Fail(p)
      PROVE  HolderInv'
  BY <1>10 DEF Fail, Goto, End, Release
<1>11. ASSUME NEW p \in Processes, DiscardLog(p)
      PROVE  HolderInv'
  BY <1>11 DEF DiscardLog, Goto
<1>12. ASSUME NEW p \in Processes, DiscardMain(p)
      PROVE  HolderInv'
  BY <1>12 DEF DiscardMain, Goto, End, Release
<1>13. ASSUME NEW p \in Processes, Write(p)
      PROVE  HolderInv'
  <2>1. /\ pc[p] = "begin" /\ UNCHANGED <<path, creator, before, conn>>
        /\ pc' = [pc EXCEPT ![p] = "done"] \/ pc' = [pc EXCEPT ![p] = "refused"]
    BY <1>13 DEF Write, Goto
  <2>2. CASE UNCHANGED <<files, acknowledged>>
    BY <2>1, <2>2
  <2>3. CASE ~UNCHANGED <<files, acknowledged>>
    <3>1. /\ conn[p] \in 1..MaxFiles
          /\ p \in Recorders \/ files[conn[p]].current.rows # {}
          /\ files' = [files EXCEPT ![conn[p]].current.rows = @ \cup {p}]
      BY <1>13, <2>3 DEF Write, Here
    <3>2. \A q \in Recorders : pc[q] \in Opening => ~creator[q]
      BY <2>1, <3>1
    <3>3. \A i \in 1..MaxFiles : /\ files'[i].current.schema = files[i].current.schema
                                 /\ files'[i].header = files[i].header
      BY <3>1
    <3>4. path \in 0..MaxFiles
      OBVIOUS
    <3> QED
      BY <2>1, <3>2, <3>3, <3>4
  <2> QED
    BY <2>2, <2>3
<1>14. ASSUME NEW p \in Processes, Crash(p)
      PROVE  HolderInv'
  BY <1>14 DEF Crash, Goto, End, Release
<1>15. CASE Checkpoint
  BY <1>15 DEF Checkpoint
<1>16. CASE UNCHANGED bootVars
  BY <1>16 DEF bootVars
<1> QED
  BY <1>1, <1>2, <1>3, <1>4, <1>5, <1>6, <1>7, <1>8, <1>9, <1>10, <1>11, <1>12, <1>13, <1>14,
     <1>15, <1>16 DEF BootNext, Step

\* No write is lost, and none goes to another file: a call that waits to write keeps
\* everybody from discarding.
LEMMA StepWritten ==
    ASSUME BootInv, [BootNext]_bootVars
    PROVE  WrittenInv'
<1> USE BootstrapAssumption DEF BootInv, BootTypeOK, LockInv, HolderInv, WrittenInv, Processes,
    Files, Views, PCs, Finals, Holding, Opening, Connected
<1>1. ASSUME NEW p \in Processes, Begin(p)
      PROVE  WrittenInv'
  BY <1>1 DEF Begin, Goto
<1>2. ASSUME NEW p \in Processes, CreateFile(p)
      PROVE  WrittenInv'
  <2>1. CASE UNCHANGED <<path, files>>
    <3>1. /\ UNCHANGED <<conn, acknowledged>>
          /\ \E l \in {"examine", "denied"} : pc' = [pc EXCEPT ![p] = l]
      BY <1>2 DEF CreateFile, Goto, End
    <3>2. \A r \in Recorders : pc'[r] = "begin" => pc[r] = "begin"
      BY <3>1
    <3> QED
      BY <2>1, <3>1, <3>2
  <2>2. CASE path = 0 /\ Create(TRUE)
    <3>1. \A i \in 1..MaxFiles : files[i].current.rows = {} /\ files[i].main.rows = {}
      BY <2>2
    <3>2. acknowledged = {} /\ \A r \in Recorders : pc[r] # "begin"
      BY <2>2
    <3>3. \A i \in 1..MaxFiles : files'[i] = files[i] \/ files'[i] = NewFile(TRUE)
      BY <2>2 DEF Create
    <3>4. LET f == NewFile(TRUE)
          IN  f.current.rows = {} /\ f.main.rows = {} /\ ~f.current.schema /\ ~f.main.schema
      BY DEF NewFile, NoSchema
    <3>5. ASSUME NEW i \in 1..MaxFiles
          PROVE  /\ files'[i].current.rows = {} /\ files'[i].main.rows = {}
                 /\ (files'[i].current.schema \/ files'[i].main.schema) => files'[i].header
      <4>1. CASE files'[i] = files[i]
        BY <3>1, <4>1
      <4>2. CASE files'[i] = NewFile(TRUE)
        BY <3>4, <4>2
      <4> QED
        BY <3>3, <4>1, <4>2
    <3>6. acknowledged' = acknowledged /\ \E l \in {"examine", "denied"} : Goto(p, l)
      BY <1>2 DEF CreateFile, End
    <3>7. \A r \in Recorders : pc'[r] # "begin"
      BY <3>2, <3>6 DEF Goto
    <3> QED
      BY <3>2, <3>5, <3>6, <3>7
  <2> QED
    BY <1>2, <2>1, <2>2 DEF CreateFile
<1>3. ASSUME NEW p \in Processes, Examine(p)
      PROVE  WrittenInv'
  BY <1>3 DEF Examine, Goto, End, Release, Empty
<1>4. ASSUME NEW p \in Processes, Connect(p)
      PROVE  WrittenInv'
  <2>1. /\ pc[p] = "connect" /\ acknowledged' = acknowledged
        /\ conn' = [conn EXCEPT ![p] = path']
        /\ \E l \in {"configure", "verify"} : pc' = [pc EXCEPT ![p] = l]
    BY <1>4 DEF Connect, Goto
  <2>2. CASE UNCHANGED <<path, files>>
    BY <2>1, <2>2
  <2>3. CASE path = 0 /\ Create(OwnerOnlyUmask)
    <3>1. \A i \in 1..MaxFiles : files[i].current.rows = {} /\ files[i].main.rows = {}
      BY <2>3
    <3>2. acknowledged = {} /\ \A r \in Recorders : pc[r] # "begin"
      BY <2>3
    <3>3. \A i \in 1..MaxFiles : files'[i] = files[i] \/ files'[i] = NewFile(OwnerOnlyUmask)
      BY <2>3 DEF Create
    <3>4. LET f == NewFile(OwnerOnlyUmask)
          IN  f.current.rows = {} /\ f.main.rows = {} /\ ~f.current.schema /\ ~f.main.schema
      BY DEF NewFile, NoSchema
    <3>5. \A i \in 1..MaxFiles :
             /\ files'[i].current.rows = {} /\ files'[i].main.rows = {}
             /\ (files'[i].current.schema \/ files'[i].main.schema) => files'[i].header
      BY <3>1, <3>3, <3>4
    <3>6. \A r \in Recorders : pc'[r] # "begin"
      BY <2>1, <3>2
    <3> QED
      BY <2>1, <3>2, <3>5, <3>6
  <2> QED
    BY <1>4, <2>2, <2>3 DEF Connect
<1>5. ASSUME NEW p \in Processes, Verify(p)
      PROVE  WrittenInv'
  BY <1>5 DEF Verify, Goto, Here
<1>6. ASSUME NEW p \in Processes, Probe(p)
      PROVE  WrittenInv'
  BY <1>6 DEF Probe, Goto, End, Release
<1>7. ASSUME NEW p \in Processes, Configure(p)
      PROVE  WrittenInv'
  BY <1>7 DEF Configure, Goto
<1>8. ASSUME NEW p \in Processes, Initialize(p)
      PROVE  WrittenInv'
  <2>1. /\ pc[p] = "initialize" /\ UNCHANGED <<path, conn, acknowledged>>
        /\ \E l \in {"discard_log", "reverify"} : pc' = [pc EXCEPT ![p] = l]
    BY <1>8 DEF Initialize, Goto
  <2>2. p \in Recorders /\ conn[p] = path /\ path \in 1..MaxFiles /\ files[path].header
    BY <2>1
  <2>3. \/ UNCHANGED files
        \/ files' = [files EXCEPT ![path].current.schema = TRUE]
    BY <1>8, <2>2 DEF Initialize
  <2>4. \A i \in 1..MaxFiles : i # path => files'[i] = files[i]
    BY <2>2, <2>3
  <2>5. /\ files'[path].current.rows = files[path].current.rows
        /\ files'[path].main = files[path].main
        /\ files'[path].header
        /\ files[path].current.schema => files'[path].current.schema
    <3>1. files[path] \in Files /\ files[path].current \in Views
      BY <2>2
    <3>2. CASE UNCHANGED files
      BY <2>2, <3>2
    <3>3. CASE files' = [files EXCEPT ![path].current.schema = TRUE]
      <4>1. files'[path] = [files[path] EXCEPT !.current.schema = TRUE]
        BY <2>2, <3>3
      <4> QED
        BY <2>2, <3>1, <4>1
    <3> QED
      BY <2>3, <3>2, <3>3
  <2>6. \A r \in Recorders : pc'[r] = "begin" => pc[r] = "begin" /\ conn'[r] = conn[r]
    BY <2>1
  <2>7. \A i \in 1..MaxFiles :
          /\ (files'[i].current.rows # {} \/ files'[i].main.rows # {})
                => i = path /\ acknowledged # {}
          /\ (files'[i].current.schema \/ files'[i].main.schema) => files'[i].header
    BY <2>4, <2>5
  <2> QED
    BY <2>1, <2>2, <2>5, <2>6, <2>7
<1>9. ASSUME NEW p \in Processes, Reverify(p)
      PROVE  WrittenInv'
  BY <1>9 DEF Reverify, Goto, End, Release
<1>10. ASSUME NEW p \in Processes, Fail(p)
      PROVE  WrittenInv'
  BY <1>10 DEF Fail, Goto, End, Release
<1>11. ASSUME NEW p \in Processes, DiscardLog(p)
      PROVE  WrittenInv'
  <2>1. /\ pc[p] = "discard_log" /\ UNCHANGED <<path, conn, acknowledged>>
        /\ pc' = [pc EXCEPT ![p] = "discard_main"]
    BY <1>11 DEF DiscardLog, Goto
  <2>2. p \in Recorders /\ creator[p]
    BY <2>1
  <2>3. path # 0 /\ acknowledged = {} /\ \A r \in Recorders : pc[r] # "begin"
    BY <2>1, <2>2
  <2>4. /\ p \in Recorders /\ creator[p] /\ path \in 1..MaxFiles /\ acknowledged = {}
        /\ \A r \in Recorders : pc[r] # "begin"
    BY <2>2, <2>3
  <2>5. files' = [files EXCEPT ![path].current = files[path].main]
    BY <1>11, <2>4 DEF DiscardLog
  <2>6. \A i \in 1..MaxFiles :
           /\ files'[i].main = files[i].main
           /\ files'[i].header = files[i].header
           /\ files'[i].current \in {files[i].current, files[i].main}
    <3>1. DOMAIN files = 1..MaxFiles
      OBVIOUS
    <3> QED
      BY <2>4, <2>5, <3>1
  <2> QED
    BY ZenonT(60), <2>1, <2>4, <2>6
<1>12. ASSUME NEW p \in Processes, DiscardMain(p)
      PROVE  WrittenInv'
  BY <1>12 DEF DiscardMain, Goto, End, Release
<1>13. ASSUME NEW p \in Processes, Write(p)
      PROVE  WrittenInv'
  <2>1. /\ pc[p] = "begin" /\ UNCHANGED <<path, conn>>
        /\ pc' = [pc EXCEPT ![p] = "done"] \/ pc' = [pc EXCEPT ![p] = "refused"]
    BY <1>13 DEF Write, Goto
  <2>2. CASE UNCHANGED <<files, acknowledged>>
    BY <2>1, <2>2
  <2>3. CASE ~UNCHANGED <<files, acknowledged>>
    <3>1. /\ conn[p] \in 1..MaxFiles
          /\ p \in Recorders \/ files[conn[p]].current.rows # {}
          /\ files' = [files EXCEPT ![conn[p]].current.rows = @ \cup {p}]
          /\ acknowledged' = acknowledged \cup {p}
      BY <1>13, <2>3 DEF Write, Here
    <3>2. conn[p] = path /\ path \in 1..MaxFiles /\ files[path].current.schema
      BY <2>1, <3>1
    <3>3. /\ files'[path].current.rows = files[path].current.rows \cup {p}
          /\ \A i \in 1..MaxFiles :
                /\ files'[i].current.schema = files[i].current.schema
                /\ files'[i].main = files[i].main
                /\ files'[i].header = files[i].header
                /\ i # path => files'[i] = files[i]
      BY <3>1, <3>2
    <3> QED
      BY <2>1, <3>1, <3>2, <3>3
  <2> QED
    BY <2>2, <2>3
<1>14. ASSUME NEW p \in Processes, Crash(p)
      PROVE  WrittenInv'
  BY <1>14 DEF Crash, Goto, End, Release
<1>15. CASE Checkpoint
  BY <1>15 DEF Checkpoint
<1>16. CASE UNCHANGED bootVars
  BY <1>16 DEF bootVars
<1> QED
  BY <1>1, <1>2, <1>3, <1>4, <1>5, <1>6, <1>7, <1>8, <1>9, <1>10, <1>11, <1>12, <1>13, <1>14,
     <1>15, <1>16 DEF BootNext, Step

LEMMA BootInvariant == BootSpec => []BootInv
<1>1. BootInit => BootInv
  <2>1. NewFile(TRUE) \in Files
    BY DEF NewFile, NoSchema, Files, Views
  <2>2. ASSUME BootInit PROVE BootTypeOK
    <3>1. 0 \in 0..MaxFiles
      BY BootstrapAssumption
    <3>2. files \in [1..MaxFiles -> Files]
      BY <2>1, <2>2 DEF BootInit
    <3>3. pc \in [Processes -> PCs]
      BY <2>2 DEF BootInit, PCs
    <3> QED
      BY <2>2, <3>1, <3>2, <3>3 DEF BootInit, BootTypeOK
  <2>3. BootInit => LockInv /\ HolderInv
    BY BootstrapAssumption
       DEF BootInit, LockInv, HolderInv, Processes, Holding, Opening, Connected
  <2>4. BootInit => WrittenInv
    BY DEF BootInit, WrittenInv, NewFile, NoSchema, Processes
  <2> QED
    BY <2>2, <2>3, <2>4 DEF BootInv
<1>2. BootInv /\ [BootNext]_bootVars => BootInv'
  BY StepBootType, StepLock, StepHolder, StepWritten DEF BootInv
<1> QED
  BY <1>1, <1>2, PTL DEF BootSpec

\* An acknowledged row stays in the file the path names: neither the adoption of
\* a remnant, nor the clean-up after a failed bootstrap, nor a connection to a file
\* that was discarded meanwhile loses one, whatever the umask.
THEOREM RowsAreKept == BootSpec => []AcknowledgedStays
<1>1. BootInv => AcknowledgedStays
  BY DEF BootInv, WrittenInv, AcknowledgedStays
<1> QED
  BY <1>1, BootInvariant, PTL

-----------------------------------------------------------------------------
(* An interrupted bootstrap needs no deletion.                              *)

\* With files owner-only whoever creates them, nothing denies a recorder: the file
\* it finds is one it adopts, or one with its schema and header.
UsableInv ==
    /\ \A i \in 1..MaxFiles : files[i].private
    /\ NeverNeedsDeletion

LEMMA StepUsable ==
    ASSUME OwnerOnlyUmask, BootInv, UsableInv, [BootNext]_bootVars
    PROVE  UsableInv'
<1> USE DEF UsableInv, NeverNeedsDeletion
<1>1. \A i \in 1..MaxFiles : files'[i].private
  <2>1. ASSUME NEW private \in BOOLEAN, private, Create(private)
        PROVE  \A i \in 1..MaxFiles : files'[i].private
    <3>1. NewFile(private).private
      BY <2>1 DEF NewFile
    <3>2. \A i \in 1..MaxFiles : files'[i] \in {files[i], NewFile(private)}
      BY <2>1 DEF Create, BootInv, BootTypeOK
    <3> QED
      BY <3>1, <3>2
  <2>2. ASSUME NEW i \in 1..MaxFiles, NEW v,
               \/ files' = [files EXCEPT ![i].header = v]
               \/ files' = [files EXCEPT ![i].current = v]
               \/ files' = [files EXCEPT ![i].main = v]
        PROVE  \A j \in 1..MaxFiles : files'[j].private
    BY ZenonT(60), <2>2 DEF BootInv, BootTypeOK, Files
  <2>3. CASE UNCHANGED files
    BY <2>3
  <2>4. ASSUME NEW p \in Processes, Step(p), ~UNCHANGED files
        PROVE  \A i \in 1..MaxFiles : files'[i].private
    <3>0. pc[p] \in Connected => conn[p] \in 1..MaxFiles
      BY BootstrapAssumption DEF BootInv, BootTypeOK, LockInv
    <3>1. CASE CreateFile(p)
      BY <2>1, <2>4, <3>1 DEF CreateFile
    <3>2. CASE Connect(p)
      BY <2>1, <2>4, <3>2, BootstrapAssumption DEF Connect
    <3>3. CASE Configure(p)
      BY <2>2, <3>0, <3>3 DEF Configure, Connected
    <3>4. CASE Initialize(p)
      BY <2>2, <2>4, <3>0, <3>4 DEF Initialize, Connected
    <3>5. CASE DiscardLog(p)
      BY <2>2, <2>4, <3>5, BootstrapAssumption DEF DiscardLog, BootInv, BootTypeOK
    <3>6. CASE Write(p)
      BY <2>2, <2>4, <3>0, <3>6 DEF Write, Connected
    <3> QED
      BY <2>4, <3>1, <3>2, <3>3, <3>4, <3>5, <3>6
         DEF Step, Begin, Examine, Verify, Probe, Reverify, DiscardMain
  <2>5. CASE Checkpoint
    BY <2>2, <2>5, BootstrapAssumption DEF Checkpoint, BootInv, BootTypeOK
  <2> QED
    BY <2>3, <2>4, <2>5 DEF BootNext, Fail, Crash, bootVars
<1>2. ASSUME NEW p \in Recorders, pc'[p] \in {"denied", "corrupt"}
      PROVE  FALSE
  <2>1. p \in Processes /\ pc[p] \notin {"denied", "corrupt"} /\ pc' # pc
    BY <1>2 DEF Processes
  <2>2. PICK q \in Processes : Step(q) \/ Fail(q) \/ Crash(q)
    BY <2>1 DEF BootNext, bootVars, Checkpoint
  <2>3. \E l \in PCs : Goto(q, l)
    BY <2>2, Places DEF Step, Begin, CreateFile, Examine, Connect, Verify, Probe,
       Configure, Initialize, Reverify, DiscardLog, DiscardMain, Write, Fail, Crash, End
  <2>4. q = p
    BY <1>2, <2>1, <2>3 DEF Goto, BootInv, BootTypeOK
  <2>5. /\ path # 0 => path \in 1..MaxFiles /\ files[path].private
        /\ pc[p] \in Opening => path # 0
        /\ pc[p] = "reverify" => before[p] = path
        /\ pc[p] # "probe"
        /\ pc[p] = "examine" /\ ~creator[p] => files[path].header
    BY BootstrapAssumption DEF BootInv, BootTypeOK, HolderInv, WrittenInv, Opening
  <2>6. ASSUME NEW l, l \notin {"denied", "corrupt"}, Goto(p, l)
        PROVE  FALSE
    BY <1>2, <2>1, <2>6 DEF Goto, BootInv, BootTypeOK
  <2>7. CASE CreateFile(p)
    BY <2>5, <2>6, <2>7 DEF CreateFile, End
  <2>8. CASE Examine(p)
    BY <2>5, <2>6, <2>8 DEF Examine, End, Empty, Opening
  <2>9. CASE Probe(p)
    BY <2>5, <2>9 DEF Probe
  <2>10. CASE Reverify(p)
    BY <2>5, <2>6, <2>10 DEF Reverify, End
  <2>11. CASE Begin(p) \/ Connect(p) \/ Verify(p) \/ Configure(p)
    BY <2>6, <2>11 DEF Begin, Connect, Verify, Configure
  <2>12. CASE Initialize(p) \/ DiscardLog(p) \/ DiscardMain(p) \/ Write(p)
    BY <2>6, <2>12 DEF Initialize, DiscardLog, DiscardMain, Write, End
  <2>13. CASE Fail(p) \/ Crash(p)
    BY <2>6, <2>13 DEF Fail, Crash, End
  <2> QED
    BY <2>2, <2>4, <2>7, <2>8, <2>9, <2>10, <2>11, <2>12, <2>13 DEF Step
<1> QED
  BY <1>1, <1>2

\* Where the files SQLite creates are owner-only as well, no history of crashes and
\* failures leaves a file on which a later bootstrap is denied or reports
\* corruption.  (Without that umask one does: the run on it shows how.)
THEOREM NoDeletionNeeded ==
    ASSUME OwnerOnlyUmask
    PROVE  BootSpec => []NeverNeedsDeletion
<1>1. BootInit => UsableInv
  BY DEF BootInit, UsableInv, NeverNeedsDeletion, NewFile, Processes
<1>2. BootInv /\ UsableInv /\ [BootNext]_bootVars => UsableInv'
  BY StepUsable
<1>3. UsableInv => NeverNeedsDeletion
  BY DEF UsableInv
<1> QED
  BY <1>1, <1>2, <1>3, BootInvariant, PTL DEF BootSpec
=============================================================================
