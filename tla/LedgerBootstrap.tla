--------------------------- MODULE LedgerBootstrap ---------------------------
(***************************************************************************)
(* First opening of the confirmation ledger's database file                *)
(* (StudioConfirmationLedger._connect and what it calls), by any number of  *)
(* processes.  record_session_authority opens under the bootstrap lock and  *)
(* may create the file; every other operation opens without the lock.      *)
(* Processes are killed, and SQLite or file-system calls fail, at any      *)
(* point.                                                                  *)
(*                                                                         *)
(* A file keeps what its main part holds apart from what a reader sees,    *)
(* which includes the write-ahead log: a commit is first in the log only.  *)
(***************************************************************************)
EXTENDS Naturals, FiniteSets

CONSTANTS
    Recorders,         \* calls of record_session_authority: they may bootstrap
    Openers,           \* calls of every other operation: they may not
    MaxFiles,          \* bound: how many files ever exist at the path
    Nobody,            \* holder of a free lock
    MaxFailures,       \* bound: how many calls fail with an exception
    OwnerOnlyUmask     \* TRUE: files SQLite creates are owner-only as well

ASSUME BootstrapAssumption ==
    /\ Recorders \cap Openers = {}
    /\ Nobody \notin Recorders \cup Openers
    /\ MaxFiles \in Nat \ {0}
    /\ MaxFailures \in Nat
    /\ OwnerOnlyUmask \in BOOLEAN

VARIABLES
    path,          \* which file the ledger's path names; 0 when none
    files,         \* every file that ever had that name
    created,       \* how many there were
    lock,          \* who holds the bootstrap lock
    pc,            \* where each call is; a final value is what it reports
    creator,       \* the local variable `created` of each call
    before,        \* the file it examined before opening
    conn,          \* the file its connection is open on
    acknowledged,  \* calls whose row was committed and acknowledged
    failures       \* calls that failed so far

bootVars == <<path, files, created, lock, pc, creator, before, conn, acknowledged,
              failures>>

Processes == Recorders \cup Openers

Finals == {"done", "refused", "denied", "corrupt", "failed", "crashed"}

PCs == {"idle", "create", "examine", "connect", "verify", "probe", "configure",
        "initialize", "reverify", "discard_log", "discard_main", "begin"} \cup Finals

-----------------------------------------------------------------------------
(* Files.                                                                   *)

NoSchema == [schema |-> FALSE, rows |-> {}]

NewFile(private) ==
    [private |-> private, header |-> FALSE, main |-> NoSchema, current |-> NoSchema]

\* Zero bytes: no header was written yet.
Empty(f) == ~f.header

\* Faulty variant: only a zero-byte file is adopted.
AdoptsEmptyOnly(f) == Empty(f)

\* Faulty variant: the write-ahead log is not consulted.
AdoptsUncheckpointed(f) == ~f.main.schema

\* _is_uninitialized_remnant: no committed object is visible to a reader.
Uninitialized(f) == ~f.current.schema

\* The file a call's connection is open on.
Here(p) == files[conn[p]]

Goto(p, l) == pc' = [pc EXCEPT ![p] = l]

\* Leaving _bootstrap_lock, or never having been in it.
Release(p) == lock' = IF lock = p THEN Nobody ELSE lock

End(p, report) == Goto(p, report) /\ Release(p)

BootInit ==
    /\ path = 0
    /\ files = [i \in 1..MaxFiles |-> NewFile(TRUE)]
    /\ created = 0
    /\ lock = Nobody
    /\ pc = [p \in Processes |-> "idle"]
    /\ creator = [p \in Processes |-> FALSE]
    /\ before = [p \in Processes |-> 0]
    /\ conn = [p \in Processes |-> 0]
    /\ acknowledged = {}
    /\ failures = 0

\* A new file takes the path.
Create(private) ==
    /\ created < MaxFiles
    /\ created' = created + 1
    /\ path' = created + 1
    /\ files' = [files EXCEPT ![created + 1] = NewFile(private)]

-----------------------------------------------------------------------------
(* Opening.                                                                 *)

\* A recorder takes the bootstrap lock; any other operation goes on without.
Begin(p) ==
    /\ pc[p] = "idle"
    /\ \/ p \in Recorders /\ lock = Nobody /\ lock' = p /\ Goto(p, "create")
       \/ p \in Openers /\ Goto(p, "examine") /\ UNCHANGED lock
    /\ UNCHANGED <<path, files, created, creator, before, conn, acknowledged, failures>>

\* _create_file: O_CREAT | O_EXCL, or the verdict on the file that is there.
CreateFile(p) ==
    /\ pc[p] = "create"
    /\ \/ /\ path = 0
          /\ Create(TRUE)
          /\ creator' = [creator EXCEPT ![p] = TRUE]
          /\ Goto(p, "examine") /\ UNCHANGED lock
       \/ /\ path # 0
          /\ files[path].private
          /\ creator' = [creator EXCEPT ![p] = Uninitialized(files[path])]
          /\ Goto(p, "examine") /\ UNCHANGED <<path, files, created, lock>>
       \/ /\ path # 0
          /\ ~files[path].private
          /\ End(p, "denied") /\ UNCHANGED <<path, files, created, creator>>
    /\ UNCHANGED <<before, conn, acknowledged, failures>>

\* exists, _validate_file and the first lstat.
Examine(p) ==
    /\ pc[p] = "examine"
    /\ IF path # 0 /\ files[path].private /\ (Empty(files[path]) => creator[p])
         THEN /\ before' = [before EXCEPT ![p] = path]
              /\ Goto(p, "connect") /\ UNCHANGED lock
         ELSE End(p, "denied") /\ UNCHANGED before
    /\ UNCHANGED <<path, files, created, creator, conn, acknowledged, failures>>

\* sqlite3.connect opens what the path names now, and creates it when there is
\* nothing: with the permissions the umask leaves.
Connect(p) ==
    /\ pc[p] = "connect"
    /\ IF path # 0 THEN UNCHANGED <<path, files, created>> ELSE Create(OwnerOnlyUmask)
    /\ conn' = [conn EXCEPT ![p] = path']
    /\ Goto(p, IF creator[p] THEN "configure" ELSE "verify")
    /\ UNCHANGED <<lock, creator, before, acknowledged, failures>>

\* _verify_metadata on a file this call did not create.
Verify(p) ==
    /\ pc[p] = "verify"
    /\ Goto(p, IF Here(p).current.schema THEN "reverify" ELSE "probe")
    /\ UNCHANGED <<path, files, created, lock, creator, before, conn, acknowledged,
                   failures>>

\* The metadata did not match: a remnant is denied, anything else is corrupt.
Probe(p) ==
    /\ pc[p] = "probe"
    /\ End(p, IF Uninitialized(Here(p)) THEN "denied" ELSE "corrupt")
    /\ UNCHANGED <<path, files, created, creator, before, conn, acknowledged, failures>>

\* _configure_durability: WAL mode writes the header.
Configure(p) ==
    /\ pc[p] = "configure"
    /\ files' = [files EXCEPT ![conn[p]].header = TRUE]
    /\ Goto(p, "initialize")
    /\ UNCHANGED <<path, created, lock, creator, before, conn, acknowledged, failures>>

\* _initialize_schema commits every object at once, or fails because a table
\* exists already; a failure of a creator discards.
Initialize(p) ==
    /\ pc[p] = "initialize"
    /\ IF Here(p).current.schema
         THEN Goto(p, "discard_log") /\ UNCHANGED files
         ELSE /\ files' = [files EXCEPT ![conn[p]].current.schema = TRUE]
              /\ Goto(p, "reverify")
    /\ UNCHANGED <<path, created, lock, creator, before, conn, acknowledged, failures>>

\* The second _verify_metadata and the second lstat.
Reverify(p) ==
    /\ pc[p] = "reverify"
    /\ IF path = before[p]
         THEN Goto(p, "begin") /\ Release(p)
         ELSE IF creator[p] THEN Goto(p, "discard_log") /\ UNCHANGED lock
                            ELSE End(p, "denied")
    /\ UNCHANGED <<path, files, created, creator, before, conn, acknowledged, failures>>

\* An exception while the file is opened: only a creator discards.
Fail(p) ==
    /\ pc[p] \in {"connect", "verify", "configure", "initialize", "reverify"}
    /\ failures < MaxFailures
    /\ failures' = failures + 1
    /\ IF creator[p] THEN Goto(p, "discard_log") /\ UNCHANGED lock ELSE End(p, "failed")
    /\ UNCHANGED <<path, files, created, creator, before, conn, acknowledged>>

\* _discard_failed_new_ledger: the log first, whatever it holds, ...
DiscardLog(p) ==
    /\ pc[p] = "discard_log"
    /\ files' = IF path = 0 THEN files
                ELSE [files EXCEPT ![path].current = files[path].main]
    /\ Goto(p, "discard_main")
    /\ UNCHANGED <<path, created, lock, creator, before, conn, acknowledged, failures>>

\* ... then whatever file has the path.
DiscardMain(p) ==
    /\ pc[p] = "discard_main"
    /\ path' = 0
    /\ End(p, "failed")
    /\ UNCHANGED <<files, created, creator, before, conn, acknowledged, failures>>

-----------------------------------------------------------------------------
(* Using the open connection.                                               *)

\* One BEGIN IMMEDIATE transaction on the file the connection is open on.  A
\* recorder inserts its authority; every other row needs an authority row to
\* be there.  A read ends like a refusal: it changes nothing.
Write(p) ==
    /\ pc[p] = "begin"
    /\ IF Here(p).current.schema /\ (p \in Recorders \/ Here(p).current.rows # {})
         THEN /\ files' = [files EXCEPT ![conn[p]].current.rows = @ \cup {p}]
              /\ acknowledged' = acknowledged \cup {p}
              /\ Goto(p, "done")
         ELSE Goto(p, "refused") /\ UNCHANGED <<files, acknowledged>>
    /\ UNCHANGED <<path, created, lock, creator, before, conn, failures>>

\* SQLite moves the log into the main file when it likes.
Checkpoint ==
    /\ path # 0
    /\ files[path].main # files[path].current
    /\ files' = [files EXCEPT ![path].main = files[path].current]
    /\ UNCHANGED <<path, created, lock, pc, creator, before, conn, acknowledged, failures>>

\* A killed process; the kernel drops its lock.
Crash(p) ==
    /\ pc[p] \notin Finals \cup {"idle"}
    /\ End(p, "crashed")
    /\ UNCHANGED <<path, files, created, creator, before, conn, acknowledged, failures>>

Step(p) ==
    \/ Begin(p) \/ CreateFile(p) \/ Examine(p) \/ Connect(p) \/ Verify(p) \/ Probe(p)
    \/ Configure(p) \/ Initialize(p) \/ Reverify(p) \/ DiscardLog(p) \/ DiscardMain(p)
    \/ Write(p)

BootNext ==
    \/ \E p \in Processes : Step(p) \/ Fail(p) \/ Crash(p)
    \/ Checkpoint

BootSpec == BootInit /\ [][BootNext]_bootVars

-----------------------------------------------------------------------------
(* Properties.                                                              *)

\* An acknowledged row is in the file the path names, for good: neither the
\* adoption of a remnant, nor the clean-up after a failed bootstrap, nor an
\* operation holding a connection to a file that was discarded meanwhile, can
\* lose one.
AcknowledgedStays ==
    acknowledged # {} => path # 0 /\ acknowledged \subseteq files[path].current.rows

\* An interrupted bootstrap never needs out-of-band deletion (INTERFACES.md,
\* ledger section): no history of crashes and failures leaves a file at the path
\* on which a later bootstrap would be denied or report corruption.
NeverNeedsDeletion == \A p \in Recorders : pc[p] \notin {"denied", "corrupt"}
=============================================================================
