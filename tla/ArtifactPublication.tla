------------------------- MODULE ArtifactPublication -------------------------
(***************************************************************************)
(* Publication of the evidence of a paid response (openrouter_real_e2e.py):*)
(* from a journal at response_received to provider-output-0.* and          *)
(* result.json in the challenge directory.  The executor that received the *)
(* response and any number of later finalizers run concurrently, and are   *)
(* killed at any point; somebody else may close the attempt meanwhile.     *)
(*                                                                         *)
(* A file is staged under a private name, linked at its final name unless  *)
(* that name is taken, and the staging link is removed.  A file is         *)
(* identified by who staged it and for which name; its link count is 2     *)
(* between the link and the removal.                                       *)
(***************************************************************************)
EXTENDS Naturals, FiniteSets

CONSTANTS
    Executors,          \* the call of execute_openrouter_real_e2e
    Finalizers,         \* calls of finalize_openrouter_real_e2e
    ReconcileAttempts,  \* _STAGING_RECONCILE_ATTEMPTS
    MaxFaults,          \* bound: how many journal or file-system calls fail
    ReadsFail,          \* TRUE: reading a published file may be what fails
    OthersClose,        \* TRUE: another journal writer may close the attempt
    Foreign             \* a file nobody here wrote

ASSUME PublicationAssumption ==
    /\ Executors \cap Finalizers = {}
    /\ ReconcileAttempts \in Nat \ {0}
    /\ MaxFaults \in Nat
    /\ ReadsFail \in BOOLEAN
    /\ OthersClose \in BOOLEAN
    /\ Foreign \notin (Executors \cup Finalizers) \X {"output", "result"}
    /\ Foreign # <<>>

VARIABLES
    head,         \* state of the attempt in the journal
    admissible,   \* whether the response's media can be admitted
    final,        \* the file each final name is linked to
    staged,       \* files whose staging link exists
    pc,           \* where each call is
    goal,         \* the name it works on, and why
    have,         \* names it found published and exact
    tries,        \* how often it sampled the link count
    verdict,      \* media admission, as it found it
    doc,          \* the result document it derived
    report,       \* what the call reports
    faults        \* calls that failed so far

journalOf == <<head, admissible>>
directory == <<final, staged>>
progress == <<goal, have, tries>>
evidence == <<verdict, doc>>
publicationVars == <<journalOf, directory, pc, progress, evidence, report, faults>>

Publishers == Executors \cup Finalizers

Heads == {"response_received", "succeeded", "failed"}

Outputs == {"output", "other_output"}       \* provider-output-0.png and .jpg
Names == Outputs \cup {"result"}

Inodes == Publishers \X {"output", "result"}

NoFile == <<>>
NoDoc == <<>>

Documents == [verdict : {"pass", "rejected"}, head : Heads]

Reports == {"none", "ok", "conflict", "not_ready", "clock_invalid", "io_failed",
            "invalid", "execution_failed", "scan_failed", "crashed"}

PCs == {"idle", "inspect_outputs", "recheck_outputs", "inspect_result",
        "recheck_result", "derive", "publish", "recover", "compose", "confirm",
        "list_outputs", "look", "list", "remove", "read", "stage", "link", "unlink",
        "scan", "ended"}

Materializing == {"look", "list", "remove", "read", "stage", "link", "unlink"}

-----------------------------------------------------------------------------
(* Helpers.                                                                 *)

Passes(p) == doc[p].verdict = "pass"

Links(f) == IF f \in staged THEN 2 ELSE 1

\* What a file at a name holds, and what a call would put there.
Bytes(f, n) == CASE f = NoFile -> <<>>
                 [] f = Foreign -> <<"foreign">>
                 [] OTHER -> IF n = "result" THEN <<"document", doc[f[1]]>>
                                             ELSE <<"image">>

Wanted(p, n) == Bytes(<<p, n>>, n)

Goto(p, l) == pc' = [pc EXCEPT ![p] = l]

\* The executor scans the directory for its credential before it returns.
Report(p, r) ==
    /\ report' = [report EXCEPT ![p] = r]
    /\ Goto(p, IF p \in Executors THEN "scan" ELSE "ended")

\* The `finally` of _write_compatible_private_artifact.
DropStage(p) == staged' = {f \in staged : f[1] # p}

Pursue(p, n, why) ==
    /\ goal' = [goal EXCEPT ![p] = [name |-> n, why |-> why]]
    /\ tries' = [tries EXCEPT ![p] = 0]
    /\ Goto(p, "look")
    /\ UNCHANGED report

PublicationInit ==
    /\ head = "response_received"
    /\ admissible \in BOOLEAN
    /\ \E planted \in SUBSET Names :
          final = [n \in Names |-> IF n \in planted THEN Foreign ELSE NoFile]
    /\ staged = {}
    /\ pc = [p \in Publishers |-> "idle"]
    /\ goal = [p \in Publishers |-> [name |-> "result", why |-> "check"]]
    /\ have = [p \in Publishers |-> {}]
    /\ tries = [p \in Publishers |-> 0]
    /\ verdict = [p \in Publishers |-> "none"]
    /\ doc = [p \in Publishers |-> NoDoc]
    /\ report = [p \in Publishers |-> "none"]
    /\ faults = 0

-----------------------------------------------------------------------------
(* From the journal to a document.                                          *)

Quietly == UNCHANGED <<journalOf, directory, progress, evidence, faults>>

\* The executor goes on with its response; a finalizer reads the state first.
Begin(p) ==
    /\ pc[p] = "idle"
    /\ \/ p \in Executors /\ Goto(p, "publish") /\ UNCHANGED report
       \/ /\ p \in Finalizers
          /\ \/ head = "succeeded" /\ Goto(p, "derive") /\ UNCHANGED report
             \/ head = "response_received" /\ Goto(p, "inspect_outputs")
                /\ UNCHANGED report
             \/ head = "failed" /\ Report(p, "not_ready")
    /\ Quietly

\* Files found while the journal said response_received: look again before
\* calling them foreign.
InspectOutputs(p) ==
    /\ pc[p] = "inspect_outputs"
    /\ Goto(p, IF \E n \in Outputs : final[n] # NoFile THEN "recheck_outputs"
               ELSE "inspect_result")
    /\ UNCHANGED report /\ Quietly

RecheckOutputs(p) ==
    /\ pc[p] = "recheck_outputs"
    /\ \/ head = "succeeded" /\ Goto(p, "derive") /\ UNCHANGED report
       \/ head = "response_received" /\ Report(p, "conflict")
       \/ head = "failed" /\ Report(p, "not_ready")
    /\ Quietly

\* Nothing was found: the finalizer samples its clock, which may fail or be behind
\* the last event; then it goes no further.
InspectResult(p) ==
    /\ pc[p] = "inspect_result"
    /\ \/ final["result"] # NoFile /\ Goto(p, "recheck_result") /\ UNCHANGED report
       \/ final["result"] = NoFile /\ Goto(p, "publish") /\ UNCHANGED report
       \/ final["result"] = NoFile /\ Report(p, "clock_invalid")
    /\ Quietly

RecheckResult(p) ==
    /\ pc[p] = "recheck_result"
    /\ \/ head # "failed" /\ Goto(p, "derive") /\ UNCHANGED report
       \/ head = "failed" /\ Report(p, "not_ready")
    /\ Quietly

Judge(p, v) ==
    /\ verdict' = [verdict EXCEPT ![p] = v]
    /\ Goto(p, "compose")
    /\ UNCHANGED <<report, doc>>

\* _finalized_provider_evidence without a time: nothing is published.  Anything
\* but a success or rejected media is not ready, which the caller, who found a
\* result before, turns into a conflict.
Derive(p) ==
    /\ pc[p] = "derive"
    /\ \/ head = "succeeded" /\ Judge(p, "pass")
       \/ head = "response_received" /\ ~admissible /\ Judge(p, "rejected")
       \/ /\ head = "failed" \/ (head = "response_received" /\ admissible)
          /\ Report(p, "conflict") /\ UNCHANGED evidence
    /\ UNCHANGED <<journalOf, directory, progress, faults>>

\* Faulty variant: the state is not read again.
RefusedFinally(p) ==
    /\ Report(p, IF p \in Executors THEN "execution_failed" ELSE "invalid")
    /\ UNCHANGED evidence

\* publish_provider_success raised something other than a rejection.
Refused(p) ==
    /\ IF p \in Executors THEN Report(p, "execution_failed")
                          ELSE Goto(p, "recover") /\ UNCHANGED report
    /\ UNCHANGED evidence

\* publish_provider_success: created, replayed, rejected, refused; or it fails,
\* with or without effect.
Publish(p) ==
    /\ pc[p] = "publish"
    /\ \/ head = "succeeded" /\ Judge(p, "pass") /\ UNCHANGED <<head, faults>>
       \/ head = "response_received" /\ admissible /\ Judge(p, "pass")
          /\ head' = "succeeded" /\ UNCHANGED faults
       \/ head = "response_received" /\ ~admissible /\ Judge(p, "rejected")
          /\ UNCHANGED <<head, faults>>
       \/ head = "failed" /\ Refused(p) /\ UNCHANGED <<head, faults>>
       \/ /\ faults < MaxFaults
          /\ faults' = faults + 1
          /\ Refused(p)
          /\ \/ UNCHANGED head
             \/ head = "response_received" /\ admissible /\ head' = "succeeded"
    /\ UNCHANGED <<admissible, directory, progress>>

\* Only a complete success package authorizes recovery.
Recover(p) ==
    /\ pc[p] = "recover"
    /\ \/ head = "succeeded" /\ Judge(p, "pass")
       \/ head = "response_received" /\ Report(p, "invalid") /\ UNCHANGED evidence
       \/ head = "failed" /\ Report(p, "not_ready") /\ UNCHANGED evidence
    /\ UNCHANGED <<journalOf, directory, progress, faults>>

\* The document carries the states read now, which may be later ones than those
\* the verdict was reached on.
Compose(p) ==
    /\ pc[p] = "compose"
    /\ doc' = [doc EXCEPT ![p] = [verdict |-> verdict[p], head |-> head]]
    /\ Goto(p, IF p \in Executors THEN "list_outputs" ELSE "confirm")
    /\ UNCHANGED <<journalOf, directory, progress, verdict, report, faults>>

\* A finalizer reads the states once more.
Confirm(p) ==
    /\ pc[p] = "confirm"
    /\ IF head = doc[p].head THEN Goto(p, "list_outputs") /\ UNCHANGED report
                             ELSE Report(p, "not_ready")
    /\ Quietly

-----------------------------------------------------------------------------
(* _materialize_finalized_evidence: both names are checked first, then the   *)
(* output is written before the result.                                      *)

ListOutputs(p) ==
    /\ pc[p] = "list_outputs"
    /\ LET expected == IF Passes(p) THEN {"output"} ELSE {}
       IN  IF \E n \in Outputs \ expected : final[n] # NoFile
             THEN Report(p, "conflict") /\ UNCHANGED progress
             ELSE /\ Pursue(p, IF Passes(p) THEN "output" ELSE "result", "check")
                  /\ UNCHANGED have
    /\ UNCHANGED <<journalOf, directory, evidence, faults>>

\* Faulty variant: the result is written first.
ResultFirst(p, found) ==
    LET missing == ((IF Passes(p) THEN {"output"} ELSE {}) \cup {"result"}) \ found
    IN  /\ have' = [have EXCEPT ![p] = found]
        /\ CASE "result" \in missing -> Pursue(p, "result", "write")
             [] missing = {"output"} -> Pursue(p, "output", "write")
             [] OTHER -> Report(p, "ok") /\ UNCHANGED <<goal, tries>>

\* What remains to be written, the output first.
WriteRest(p, found) ==
    LET missing == ((IF Passes(p) THEN {"output"} ELSE {}) \cup {"result"}) \ found
    IN  /\ have' = [have EXCEPT ![p] = found]
        /\ CASE "output" \in missing -> Pursue(p, "output", "write")
             [] missing = {"result"} -> Pursue(p, "result", "write")
             [] OTHER -> Report(p, "ok") /\ UNCHANGED <<goal, tries>>

\* The compatible file is there: the check or the write of this name is done.
Present(p) ==
    /\ LET found == have[p] \cup {goal[p].name}
       IN  IF goal[p].why = "check" /\ goal[p].name = "output"
             THEN Pursue(p, "result", "check") /\ have' = [have EXCEPT ![p] = found]
             ELSE WriteRest(p, found)
    /\ DropStage(p) /\ UNCHANGED final

\* It is not there.
Absent(p) ==
    \/ /\ goal[p].why = "check"
       /\ IF goal[p].name = "output" THEN Pursue(p, "result", "check") /\ UNCHANGED have
                                     ELSE WriteRest(p, have[p])
       /\ UNCHANGED directory
    \/ /\ goal[p].why = "write"
       /\ Goto(p, "stage") /\ UNCHANGED <<progress, report, directory>>
    \/ /\ goal[p].why \in {"exists", "gone"}
       /\ Report(p, "conflict") /\ DropStage(p) /\ UNCHANGED <<progress, final>>

Conflict(p) == Report(p, "conflict") /\ DropStage(p) /\ UNCHANGED <<progress, final>>

Settled == UNCHANGED <<journalOf, evidence, faults>>

\* _compatible_private_artifact: sample the link count, ...
Look(p) ==
    /\ pc[p] = "look"
    /\ LET f == final[goal[p].name]
       IN  IF f = NoFile THEN Absent(p)
           ELSE Goto(p, IF Links(f) = 1 THEN "read" ELSE "list")
                /\ UNCHANGED <<progress, report, directory>>
    /\ Settled

\* Faulty variant: a link count that nothing explains is a conflict at once.
ListOnce(p) ==
    /\ pc[p] = "list"
    /\ IF final[goal[p].name] \in staged
         THEN Goto(p, "remove") /\ UNCHANGED <<progress, report, directory>>
         ELSE Conflict(p)
    /\ Settled

\* ... enumerate the staging links; when they explain the count they are left
\* over from a crash or about to go, else sample again.
ListLinks(p) ==
    /\ pc[p] = "list"
    /\ IF final[goal[p].name] \in staged
         THEN Goto(p, "remove") /\ UNCHANGED <<progress, report, directory>>
         ELSE IF tries[p] + 1 < ReconcileAttempts
           THEN /\ tries' = [tries EXCEPT ![p] = @ + 1]
                /\ Goto(p, "look")
                /\ UNCHANGED <<goal, have, report, directory>>
           ELSE Conflict(p)
    /\ Settled

Remove(p) ==
    /\ pc[p] = "remove"
    /\ staged' = staged \ {final[goal[p].name]}
    /\ Goto(p, "read")
    /\ UNCHANGED <<final, progress, report>> /\ Settled

\* Faulty variant: what is there is taken for one's own.
ReadTrusting(p) == pc[p] = "read" /\ Present(p) /\ Settled

\* _secure_read_private_file and the comparison.
Read(p) ==
    /\ pc[p] = "read"
    /\ LET n == goal[p].name
       IN  IF Links(final[n]) = 1 /\ Bytes(final[n], n) = Wanted(p, n)
             THEN Present(p) ELSE Conflict(p)
    /\ Settled

\* _write_compatible_private_artifact: a complete staging file, ...
Stage(p) ==
    /\ pc[p] = "stage"
    /\ staged' = staged \cup {<<p, goal[p].name>>}
    /\ Goto(p, "link")
    /\ UNCHANGED <<final, progress, report>> /\ Settled

\* Faulty variant: rename, which replaces.
LinkReplacing(p) ==
    /\ pc[p] = "link"
    /\ final' = [final EXCEPT ![goal[p].name] = <<p, goal[p].name>>]
    /\ Goto(p, "unlink")
    /\ UNCHANGED <<staged, progress, report>> /\ Settled

\* ... linked unless the name is taken, ...
Link(p) ==
    /\ pc[p] = "link"
    /\ LET n == goal[p].name
       IN  IF final[n] = NoFile
             THEN /\ final' = [final EXCEPT ![n] = <<p, n>>]
                  /\ Goto(p, "unlink") /\ UNCHANGED <<progress, report>>
             ELSE Pursue(p, n, "exists") /\ UNCHANGED <<final, have>>
    /\ UNCHANGED staged /\ Settled

\* ... and the staging link removed, if a reader did not do it first.
Unlink(p) ==
    /\ pc[p] = "unlink"
    /\ LET n == goal[p].name
       IN  IF <<p, n>> \in staged
             THEN WriteRest(p, have[p] \cup {n}) /\ DropStage(p)
             ELSE Pursue(p, n, "gone") /\ UNCHANGED <<staged, have>>
    /\ UNCHANGED final /\ Settled

-----------------------------------------------------------------------------
(* The environment.                                                         *)

\* An I/O error.  A failed read of the published file is reported with the code
\* its caller gave it; the removal in the `finally` may fail as well.
Fail(p) ==
    /\ pc[p] \in Materializing \ {"read"} \/ (ReadsFail /\ pc[p] = "read")
    /\ faults < MaxFaults
    /\ faults' = faults + 1
    /\ Report(p, CASE pc[p] = "read" -> "conflict"
                  [] p \in Executors -> "execution_failed"
                  [] OTHER -> "io_failed")
    /\ DropStage(p) \/ UNCHANGED staged
    /\ UNCHANGED <<journalOf, final, progress, evidence>>

\* _scan_private_artifacts refuses what it cannot read as a single private
\* link, and a peer's staging link may come or go under it.
Scan(p) ==
    /\ pc[p] = "scan"
    /\ \/ UNCHANGED report
       \/ staged # {} /\ report' = [report EXCEPT ![p] = "scan_failed"]
    /\ Goto(p, "ended")
    /\ Quietly

\* A killed process leaves its staging link.
Crash(p) ==
    /\ pc[p] \notin {"idle", "ended"}
    /\ report' = [report EXCEPT ![p] = "crashed"]
    /\ Goto(p, "ended")
    /\ Quietly

\* Another journal writer closes the attempt.
TerminalWriter ==
    /\ OthersClose
    /\ head = "response_received"
    /\ head' = "failed"
    /\ UNCHANGED <<admissible, directory, pc, progress, evidence, report, faults>>

Step(p) ==
    \/ Begin(p) \/ InspectOutputs(p) \/ RecheckOutputs(p) \/ InspectResult(p)
    \/ RecheckResult(p) \/ Derive(p) \/ Publish(p) \/ Recover(p) \/ Compose(p)
    \/ Confirm(p) \/ ListOutputs(p) \/ Look(p) \/ ListLinks(p) \/ Remove(p) \/ Read(p)
    \/ Stage(p) \/ Link(p) \/ Unlink(p) \/ Scan(p)

PublicationNext ==
    \/ \E p \in Publishers : Step(p) \/ Fail(p) \/ Crash(p)
    \/ TerminalWriter

PublicationSpec == PublicationInit /\ [][PublicationNext]_publicationVars

-----------------------------------------------------------------------------
(* Properties.                                                              *)

\* Different bytes are never overwritten (INTERFACES.md, finalizer): what a final
\* name holds, it holds for good, however many publishers race for it.
NoClobber ==
    [][\A n \in Names :
          final[n] # NoFile => Bytes(final[n], n)' = Bytes(final[n], n)]_publicationVars

\* result.json is the completion marker: when it says the media passed, the
\* journal holds the success and the output file is there with its bytes, and no
\* output of another kind is.
IndexIsComplete ==
    \A p \in Publishers :
        (final["result"] = <<p, "result">> /\ Passes(p)) =>
            /\ head = "succeeded"
            /\ Bytes(final["output"], "output") = Wanted(p, "output")
            /\ final["other_output"] = NoFile

\* A call that reports success has its own document, complete, at the final name,
\* with no link besides the final one left of it.
OkIsPublished ==
    \A p \in Publishers :
        report[p] = "ok" =>
            /\ Bytes(final["result"], "result") = Wanted(p, "result")
            /\ Passes(p) => Bytes(final["output"], "output") = Wanted(p, "output")
            /\ final["result"] \notin staged

\* Somebody's file that is not what p wants there.
Divergent(p) ==
    \E n \in Names :
        \/ final[n] = Foreign
        \/ /\ doc[p] # NoDoc
           /\ final[n] # NoFile
           /\ IF n = "result" THEN Bytes(final[n], n) # Wanted(p, n) ELSE ~Passes(p)

\* A paid response stays recoverable, and errors mean what they say.  A call
\* reports a conflict only of divergent bytes or after somebody closed the
\* attempt as failed: never of a live peer between link and unlink, nor of the
\* remains of one killed there.  It gives up with not_ready only when the attempt
\* was closed, with invalid only when a call to the journal failed, with io_failed
\* only when one to the file system did.
ErrorsAreReal ==
    \A p \in Publishers :
        /\ report[p] = "conflict" => Divergent(p) \/ head = "failed"
        /\ report[p] = "not_ready" => head = "failed"
        /\ report[p] \in {"invalid", "io_failed"} => faults > 0
        /\ report[p] = "execution_failed" => faults > 0 \/ head = "failed"

\* The finalizer accepts only the heads response_received and succeeded
\* (INTERFACES.md, finalizer table): it publishes no result for any other.
PublishesAcceptedHead ==
    \A p \in Finalizers :
        final["result"] = <<p, "result">> => doc[p].head # "failed"
=============================================================================
