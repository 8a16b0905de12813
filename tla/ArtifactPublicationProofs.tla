---------------------- MODULE ArtifactPublicationProofs ----------------------
(***************************************************************************)
(* What holds of artifact publication for any number of executors,         *)
(* finalizers, failures and kills, and whatever else closes the attempt.   *)
(*                                                                         *)
(* Everything rests on three facts that no step undoes: a final name keeps *)
(* the file linked to it, a call keeps the document it derived, and the    *)
(* staging link of a published file never comes back.  So what a call has  *)
(* found or written once it may rely on, whatever its peers do meanwhile.  *)
(***************************************************************************)
EXTENDS ArtifactPublication, TLAPS

\* Where a call may be once a file of its own is at a final name.
Late == Materializing \cup {"scan", "ended"}

\* Where it is before it has derived a document.
Deriving == {"idle", "inspect_outputs", "recheck_outputs", "inspect_result",
             "recheck_result", "derive", "publish", "recover", "compose"}

Goals == [name : {"output", "result"}, why : {"check", "write", "exists", "gone"}]

DiskTypeOK ==
    /\ head \in Heads
    /\ admissible \in BOOLEAN
    /\ final \in [Names -> Inodes \cup {Foreign, NoFile}]
    /\ staged \subseteq Inodes
    /\ faults \in Nat

EvidenceTypeOK ==
    /\ verdict \in [Publishers -> {"none", "pass", "rejected"}]
    /\ doc \in [Publishers -> Documents \cup {NoDoc}]

ProgressTypeOK ==
    /\ pc \in [Publishers -> PCs]
    /\ goal \in [Publishers -> Goals]
    /\ have \in [Publishers -> SUBSET {"output", "result"}]
    /\ tries \in [Publishers -> Nat]
    /\ report \in [Publishers -> Reports]

PublicationTypeOK == DiskTypeOK /\ EvidenceTypeOK /\ ProgressTypeOK

\* The journal and the media agree, and so do verdicts reached on them: only
\* admissible media succeed, and a success is never taken back.
JudgedInv(p) ==
    /\ verdict[p] = "pass" => head = "succeeded"
    /\ verdict[p] = "rejected" => ~admissible
    /\ pc[p] = "compose" => verdict[p] # "none"
    /\ doc[p] # NoDoc => /\ doc[p].verdict = verdict[p] /\ verdict[p] # "none"
                         /\ head \in {doc[p].head, "failed"}
    /\ pc[p] \in Deriving => doc[p] = NoDoc
    /\ pc[p] \in Materializing \cup {"confirm", "list_outputs"} => doc[p] # NoDoc

\* What a call saw on its way still is so.
SeenInv(p) ==
    /\ pc[p] = "recheck_outputs" => \E n \in Outputs : final[n] # NoFile
    /\ pc[p] = "recheck_result" => final["result"] # NoFile
    /\ pc[p] = "derive" => head = "succeeded" \/ final["result"] # NoFile
    /\ pc[p] = "recover" => faults > 0 \/ head = "failed"

\* A name a call has done with holds what it wants there, with one link.
HaveInv(p) ==
    \A n \in have[p] :
        /\ doc[p] # NoDoc
        /\ final[n] # NoFile
        /\ Bytes(final[n], n) = Wanted(p, n)
        /\ final[n] \notin staged

\* Where a call is in its work on a name.
WorkInv(p) ==
    LET n == goal[p].name
    IN  pc[p] \in Materializing =>
            /\ final["other_output"] = NoFile
            /\ n = "output" => Passes(p)
            /\ n = "result" /\ goal[p].why # "check" /\ Passes(p) => "output" \in have[p]
            /\ \/ goal[p].why \in {"exists", "gone"}
               \/ pc[p] \in {"list", "remove", "read"}
               \/ tries[p] > 0
               => final[n] # NoFile
            /\ pc[p] = "list" => tries[p] = 0
            /\ pc[p] = "read" \/ tries[p] > 0 => final[n] \notin staged
            /\ pc[p] \in {"stage", "link"} => goal[p].why = "write" /\ final[n] # <<p, n>>
            /\ pc[p] = "unlink" => goal[p].why = "write" /\ final[n] = <<p, n>>

\* A report is made last, and an "ok" only with everything done.
ReportedInv(p) ==
    /\ report[p] # "none" => pc[p] \in {"scan", "ended"}
    /\ report[p] = "ok" => /\ doc[p] # NoDoc
                           /\ "result" \in have[p]
                           /\ Passes(p) => "output" \in have[p]

\* A file at a final name is of a call that has its document, and a result that
\* says the media passed has an output beside it.
FilesInv ==
    /\ final["other_output"] \in {Foreign, NoFile}
    /\ \A n \in {"output", "result"}, p \in Publishers :
          <<p, n>> = final[n] =>
             /\ pc[p] \in Late
             /\ doc[p] # NoDoc
             /\ final["other_output"] = NoFile
             /\ n = "output" => Passes(p)
             /\ Passes(p) => final["output"] \in Inodes
    /\ \A n \in Names : final[n] \in Inodes => final[n][2] = n

PublicationInv ==
    /\ PublicationTypeOK
    /\ head = "succeeded" => admissible
    /\ FilesInv
    /\ \A p \in Publishers :
          JudgedInv(p) /\ SeenInv(p) /\ HaveInv(p) /\ WorkInv(p) /\ ReportedInv(p)

-----------------------------------------------------------------------------
(* What a step of one call can do to everything else.                       *)

Frame(p) ==
    /\ \A q \in Publishers \ {p} :
          /\ pc'[q] = pc[q] /\ goal'[q] = goal[q] /\ have'[q] = have[q]
          /\ tries'[q] = tries[q] /\ verdict'[q] = verdict[q]
          /\ doc'[q] = doc[q] /\ report'[q] = report[q]
    /\ doc'[p] = doc[p] \/ pc[p] = "compose"
    /\ pc[p] \in Late => pc'[p] \in Late
    /\ \A n \in Names :
          \/ final'[n] = final[n]
          \/ /\ pc[p] = "link" /\ n = goal[p].name
             /\ final[n] = NoFile /\ final'[n] = <<p, n>>
    /\ \A f \in staged' : f \in staged \/ (pc[p] = "stage" /\ f = <<p, goal[p].name>>)
    /\ \/ head' = head
       \/ head = "response_received" /\ admissible /\ head' = "succeeded"
    /\ admissible' = admissible
    /\ faults' \in {faults, faults + 1}

LEMMA RestCases ==
    ASSUME NEW p \in Publishers, NEW found, WriteRest(p, found)
    PROVE  /\ have' = [have EXCEPT ![p] = found]
           /\ \/ /\ Passes(p) /\ "output" \notin found
                 /\ Pursue(p, "output", "write")
              \/ /\ Passes(p) => "output" \in found
                 /\ Pursue(p, "result", "write")
              \/ /\ Passes(p) => "output" \in found
                 /\ "result" \in found
                 /\ Report(p, "ok") /\ UNCHANGED <<goal, tries>>
  BY DEF WriteRest

LEMMA GotoTyped ==
    ASSUME ProgressTypeOK, NEW p \in Publishers, NEW l \in PCs, Goto(p, l)
    PROVE  pc' \in [Publishers -> PCs]
  BY DEF ProgressTypeOK, Goto

LEMMA ReportTyped ==
    ASSUME ProgressTypeOK, NEW p \in Publishers, NEW r \in Reports, Report(p, r)
    PROVE  report' \in [Publishers -> Reports] /\ pc' \in [Publishers -> PCs]
  BY DEF ProgressTypeOK, Report, Goto, PCs

LEMMA PursueTyped ==
    ASSUME ProgressTypeOK, NEW p \in Publishers, NEW n \in {"output", "result"},
           NEW why \in {"check", "write", "exists", "gone"}, Pursue(p, n, why),
           have' \in [Publishers -> SUBSET {"output", "result"}]
    PROVE  ProgressTypeOK'
<1>1. goal' \in [Publishers -> Goals]
  BY DEF ProgressTypeOK, Pursue, Goals
<1>2. tries' \in [Publishers -> Nat] /\ pc' \in [Publishers -> PCs] /\ report' = report
  BY DEF ProgressTypeOK, Pursue, Goto, PCs
<1> QED
  BY <1>1, <1>2 DEF ProgressTypeOK

LEMMA RestTyped ==
    ASSUME ProgressTypeOK, NEW p \in Publishers, NEW found \in SUBSET {"output", "result"},
           WriteRest(p, found)
    PROVE  ProgressTypeOK'
<1>1. have' \in [Publishers -> SUBSET {"output", "result"}]
  <2>1. have' = [have EXCEPT ![p] = found]
    BY RestCases
  <2> QED
    BY <2>1 DEF ProgressTypeOK
<1>2. CASE Pursue(p, "output", "write") \/ Pursue(p, "result", "write")
  BY <1>1, <1>2, PursueTyped
<1>3. CASE Report(p, "ok") /\ UNCHANGED <<goal, tries>>
  BY <1>1, <1>3, ReportTyped DEF ProgressTypeOK, Reports
<1> QED
  BY <1>2, <1>3, RestCases

LEMMA PresentTyped ==
    ASSUME ProgressTypeOK, NEW p \in Publishers, Present(p)
    PROVE  ProgressTypeOK'
<1> DEFINE found == have[p] \cup {goal[p].name}
<1>1. found \in SUBSET {"output", "result"}
  BY DEF ProgressTypeOK, Goals
<1>2. CASE Pursue(p, "result", "check") /\ have' = [have EXCEPT ![p] = found]
  <2>1. have' \in [Publishers -> SUBSET {"output", "result"}]
    BY <1>1, <1>2 DEF ProgressTypeOK
  <2> QED
    BY <1>2, <2>1, PursueTyped
<1>3. CASE WriteRest(p, found)
  BY <1>1, <1>3, RestTyped
<1> QED
  BY <1>2, <1>3 DEF Present

LEMMA AbsentTyped ==
    ASSUME ProgressTypeOK, NEW p \in Publishers, Absent(p)
    PROVE  ProgressTypeOK'
<1>1. have[p] \in SUBSET {"output", "result"}
  BY DEF ProgressTypeOK
<1>2. CASE Pursue(p, "result", "check") /\ UNCHANGED have
  BY <1>2, PursueTyped DEF ProgressTypeOK
<1>3. CASE WriteRest(p, have[p])
  BY <1>1, <1>3, RestTyped
<1>4. CASE Goto(p, "stage") /\ UNCHANGED <<progress, report>>
  BY <1>4, GotoTyped DEF ProgressTypeOK, progress, PCs
<1>5. CASE Report(p, "conflict") /\ UNCHANGED progress
  BY <1>5, ReportTyped DEF ProgressTypeOK, progress, Reports
<1> QED
  BY <1>2, <1>3, <1>4, <1>5 DEF Absent

LEMMA CallTypeOK ==
    ASSUME PublicationTypeOK, NEW p \in Publishers, Step(p) \/ Fail(p) \/ Crash(p),
           pc[p] = "compose" => verdict[p] # "none"
    PROVE  PublicationTypeOK'
<1> USE DEF PublicationTypeOK, directory, progress, evidence, journalOf
<1>1. DiskTypeOK'
  <2> USE DEF DiskTypeOK, Heads, Inodes, Names, Outputs
  <2>1. CASE Begin(p)
    BY <2>1 DEF Begin, DropStage, Settled, Quietly
  <2>2. CASE InspectOutputs(p)
    BY <2>2 DEF InspectOutputs, DropStage, Settled, Quietly
  <2>3. CASE RecheckOutputs(p)
    BY <2>3 DEF RecheckOutputs, DropStage, Settled, Quietly
  <2>4. CASE InspectResult(p)
    BY <2>4 DEF InspectResult, DropStage, Settled, Quietly
  <2>5. CASE RecheckResult(p)
    BY <2>5 DEF RecheckResult, DropStage, Settled, Quietly
  <2>6. CASE Derive(p)
    BY <2>6 DEF Derive, DropStage, Settled, Quietly
  <2>7. CASE Publish(p)
    BY <2>7 DEF Publish, Refused, Judge
  <2>8. CASE Recover(p)
    BY <2>8 DEF Recover, DropStage, Settled, Quietly
  <2>9. CASE Compose(p)
    BY <2>9 DEF Compose, DropStage, Settled, Quietly
  <2>10. CASE Confirm(p)
    BY <2>10 DEF Confirm, DropStage, Settled, Quietly
  <2>11. CASE ListOutputs(p)
    BY <2>11 DEF ListOutputs, DropStage, Settled, Quietly
  <2>12. CASE Look(p)
    BY <2>12 DEF Look, Absent, DropStage, Settled
  <2>13. CASE ListLinks(p)
    BY <2>13 DEF ListLinks, Conflict, DropStage, Settled
  <2>14. CASE Remove(p)
    BY <2>14 DEF Remove, DropStage, Settled, Quietly
  <2>15. CASE Read(p)
    BY <2>15 DEF Read, Present, Conflict, DropStage, Settled
  <2>16. CASE Stage(p)
    BY <2>16 DEF Stage, DropStage, Settled, Quietly, ProgressTypeOK, Goals
  <2>17. CASE Link(p)
    <3>1. goal[p].name \in Names /\ <<p, goal[p].name>> \in Inodes
      BY DEF ProgressTypeOK, Goals
    <3>2. \/ UNCHANGED final
          \/ final' = [final EXCEPT ![goal[p].name] = <<p, goal[p].name>>]
      BY <2>17 DEF Link
    <3>3. final' \in [Names -> Inodes \cup {Foreign, NoFile}]
      BY <3>1, <3>2
    <3>4. UNCHANGED <<journalOf, staged, faults>>
      BY <2>17 DEF Link, Settled
    <3> QED
      BY <3>3, <3>4
  <2>18. CASE Unlink(p)
    BY <2>18 DEF Unlink, DropStage, Settled
  <2>19. CASE Scan(p)
    BY <2>19 DEF Scan, DropStage, Settled, Quietly
  <2>20. CASE Fail(p)
    BY <2>20 DEF Fail, DropStage, Settled, Quietly
  <2>21. CASE Crash(p)
    BY <2>21 DEF Crash, DropStage, Settled, Quietly
  <2> QED
    BY <2>1, <2>2, <2>3, <2>4, <2>5, <2>6, <2>7, <2>8, <2>9, <2>10, <2>11, <2>12, <2>13, <2>14,
       <2>15, <2>16, <2>17, <2>18, <2>19, <2>20, <2>21 DEF Step
<1>2. EvidenceTypeOK'
  <2> USE DEF EvidenceTypeOK, DiskTypeOK, Documents, Heads
  <2>1. CASE Begin(p)
    BY <2>1 DEF Begin, Judge, Refused, Settled, Quietly
  <2>2. CASE InspectOutputs(p)
    BY <2>2 DEF InspectOutputs, Judge, Refused, Settled, Quietly
  <2>3. CASE RecheckOutputs(p)
    BY <2>3 DEF RecheckOutputs, Judge, Refused, Settled, Quietly
  <2>4. CASE InspectResult(p)
    BY <2>4 DEF InspectResult, Judge, Refused, Settled, Quietly
  <2>5. CASE RecheckResult(p)
    BY <2>5 DEF RecheckResult, Judge, Refused, Settled, Quietly
  <2>6. CASE Derive(p)
    BY <2>6 DEF Derive, Judge, Refused, Settled, Quietly
  <2>7. CASE Publish(p)
    BY <2>7 DEF Publish, Judge, Refused, Settled, Quietly
  <2>8. CASE Recover(p)
    BY <2>8 DEF Recover, Judge, Refused, Settled, Quietly
  <2>9. CASE Compose(p)
    <3>1. verdict[p] \in {"pass", "rejected"}
      BY <2>9 DEF Compose
    <3>2. [verdict |-> verdict[p], head |-> head] \in Documents
      BY <3>1
    <3> QED
      BY <2>9, <3>2 DEF Compose
  <2>10. CASE Confirm(p)
    BY <2>10 DEF Confirm, Judge, Refused, Settled, Quietly
  <2>11. CASE ListOutputs(p)
    BY <2>11 DEF ListOutputs, Judge, Refused, Settled, Quietly
  <2>12. CASE Look(p)
    BY <2>12 DEF Look, Judge, Refused, Settled, Quietly
  <2>13. CASE ListLinks(p)
    BY <2>13 DEF ListLinks, Judge, Refused, Settled, Quietly
  <2>14. CASE Remove(p)
    BY <2>14 DEF Remove, Judge, Refused, Settled, Quietly
  <2>15. CASE Read(p)
    BY <2>15 DEF Read, Judge, Refused, Settled, Quietly
  <2>16. CASE Stage(p)
    BY <2>16 DEF Stage, Judge, Refused, Settled, Quietly
  <2>17. CASE Link(p)
    BY <2>17 DEF Link, Judge, Refused, Settled, Quietly
  <2>18. CASE Unlink(p)
    BY <2>18 DEF Unlink, Judge, Refused, Settled, Quietly
  <2>19. CASE Scan(p)
    BY <2>19 DEF Scan, Judge, Refused, Settled, Quietly
  <2>20. CASE Fail(p)
    BY <2>20 DEF Fail, Judge, Refused, Settled, Quietly
  <2>21. CASE Crash(p)
    BY <2>21 DEF Crash, Judge, Refused, Settled, Quietly
  <2> QED
    BY <2>1, <2>2, <2>3, <2>4, <2>5, <2>6, <2>7, <2>8, <2>9, <2>10, <2>11, <2>12, <2>13, <2>14,
       <2>15, <2>16, <2>17, <2>18, <2>19, <2>20, <2>21 DEF Step
<1>3. ProgressTypeOK'
  <2> USE ReportTyped, GotoTyped DEF PCs, Reports
  <2>1. CASE Begin(p)
    BY <2>1 DEF Begin, Quietly, Report, Goto, ProgressTypeOK
  <2>2. CASE InspectOutputs(p)
    BY <2>2 DEF InspectOutputs, Quietly, Goto, ProgressTypeOK
  <2>3. CASE RecheckOutputs(p)
    BY <2>3 DEF RecheckOutputs, Quietly, Report, Goto, ProgressTypeOK
  <2>4. CASE InspectResult(p)
    BY <2>4 DEF InspectResult, Quietly, Report, Goto, ProgressTypeOK
  <2>5. CASE RecheckResult(p)
    BY <2>5 DEF RecheckResult, Quietly, Report, Goto, ProgressTypeOK
  <2>6. CASE Derive(p)
    BY <2>6 DEF Derive, Judge, Report, Goto, ProgressTypeOK
  <2>7. CASE Publish(p)
    BY <2>7 DEF Publish, Judge, Refused, Report, Goto, ProgressTypeOK
  <2>8. CASE Recover(p)
    BY <2>8 DEF Recover, Judge, Report, Goto, ProgressTypeOK
  <2>9. CASE Compose(p)
    BY <2>9 DEF Compose, Goto, ProgressTypeOK
  <2>10. CASE Confirm(p)
    BY <2>10 DEF Confirm, Quietly, Report, Goto, ProgressTypeOK
  <2>11. CASE ListOutputs(p)
    BY <2>11, PursueTyped DEF ListOutputs, ProgressTypeOK
  <2>12. CASE Look(p)
    BY <2>12, AbsentTyped DEF Look, ProgressTypeOK
  <2>13. CASE ListLinks(p)
    BY <2>13 DEF ListLinks, Conflict, ProgressTypeOK, Goto
  <2>14. CASE Remove(p)
    BY <2>14 DEF Remove, Goto, Settled, ProgressTypeOK
  <2>15. CASE Read(p)
    BY <2>15, PresentTyped DEF Read, Conflict, ProgressTypeOK
  <2>16. CASE Stage(p)
    BY <2>16 DEF Stage, Goto, Settled, ProgressTypeOK
  <2>17. CASE Link(p)
    BY <2>17, PursueTyped DEF Link, ProgressTypeOK, Goals, Goto
  <2>18. CASE Unlink(p)
    BY <2>18, RestTyped, PursueTyped DEF Unlink, ProgressTypeOK, Goals
  <2>19. CASE Scan(p)
    BY <2>19 DEF Scan, Quietly, Goto, ProgressTypeOK
  <2>20. CASE Fail(p)
    BY <2>20 DEF Fail, Report, Goto, DropStage, ProgressTypeOK
  <2>21. CASE Crash(p)
    BY <2>21 DEF Crash, Quietly, Goto, ProgressTypeOK
  <2> QED
    BY <2>1, <2>2, <2>3, <2>4, <2>5, <2>6, <2>7, <2>8, <2>9, <2>10, <2>11, <2>12, <2>13, <2>14,
       <2>15, <2>16, <2>17, <2>18, <2>19, <2>20, <2>21 DEF Step
<1> QED
  BY <1>1, <1>2, <1>3

LEMMA CallFrame ==
    ASSUME PublicationTypeOK, NEW p \in Publishers, Step(p) \/ Fail(p) \/ Crash(p)
    PROVE  Frame(p)
<1> USE DEF PublicationTypeOK, DiskTypeOK, ProgressTypeOK, EvidenceTypeOK, Frame, PCs, Names,
    Outputs, Late, Materializing, Goals, directory, progress, evidence, journalOf
<1>1. CASE Begin(p)
  BY <1>1 DEF Begin, Quietly, Report, Goto
<1>2. CASE InspectOutputs(p)
  BY <1>2 DEF InspectOutputs, Quietly, Goto
<1>3. CASE RecheckOutputs(p)
  BY <1>3 DEF RecheckOutputs, Quietly, Report, Goto
<1>4. CASE InspectResult(p)
  BY <1>4 DEF InspectResult, Quietly, Report, Goto
<1>5. CASE RecheckResult(p)
  BY <1>5 DEF RecheckResult, Quietly, Report, Goto
<1>6. CASE Derive(p)
  BY <1>6 DEF Derive, Judge, Report, Goto
<1>7. CASE Publish(p)
  BY <1>7 DEF Publish, Judge, Refused, Report, Goto
<1>8. CASE Recover(p)
  BY <1>8 DEF Recover, Judge, Report, Goto
<1>9. CASE Compose(p)
  BY <1>9 DEF Compose, Goto
<1>10. CASE Confirm(p)
  BY <1>10 DEF Confirm, Quietly, Report, Goto
<1>11. CASE ListOutputs(p)
  BY <1>11 DEF ListOutputs, Pursue, Report, Goto
<1>12. CASE Look(p)
  BY <1>12 DEF Look, Absent, WriteRest, Pursue, Report, Goto, DropStage, Settled
<1>13. CASE ListLinks(p)
  BY <1>13 DEF ListLinks, Conflict, Report, Goto, DropStage, Settled
<1>14. CASE Remove(p)
  BY <1>14 DEF Remove, Goto, Settled
<1>15. CASE Read(p)
  BY <1>15 DEF Read, Present, Conflict, WriteRest, Pursue, Report, Goto, DropStage, Settled
<1>16. CASE Stage(p)
  BY <1>16 DEF Stage, Goto, Settled
<1>17. CASE Link(p)
  BY <1>17 DEF Link, Pursue, Goto, Settled
<1>18. CASE Unlink(p)
  BY <1>18 DEF Unlink, WriteRest, Pursue, Report, Goto, DropStage, Settled
<1>19. CASE Scan(p)
  BY <1>19 DEF Scan, Quietly, Goto
<1>20. CASE Fail(p)
  BY <1>20 DEF Fail, Report, Goto, DropStage
<1>21. CASE Crash(p)
  BY <1>21 DEF Crash, Quietly, Goto
<1> QED
  BY <1>1, <1>2, <1>3, <1>4, <1>5, <1>6, <1>7, <1>8, <1>9, <1>10, <1>11, <1>12, <1>13, <1>14,
     <1>15, <1>16, <1>17, <1>18, <1>19, <1>20, <1>21 DEF Step


-----------------------------------------------------------------------------
(* What no step undoes.                                                     *)

\* A published file, its bytes and its lack of a staging link last, as a
\* derived document does; the journal only goes forward.
Lasting ==
    /\ \A n \in Names : final[n] # NoFile =>
          /\ final'[n] = final[n]
          /\ Bytes(final[n], n)' = Bytes(final[n], n)
          /\ final[n] \notin staged => final'[n] \notin staged'
    /\ \A q \in Publishers : doc[q] # NoDoc =>
          /\ doc'[q] = doc[q]
          /\ \A n \in Names : Wanted(q, n)' = Wanted(q, n)
    /\ final'["other_output"] = final["other_output"]
    /\ head' = head \/ (head = "response_received" /\ head' \in {"succeeded", "failed"})
    /\ head' = "succeeded" /\ head # "succeeded" => admissible
    /\ admissible' = admissible
    /\ faults > 0 => faults' > 0

LEMMA CallLasts ==
    ASSUME PublicationInv, NEW p \in Publishers, Frame(p)
    PROVE  Lasting
<1>1. \A n \in Names : final[n] # NoFile => final'[n] = final[n]
  BY DEF Frame
<1>2. \A q \in Publishers : doc[q] # NoDoc => doc'[q] = doc[q]
  BY DEF Frame, PublicationInv, JudgedInv, Deriving
<1>3. ASSUME NEW n \in Names, final[n] # NoFile
      PROVE  Bytes(final[n], n)' = Bytes(final[n], n)
  <2>1. final[n] = Foreign \/ final[n] \in Inodes
    BY <1>3 DEF PublicationInv, PublicationTypeOK, DiskTypeOK
  <2>2. ASSUME final[n] \in Inodes
        PROVE  doc'[final[n][1]] = doc[final[n][1]]
    <3>1. PICK q \in Publishers, m \in {"output", "result"} : final[n] = <<q, m>>
      BY <2>2 DEF Inodes
    <3>2. m = n
      BY <2>2, <3>1 DEF PublicationInv, FilesInv
    <3>3. doc[q] # NoDoc
      BY <3>1, <3>2 DEF PublicationInv, FilesInv
    <3> QED
      BY <1>2, <3>1, <3>3
  <2> QED
    BY <1>1, <1>3, <2>1, <2>2 DEF Bytes
<1>4. ASSUME NEW n \in Names, final[n] # NoFile, final[n] \notin staged
      PROVE  final'[n] \notin staged'
  <2>1. final'[n] = final[n]
    BY <1>1, <1>4
  <2>2. CASE pc[p] = "stage" /\ final[n] = <<p, goal[p].name>>
    <3>1. goal[p].name \in {"output", "result"} /\ final[n] \in Inodes
      BY <2>2 DEF PublicationInv, PublicationTypeOK, ProgressTypeOK, Goals, Inodes
    <3>2. n = goal[p].name
      BY <2>2, <3>1 DEF PublicationInv, FilesInv
    <3> QED
      BY <2>2, <3>2 DEF PublicationInv, WorkInv, Materializing
  <2> QED
    BY <1>4, <2>1, <2>2 DEF Frame
<1>5. \A q \in Publishers : doc[q] # NoDoc => \A n \in Names : Wanted(q, n)' = Wanted(q, n)
  BY <1>2 DEF Wanted, Bytes
<1>6. final'["other_output"] = final["other_output"]
  BY DEF Frame, PublicationInv, PublicationTypeOK, ProgressTypeOK, Goals, Names, Outputs
<1>7. faults > 0 => faults' > 0
  BY DEF Frame, PublicationInv, PublicationTypeOK, DiskTypeOK
<1>8. /\ head' = head \/ (head = "response_received" /\ admissible /\ head' = "succeeded")
      /\ admissible' = admissible
  BY DEF Frame
<1> QED
  BY <1>1, <1>2, <1>3, <1>4, <1>5, <1>6, <1>7, <1>8 DEF Lasting

LEMMA WriterLasts ==
    ASSUME PublicationInv, TerminalWriter
    PROVE  Lasting
  BY DEF TerminalWriter, Lasting, Bytes, Wanted, directory, evidence, PublicationInv,
         PublicationTypeOK, DiskTypeOK

\* So a call at rest keeps all it knew.
Local(q) == JudgedInv(q) /\ SeenInv(q) /\ HaveInv(q) /\ WorkInv(q) /\ ReportedInv(q)

LEMMA AtRest ==
    ASSUME PublicationInv, Lasting, NEW q \in Publishers,
           pc'[q] = pc[q], goal'[q] = goal[q], have'[q] = have[q], tries'[q] = tries[q],
           verdict'[q] = verdict[q], doc'[q] = doc[q], report'[q] = report[q],
           \/ final'[goal[q].name] # <<q, goal[q].name>>
           \/ final'[goal[q].name] = final[goal[q].name]
    PROVE  Local(q)'
<1> USE DEF PublicationInv, PublicationTypeOK
<1>1. JudgedInv(q)'
  BY DEF JudgedInv, Lasting, EvidenceTypeOK, DiskTypeOK, Documents, Heads
<1>2. SeenInv(q)'
  <2>1. SeenInv(q)
    OBVIOUS
  <2>2. \A n \in Names : final[n] # NoFile => final'[n] # NoFile
    BY DEF Lasting
  <2>3. /\ head = "succeeded" => head' = "succeeded"
        /\ head = "failed" => head' = "failed"
        /\ faults > 0 => faults' > 0
    BY DEF Lasting
  <2> QED
    BY <2>1, <2>2, <2>3 DEF SeenInv, Names
<1>3. HaveInv(q)'
  BY DEF HaveInv, Lasting, Names, Outputs, ProgressTypeOK
<1>4. WorkInv(q)'
  <2> SUFFICES ASSUME pc[q] \in Materializing
               PROVE  WorkInv(q)'
    BY DEF WorkInv
  <2> DEFINE n == goal[q].name
  <2>1. n \in Names /\ doc[q] # NoDoc
    BY DEF JudgedInv, ProgressTypeOK, Goals, Names, Outputs
  <2>2. WorkInv(q)
    OBVIOUS
  <2>3. final[n] # NoFile => final'[n] = final[n]
    BY <2>1 DEF Lasting
  <2>4. final[n] # NoFile /\ final[n] \notin staged => final'[n] \notin staged'
    BY <2>1 DEF Lasting
  <2>5. final'["other_output"] = final["other_output"] /\ Passes(q)' = Passes(q)
    BY DEF Lasting, Passes
  <2>6. goal'[q].name = n /\ goal'[q].why = goal[q].why
    OBVIOUS
  <2>9. final'[n] # <<q, n>> \/ final'[n] = final[n]
    OBVIOUS
  <2>10. /\ pc'[q] = pc[q] /\ have'[q] = have[q] /\ tries'[q] = tries[q]
    OBVIOUS
  <2>11. /\ pc[q] \in {"stage", "link"} => goal[q].why = "write" /\ final'[n] # <<q, n>>
         /\ pc[q] = "unlink" => goal[q].why = "write" /\ final'[n] = <<q, n>>
    <3>1. <<q, n>> # NoFile
      BY DEF NoFile
    <3>2. pc[q] = "unlink" => goal[q].why = "write" /\ final[n] = <<q, n>>
      BY <2>2 DEF WorkInv
    <3>3. pc[q] \in {"stage", "link"} => goal[q].why = "write" /\ final[n] # <<q, n>>
      BY <2>2 DEF WorkInv
    <3> QED
      BY <2>3, <2>9, <3>1, <3>2, <3>3
  <2>12. /\ \/ goal[q].why \in {"exists", "gone"}
            \/ pc[q] \in {"list", "remove", "read"}
            \/ tries[q] > 0
            => final'[n] # NoFile
         /\ pc[q] = "read" \/ tries[q] > 0 => final'[n] \notin staged'
    BY <2>2, <2>3, <2>4 DEF WorkInv
  <2>13. /\ final'["other_output"] = NoFile
         /\ n = "output" => Passes(q)
         /\ n = "result" /\ goal[q].why # "check" /\ Passes(q) => "output" \in have[q]
         /\ pc[q] = "list" => tries[q] = 0
    BY <2>2, <2>5 DEF WorkInv
  <2> HIDE DEF n, PublicationInv
  <2> QED
    BY <2>5, <2>6, <2>10, <2>11, <2>12, <2>13 DEF WorkInv
<1>5. ReportedInv(q)'
  BY DEF ReportedInv, Passes
<1> QED
  BY <1>1, <1>2, <1>3, <1>4, <1>5 DEF Local

\* The output a call has done with is nobody else's.
LEMMA ImageIsOurs ==
    ASSUME PublicationInv, NEW p \in Publishers, "output" \in have[p]
    PROVE  final["output"] \in Inodes
<1>1. final["output"] # NoFile /\ Bytes(final["output"], "output") = Wanted(p, "output")
  BY DEF PublicationInv, HaveInv
<1>2. Wanted(p, "output") = <<"image">>
  <2>1. <<p, "output">> # NoFile /\ <<p, "output">> # Foreign
    BY PublicationAssumption DEF NoFile, Publishers
  <2> QED
    BY <2>1 DEF Wanted, Bytes
<1>3. ASSUME final["output"] = Foreign PROVE FALSE
  <2>1. Bytes(final["output"], "output") = <<"foreign">>
    BY <1>1, <1>3 DEF Bytes
  <2> QED
    BY <1>1, <1>2, <2>1
<1> QED
  BY <1>1, <1>3 DEF PublicationInv, PublicationTypeOK, DiskTypeOK, Names, Outputs

LEMMA FilesKept ==
    ASSUME PublicationInv, NEW p \in Publishers, Frame(p), Lasting
    PROVE  FilesInv'
<1>1. final'["other_output"] \in {Foreign, NoFile}
  BY DEF Lasting, PublicationInv, FilesInv
<1>2. \A q \in Publishers : doc[q] # NoDoc => doc'[q] = doc[q] /\ Passes(q)' = Passes(q)
  BY DEF Lasting, Passes
<1>3. final["output"] \in Inodes => final'["output"] \in Inodes
  <2>1. NoFile \notin Inodes
    BY DEF NoFile, Inodes
  <2> QED
    BY <2>1 DEF Lasting, Names, Outputs
<1>4. \A q \in Publishers : pc[q] \in Late => pc'[q] \in Late
  BY DEF Frame
<1>5. ASSUME NEW n \in {"output", "result"}, NEW q \in Publishers, <<q, n>> = final'[n]
      PROVE  /\ pc'[q] \in Late
             /\ doc'[q] # NoDoc
             /\ final'["other_output"] = NoFile
             /\ n = "output" => Passes(q)'
             /\ Passes(q)' => final'["output"] \in Inodes
  <2>1. CASE final'[n] = final[n]
    <3>1. /\ pc[q] \in Late /\ doc[q] # NoDoc /\ final["other_output"] = NoFile
          /\ n = "output" => Passes(q)
          /\ Passes(q) => final["output"] \in Inodes
      BY <1>5, <2>1 DEF PublicationInv, FilesInv
    <3> QED
      BY <1>2, <1>3, <1>4, <3>1 DEF Lasting
  <2>2. CASE final'[n] # final[n]
    <3>1. pc[p] = "link" /\ n = goal[p].name /\ final'[n] = <<p, n>>
      BY <2>2 DEF Frame, Names, Outputs
    <3>2. q = p
      BY <1>5, <3>1
    <3>3. /\ doc[p] # NoDoc /\ final["other_output"] = NoFile
          /\ n = "output" => Passes(p)
          /\ n = "result" /\ Passes(p) => "output" \in have[p]
      BY <3>1 DEF PublicationInv, JudgedInv, WorkInv, Materializing
    <3>4. <<p, n>> \in Inodes
      BY DEF Inodes
    <3>5. Passes(p) => final'["output"] \in Inodes
      BY <1>3, <3>1, <3>3, <3>4, ImageIsOurs
    <3>6. pc'[q] \in Late
      BY <1>4, <3>1, <3>2 DEF Late, Materializing
    <3> QED
      BY <1>2, <3>2, <3>3, <3>5, <3>6 DEF Lasting
  <2> QED
    BY <2>1, <2>2
<1>6. ASSUME NEW n \in Names, final'[n] \in Inodes
      PROVE  final'[n][2] = n
  BY <1>6 DEF Frame, PublicationInv, FilesInv
<1> QED
  BY <1>1, <1>5, <1>6 DEF FilesInv

-----------------------------------------------------------------------------
(* What the stepping call knows afterwards.                                 *)

LEMMA HaveKept ==
    ASSUME PublicationInv, Lasting, NEW p \in Publishers, have'[p] \subseteq have[p]
    PROVE  HaveInv(p)'
<1>1. \A m \in have[p] : m \in Names
  BY DEF PublicationInv, PublicationTypeOK, ProgressTypeOK, Names, Outputs
<1>2. doc[p] # NoDoc => doc'[p] = doc[p] /\ \A m \in Names : Wanted(p, m)' = Wanted(p, m)
  BY DEF Lasting
<1>3. \A m \in have[p] : /\ doc'[p] # NoDoc
                         /\ final'[m] # NoFile
                         /\ Bytes(final[m], m)' = Wanted(p, m)'
                         /\ final'[m] \notin staged'
  BY <1>1, <1>2 DEF Lasting, PublicationInv, HaveInv
<1> QED
  BY <1>3 DEF HaveInv

LEMMA HaveGained ==
    ASSUME PublicationInv, Lasting, NEW p \in Publishers, NEW n \in {"output", "result"},
           have'[p] = have[p] \cup {n}, doc[p] # NoDoc, final[n] # NoFile,
           Bytes(final[n], n) = Wanted(p, n), final'[n] \notin staged'
    PROVE  HaveInv(p)'
<1>1. \A m \in have'[p] : m \in Names
  BY DEF PublicationInv, PublicationTypeOK, ProgressTypeOK, Names, Outputs
<1>2. doc'[p] = doc[p] /\ \A m \in Names : Wanted(p, m)' = Wanted(p, m)
  BY DEF Lasting
<1>3. \A m \in have[p] : /\ final[m] # NoFile /\ final[m] \notin staged
                         /\ Bytes(final[m], m) = Wanted(p, m)
  BY DEF PublicationInv, HaveInv
<1>4. \A m \in have'[p] : /\ final'[m] # NoFile /\ final'[m] \notin staged'
                          /\ Bytes(final[m], m)' = Wanted(p, m)'
  BY <1>1, <1>2, <1>3 DEF Lasting
<1> QED
  BY <1>2, <1>4 DEF HaveInv

LEMMA Onward ==
    ASSUME PublicationInv, Lasting, NEW p \in Publishers, pc[p] \in Late, doc[p] # NoDoc,
           verdict'[p] = verdict[p], pc'[p] \in Late
    PROVE  JudgedInv(p)' /\ SeenInv(p)'
<1>1. doc'[p] = doc[p]
  BY DEF Lasting
<1>2. JudgedInv(p)
  BY DEF PublicationInv
<1>3. JudgedInv(p)'
  BY <1>1, <1>2
     DEF JudgedInv, Lasting, Late, Materializing, Deriving, PublicationInv,
         PublicationTypeOK, DiskTypeOK, EvidenceTypeOK, Documents, Heads
<1> QED
  BY <1>3 DEF SeenInv, Late, Materializing

LEMMA PursuitWorks ==
    ASSUME PublicationInv, Lasting, NEW p \in Publishers, doc[p] # NoDoc,
           final["other_output"] = NoFile, report[p] = "none",
           NEW n \in {"output", "result"}, NEW why, Pursue(p, n, why),
           n = "output" => Passes(p),
           n = "result" /\ why # "check" /\ Passes(p) => "output" \in have'[p],
           why \in {"exists", "gone"} => final'[n] # NoFile
    PROVE  WorkInv(p)' /\ ReportedInv(p)'
<1>1. goal'[p].name = n /\ goal'[p].why = why /\ tries'[p] = 0 /\ pc'[p] = "look"
  BY DEF Pursue, Goto, PublicationInv, PublicationTypeOK, ProgressTypeOK
<1>2. Passes(p)' = Passes(p) /\ report'[p] = "none" /\ final'["other_output"] = NoFile
  BY DEF Lasting, Passes, Pursue
<1> QED
  BY <1>1, <1>2 DEF WorkInv, ReportedInv

\* A report is made from the knowledge at hand.
LEMMA ReportWorks ==
    ASSUME PublicationInv, Lasting, NEW p \in Publishers, NEW r, Report(p, r),
           r = "ok" => /\ doc[p] # NoDoc
                       /\ "result" \in have'[p]
                       /\ Passes(p) => "output" \in have'[p]
    PROVE  WorkInv(p)' /\ ReportedInv(p)'
<1>1. pc'[p] \in {"scan", "ended"} /\ report'[p] = r
  BY DEF Report, Goto, PublicationInv, PublicationTypeOK, ProgressTypeOK
<1>2. doc[p] # NoDoc => doc'[p] = doc[p] /\ Passes(p)' = Passes(p)
  BY DEF Lasting, Passes
<1> QED
  BY <1>1, <1>2 DEF WorkInv, ReportedInv, Materializing

LEMMA RestWorks ==
    ASSUME PublicationInv, Lasting, NEW p \in Publishers, doc[p] # NoDoc,
           final["other_output"] = NoFile, report[p] = "none",
           NEW found, WriteRest(p, found)
    PROVE  /\ have'[p] = found
           /\ WorkInv(p)' /\ ReportedInv(p)'
           /\ pc'[p] \in {"look", "scan", "ended"}
<1>1. have'[p] = found
  BY RestCases DEF PublicationInv, PublicationTypeOK, ProgressTypeOK
<1>2. pc'[p] \in {"look", "scan", "ended"}
  BY RestCases DEF Pursue, Report, Goto, PublicationInv, PublicationTypeOK, ProgressTypeOK
<1>3. CASE Passes(p) /\ Pursue(p, "output", "write")
  BY <1>1, <1>2, <1>3, PursuitWorks
<1>4. CASE (Passes(p) => "output" \in found) /\ Pursue(p, "result", "write")
  BY <1>1, <1>2, <1>4, PursuitWorks
<1>5. CASE (Passes(p) => "output" \in found) /\ "result" \in found /\ Report(p, "ok")
  BY <1>1, <1>2, <1>5, ReportWorks
<1> QED
  BY <1>3, <1>4, <1>5, RestCases

-----------------------------------------------------------------------------
(* The calls, one action at a time: before they have a document, ...        *)

LEMMA NothingHad ==
    ASSUME PublicationInv, NEW p \in Publishers, have'[p] = have[p], doc[p] = NoDoc
    PROVE  HaveInv(p)'
  BY DEF PublicationInv, HaveInv

LEMMA DerivingSteps ==
    ASSUME PublicationInv, Lasting, NEW p \in Publishers,
           \/ Begin(p) \/ InspectOutputs(p) \/ RecheckOutputs(p) \/ InspectResult(p)
           \/ RecheckResult(p) \/ Derive(p) \/ Publish(p) \/ Recover(p)
    PROVE  Local(p)'
<1>1. /\ pc[p] \in Deriving \ {"compose"} /\ doc[p] = NoDoc /\ doc'[p] = NoDoc
      /\ have'[p] = have[p]
  BY DEF PublicationInv, JudgedInv, Deriving, Begin, InspectOutputs, RecheckOutputs,
         InspectResult, RecheckResult, Derive, Publish, Recover, Judge, Refused, Quietly,
         evidence, progress
<1>2. HaveInv(p)'
  BY <1>1, NothingHad
<1>3. /\ pc'[p] \notin Materializing \cup {"confirm", "list_outputs"}
      /\ report'[p] # "ok" /\ (report'[p] # "none" => pc'[p] \in {"scan", "ended"})
  BY <1>1
     DEF PublicationInv, PublicationTypeOK, ProgressTypeOK, ReportedInv, Deriving, Materializing,
         Begin, InspectOutputs, RecheckOutputs, InspectResult, RecheckResult, Derive, Publish,
         Recover, Judge, Refused, Quietly, Report, Goto, evidence
<1>4. WorkInv(p)' /\ ReportedInv(p)'
  BY <1>3 DEF WorkInv, ReportedInv
<1>5. /\ verdict'[p] = "pass" => head' = "succeeded"
      /\ verdict'[p] = "rejected" => ~admissible'
      /\ pc'[p] = "compose" => verdict'[p] # "none"
  BY <1>1
     DEF PublicationInv, PublicationTypeOK, ProgressTypeOK, EvidenceTypeOK, DiskTypeOK, JudgedInv,
         Heads, Deriving, Begin, InspectOutputs, RecheckOutputs, InspectResult, RecheckResult,
         Derive, Publish, Recover, Judge, Refused, Quietly, Report, Goto, evidence, journalOf
<1>6. JudgedInv(p)'
  BY <1>1, <1>3, <1>5 DEF JudgedInv
<1>7. SeenInv(p)'
  BY <1>1
     DEF PublicationInv, PublicationTypeOK, ProgressTypeOK, EvidenceTypeOK, DiskTypeOK, SeenInv,
         Heads, Deriving, Begin, InspectOutputs, RecheckOutputs, InspectResult, RecheckResult,
         Derive, Publish, Recover, Judge, Refused, Quietly, Report, Goto, evidence, journalOf,
         directory
<1> QED
  BY <1>2, <1>4, <1>6, <1>7 DEF Local

LEMMA ComposeStep ==
    ASSUME PublicationInv, Lasting, NEW p \in Publishers, Compose(p)
    PROVE  Local(p)'
<1>1. /\ pc[p] = "compose" /\ doc[p] = NoDoc /\ verdict[p] # "none"
      /\ UNCHANGED <<have, verdict, head, admissible, report>>
  BY DEF PublicationInv, JudgedInv, Deriving, Compose, progress, journalOf
<1>2. HaveInv(p)'
  BY <1>1, NothingHad
<1>3. doc'[p] = [verdict |-> verdict[p], head |-> head]
  BY DEF Compose, PublicationInv, PublicationTypeOK, EvidenceTypeOK
<1>4. doc'[p] # NoDoc /\ doc'[p].verdict = verdict'[p] /\ doc'[p].head = head'
  <2>1. [verdict |-> verdict[p], head |-> head] # NoDoc
    BY DEF NoDoc
  <2> QED
    BY <1>1, <1>3, <2>1
<1>5. pc'[p] \in {"list_outputs", "confirm"}
  BY DEF Compose, Goto, PublicationInv, PublicationTypeOK, ProgressTypeOK
<1>6. JudgedInv(p)'
  BY <1>1, <1>4, <1>5 DEF JudgedInv, PublicationInv, Deriving
<1>7. SeenInv(p)' /\ WorkInv(p)'
  BY <1>5 DEF SeenInv, WorkInv, Materializing
<1>8. ReportedInv(p)'
  BY <1>1 DEF ReportedInv, PublicationInv
<1> QED
  BY <1>2, <1>6, <1>7, <1>8 DEF Local

LEMMA ConfirmStep ==
    ASSUME PublicationInv, Lasting, NEW p \in Publishers, Confirm(p)
    PROVE  Local(p)'
<1>1. /\ pc[p] = "confirm" /\ doc[p] # NoDoc /\ UNCHANGED <<have, doc, verdict, head, admissible>>
  BY DEF PublicationInv, JudgedInv, Confirm, Quietly, progress, evidence, journalOf
<1>2. HaveInv(p)'
  BY <1>1, HaveKept
<1>3. pc'[p] \in {"list_outputs", "scan", "ended"}
  BY DEF Confirm, Report, Goto, PublicationInv, PublicationTypeOK, ProgressTypeOK
<1>4. JudgedInv(p)'
  BY <1>1, <1>3 DEF JudgedInv, PublicationInv, Deriving
<1>5. SeenInv(p)' /\ WorkInv(p)'
  BY <1>3 DEF SeenInv, WorkInv, Materializing
<1>6. ReportedInv(p)'
  BY <1>1 DEF ReportedInv, Confirm, Report, Goto, PublicationInv, PublicationTypeOK, ProgressTypeOK
<1> QED
  BY <1>2, <1>4, <1>5, <1>6 DEF Local

LEMMA ListOutputsStep ==
    ASSUME PublicationInv, Lasting, NEW p \in Publishers, ListOutputs(p)
    PROVE  Local(p)'
<1>1. /\ pc[p] = "list_outputs" /\ doc[p] # NoDoc /\ report[p] = "none"
      /\ UNCHANGED <<have, doc, verdict, head, admissible, final>>
  BY DEF PublicationInv, JudgedInv, ReportedInv, ListOutputs, progress, evidence, journalOf,
         directory, Pursue
<1>2. HaveInv(p)'
  BY <1>1, HaveKept
<1>3. pc'[p] \in {"look", "scan", "ended"}
  BY DEF ListOutputs, Pursue, Report, Goto, PublicationInv, PublicationTypeOK, ProgressTypeOK
<1>4. JudgedInv(p)'
  BY <1>1, <1>3 DEF JudgedInv, PublicationInv, Deriving, Materializing
<1>5. CASE Report(p, "conflict")
  BY <1>2, <1>3, <1>4, <1>5, ReportWorks DEF Local, SeenInv
<1>6. CASE /\ final["other_output"] = NoFile
           /\ Pursue(p, IF Passes(p) THEN "output" ELSE "result", "check")
  BY <1>1, <1>2, <1>3, <1>4, <1>6, PursuitWorks DEF Local, SeenInv
<1> QED
  BY <1>5, <1>6 DEF ListOutputs, Outputs

-----------------------------------------------------------------------------
(* ... while they work on a name ...                                        *)

LEMMA AtWork ==
    ASSUME PublicationInv, NEW p \in Publishers, pc[p] \in Materializing
    PROVE  /\ doc[p] # NoDoc /\ report[p] = "none" /\ final["other_output"] = NoFile
           /\ goal[p].name \in {"output", "result"} /\ pc[p] \in Late
           /\ goal[p].why \in {"check", "write", "exists", "gone"}
  BY DEF PublicationInv, PublicationTypeOK, ProgressTypeOK, JudgedInv, WorkInv, ReportedInv,
         Materializing, Goals, Late

\* Going on with the same name.
LEMMA SameName ==
    ASSUME PublicationInv, Lasting, NEW p \in Publishers, pc[p] \in Materializing,
           UNCHANGED <<goal, have, report>>,
           LET n == goal'[p].name
           IN  /\ \/ goal'[p].why \in {"exists", "gone"}
                  \/ pc'[p] \in {"list", "remove", "read"}
                  \/ tries'[p] > 0
                  => final'[n] # NoFile
               /\ pc'[p] = "list" => tries'[p] = 0
               /\ pc'[p] = "read" \/ tries'[p] > 0 => final'[n] \notin staged'
               /\ pc'[p] \in {"stage", "link"} => goal'[p].why = "write" /\ final'[n] # <<p, n>>
               /\ pc'[p] = "unlink" => goal'[p].why = "write" /\ final'[n] = <<p, n>>,
           pc'[p] \in Materializing
    PROVE  WorkInv(p)' /\ ReportedInv(p)'
<1>1. /\ final'["other_output"] = NoFile /\ Passes(p)' = Passes(p)
      /\ report'[p] = "none"
  BY AtWork DEF Lasting, Passes
<1>2. WorkInv(p)
  BY DEF PublicationInv
<1> QED
  BY <1>1, <1>2 DEF WorkInv, ReportedInv

LEMMA PresentStep ==
    ASSUME PublicationInv, Lasting, NEW p \in Publishers, pc[p] = "read", Present(p),
           Bytes(final[goal[p].name], goal[p].name) = Wanted(p, goal[p].name)
    PROVE  HaveInv(p)' /\ WorkInv(p)' /\ ReportedInv(p)' /\ pc'[p] \in Late
<1> DEFINE n == goal[p].name
           found == have[p] \cup {n}
<1>1. /\ pc[p] \in Materializing /\ n \in {"output", "result"} /\ n \in Names
      /\ final[n] # NoFile /\ final[n] \notin staged
  BY AtWork DEF PublicationInv, WorkInv, Materializing, Names, Outputs
<1>2. final'[n] \notin staged'
  BY <1>1 DEF Lasting
<1>3. CASE Pursue(p, "result", "check") /\ have' = [have EXCEPT ![p] = found]
  <2>1. have'[p] = found
    BY <1>3 DEF PublicationInv, PublicationTypeOK, ProgressTypeOK
  <2>2. pc'[p] = "look"
    BY <1>3 DEF Pursue, Goto, PublicationInv, PublicationTypeOK, ProgressTypeOK
  <2>3. WorkInv(p)' /\ ReportedInv(p)'
    BY <1>1, <1>3, AtWork, PursuitWorks
  <2>4. HaveInv(p)'
    BY <1>1, <1>2, <2>1, AtWork, HaveGained
  <2> QED
    BY <2>2, <2>3, <2>4 DEF Late, Materializing
<1>4. CASE WriteRest(p, found)
  <2>1. have'[p] = found /\ WorkInv(p)' /\ ReportedInv(p)' /\ pc'[p] \in {"look", "scan", "ended"}
    BY <1>1, <1>4, AtWork, RestWorks
  <2>2. HaveInv(p)'
    BY <1>1, <1>2, <2>1, AtWork, HaveGained
  <2> QED
    BY <2>1, <2>2 DEF Late, Materializing
<1> QED
  BY <1>3, <1>4 DEF Present

LEMMA ConflictStep ==
    ASSUME PublicationInv, Lasting, NEW p \in Publishers, NEW r, r # "ok", Report(p, r),
           have'[p] = have[p]
    PROVE  HaveInv(p)' /\ WorkInv(p)' /\ ReportedInv(p)' /\ pc'[p] \in Late
<1>1. pc'[p] \in {"scan", "ended"}
  BY DEF Report, Goto, PublicationInv, PublicationTypeOK, ProgressTypeOK
<1> QED
  BY <1>1, HaveKept, ReportWorks DEF Late

LEMMA AbsentStep ==
    ASSUME PublicationInv, Lasting, NEW p \in Publishers, pc[p] = "look",
           final[goal[p].name] = NoFile, Absent(p)
    PROVE  HaveInv(p)' /\ WorkInv(p)' /\ ReportedInv(p)' /\ pc'[p] \in Late
<1>1. pc[p] \in Materializing
  BY DEF Materializing
<1>2. tries[p] = 0 /\ goal[p].why \notin {"exists", "gone"}
  BY <1>1 DEF PublicationInv, PublicationTypeOK, ProgressTypeOK, WorkInv
<1>3. CASE Pursue(p, "result", "check") /\ UNCHANGED have
  <2>1. pc'[p] = "look"
    BY <1>3 DEF Pursue, Goto, PublicationInv, PublicationTypeOK, ProgressTypeOK
  <2> QED
    BY <1>1, <1>3, <2>1, AtWork, PursuitWorks, HaveKept DEF Late, Materializing
<1>4. CASE WriteRest(p, have[p])
  <2>1. /\ have'[p] = have[p] /\ WorkInv(p)' /\ ReportedInv(p)'
        /\ pc'[p] \in {"look", "scan", "ended"}
    BY <1>1, <1>4, AtWork, RestWorks
  <2> QED
    BY <2>1, HaveKept DEF Late, Materializing
<1>5. CASE /\ goal[p].why = "write" /\ Goto(p, "stage")
           /\ UNCHANGED <<progress, report, directory>>
  <2>1. /\ pc'[p] = "stage" /\ UNCHANGED <<goal, have, tries, report, final, staged>>
    BY <1>5 DEF Goto, PublicationInv, PublicationTypeOK, ProgressTypeOK, progress, directory
  <2>2. <<p, goal[p].name>> # NoFile
    BY DEF NoFile
  <2>3. /\ goal'[p] = goal[p] /\ goal[p].why = "write" /\ tries'[p] = 0
        /\ final'[goal[p].name] = NoFile
    BY <1>2, <1>5, <2>1
  <2>4. pc'[p] \in Materializing
    BY <2>1 DEF Materializing
  <2>5. final'[goal'[p].name] # <<p, goal'[p].name>>
    BY <2>2, <2>3
  <2>6. WorkInv(p)' /\ ReportedInv(p)'
    BY SMTT(30), <1>1, <2>1, <2>3, <2>4, <2>5, SameName
  <2> QED
    BY <2>1, <2>4, <2>6, HaveKept DEF Late
<1> QED
  BY <1>2, <1>3, <1>4, <1>5 DEF Absent

LEMMA LookStep ==
    ASSUME PublicationInv, Lasting, NEW p \in Publishers, Look(p)
    PROVE  HaveInv(p)' /\ WorkInv(p)' /\ ReportedInv(p)' /\ pc'[p] \in Late
<1> DEFINE f == final[goal[p].name]
<1>1. pc[p] = "look" /\ pc[p] \in Materializing
  BY DEF Look, Materializing
<1>2. CASE f = NoFile
  BY <1>1, <1>2, AbsentStep DEF Look
<1>3. CASE f # NoFile
  <2>1. /\ pc' = [pc EXCEPT ![p] = IF f \notin staged THEN "read" ELSE "list"]
        /\ UNCHANGED <<goal, have, tries, report, final, staged>>
    BY <1>3 DEF Look, Links, Goto, progress, directory
  <2>2. pc'[p] = IF f \notin staged THEN "read" ELSE "list"
    BY <2>1 DEF PublicationInv, PublicationTypeOK, ProgressTypeOK
  <2>3. /\ tries[p] > 0 => f \notin staged
        /\ tries[p] \in Nat
    BY <1>1 DEF PublicationInv, PublicationTypeOK, ProgressTypeOK, WorkInv
  <2>4. pc'[p] \in Materializing
    BY <2>2 DEF Materializing
  <2>5. /\ goal'[p].name = goal[p].name /\ final'[goal'[p].name] = f /\ tries'[p] = tries[p]
        /\ f \in staged' <=> f \in staged
    BY <2>1
  <2>6. pc'[p] = "list" => tries'[p] = 0
    BY <2>2, <2>3, <2>5
  <2>7. WorkInv(p)' /\ ReportedInv(p)'
    BY <1>1, <1>3, <2>1, <2>2, <2>3, <2>4, <2>5, <2>6, SameName
  <2> QED
    BY <2>1, <2>4, <2>7, HaveKept DEF Late
<1> QED
  BY <1>2, <1>3

LEMMA ListStep ==
    ASSUME PublicationInv, Lasting, NEW p \in Publishers, ListLinks(p)
    PROVE  HaveInv(p)' /\ WorkInv(p)' /\ ReportedInv(p)' /\ pc'[p] \in Late
<1> DEFINE f == final[goal[p].name]
<1>1. pc[p] = "list" /\ pc[p] \in Materializing
  BY DEF ListLinks, Materializing
<1>2. f # NoFile /\ tries[p] = 0
  BY <1>1 DEF PublicationInv, WorkInv
<1>3. CASE Conflict(p)
  BY <1>3, ConflictStep DEF Conflict, progress
<1>4. CASE f \in staged
  <2>1. pc'[p] = "remove" /\ UNCHANGED <<goal, have, tries, report, final>>
    BY <1>1, <1>4 DEF ListLinks, Goto, progress, directory, PublicationInv, PublicationTypeOK,
                      ProgressTypeOK
  <2>2. pc'[p] \in Materializing /\ final'[goal'[p].name] = f /\ tries'[p] = 0
    BY <1>2, <2>1 DEF Materializing
  <2>3. WorkInv(p)' /\ ReportedInv(p)'
    BY <1>1, <1>2, <2>1, <2>2, SameName
  <2> QED
    BY <2>1, <2>2, <2>3, HaveKept DEF Late
<1>5. CASE f \notin staged /\ ~Conflict(p)
  <2>1. pc'[p] = "look" /\ UNCHANGED <<goal, have, report, final, staged>>
    BY <1>1, <1>5 DEF ListLinks, Goto, directory, PublicationInv, PublicationTypeOK, ProgressTypeOK
  <2>2. pc'[p] \in Materializing /\ final'[goal'[p].name] = f /\ f \notin staged'
    BY <1>5, <2>1 DEF Materializing
  <2>3. WorkInv(p)' /\ ReportedInv(p)'
    BY <1>1, <1>2, <2>1, <2>2, SameName
  <2> QED
    BY <2>1, <2>2, <2>3, HaveKept DEF Late
<1> QED
  BY <1>3, <1>4, <1>5

LEMMA RemoveStep ==
    ASSUME PublicationInv, Lasting, NEW p \in Publishers, Remove(p)
    PROVE  HaveInv(p)' /\ WorkInv(p)' /\ ReportedInv(p)' /\ pc'[p] \in Late
<1> DEFINE f == final[goal[p].name]
<1>1. pc[p] = "remove" /\ pc[p] \in Materializing
  BY DEF Remove, Materializing
<1>2. f # NoFile
  BY <1>1 DEF PublicationInv, WorkInv
<1>3. /\ pc'[p] = "read" /\ UNCHANGED <<goal, have, tries, report, final>>
      /\ staged' = staged \ {f}
  BY DEF Remove, Goto, progress, PublicationInv, PublicationTypeOK, ProgressTypeOK
<1>4. pc'[p] \in Materializing /\ final'[goal'[p].name] = f /\ f \notin staged'
  BY <1>3 DEF Materializing
<1>5. WorkInv(p)' /\ ReportedInv(p)'
  BY <1>1, <1>2, <1>3, <1>4, SameName
<1> QED
  BY <1>3, <1>4, <1>5, HaveKept DEF Late

LEMMA ReadStep ==
    ASSUME PublicationInv, Lasting, NEW p \in Publishers, Read(p)
    PROVE  HaveInv(p)' /\ WorkInv(p)' /\ ReportedInv(p)' /\ pc'[p] \in Late
  BY PresentStep, ConflictStep DEF Read, Conflict, progress

LEMMA StageStep ==
    ASSUME PublicationInv, Lasting, NEW p \in Publishers, Stage(p)
    PROVE  HaveInv(p)' /\ WorkInv(p)' /\ ReportedInv(p)' /\ pc'[p] \in Late
<1> DEFINE n == goal[p].name
<1>1. pc[p] = "stage" /\ pc[p] \in Materializing
  BY DEF Stage, Materializing
<1>2. /\ pc'[p] = "link" /\ UNCHANGED <<goal, have, tries, report, final>>
  BY DEF Stage, Goto, progress, PublicationInv, PublicationTypeOK, ProgressTypeOK
<1>3. /\ goal[p].why = "write" /\ final[n] # <<p, n>>
      /\ tries[p] > 0 => final[n] # NoFile /\ final[n] \notin staged
  BY <1>1 DEF PublicationInv, WorkInv
<1>4. n \in Names
  BY <1>1, AtWork DEF Names, Outputs
<1>5. /\ pc'[p] \in Materializing /\ goal'[p].name = n /\ goal'[p].why = "write"
      /\ final'[n] # <<p, n>>
      /\ tries'[p] > 0 => final'[n] # NoFile /\ final'[n] \notin staged'
  BY <1>2, <1>3, <1>4 DEF Materializing, Lasting
<1>6. WorkInv(p)' /\ ReportedInv(p)'
  BY <1>1, <1>2, <1>5, SameName
<1> QED
  BY <1>2, <1>5, <1>6, HaveKept DEF Late

LEMMA LinkStep ==
    ASSUME PublicationInv, Lasting, NEW p \in Publishers, Link(p)
    PROVE  HaveInv(p)' /\ WorkInv(p)' /\ ReportedInv(p)' /\ pc'[p] \in Late
<1> DEFINE n == goal[p].name
<1>1. pc[p] = "link" /\ pc[p] \in Materializing
  BY DEF Link, Materializing
<1>2. n \in {"output", "result"} /\ n \in Names
  BY <1>1, AtWork DEF Names, Outputs
<1>3. /\ goal[p].why = "write" /\ tries[p] \in Nat
      /\ tries[p] > 0 => final[n] # NoFile
      /\ n = "result" /\ Passes(p) => "output" \in have[p]
      /\ n = "output" => Passes(p)
  BY <1>1 DEF PublicationInv, WorkInv, PublicationTypeOK, ProgressTypeOK
<1>4. CASE final[n] = NoFile
  <2>1. /\ pc'[p] = "unlink" /\ UNCHANGED <<goal, have, tries, report>>
        /\ final'[n] = <<p, n>>
    BY <1>2, <1>4 DEF Link, Goto, progress, PublicationInv, PublicationTypeOK, ProgressTypeOK,
                      DiskTypeOK
  <2>2. /\ pc'[p] \in Materializing /\ goal'[p].name = n /\ goal'[p].why = "write"
        /\ tries'[p] = 0
    BY <1>3, <1>4, <2>1 DEF Materializing
  <2>3. WorkInv(p)' /\ ReportedInv(p)'
    BY <1>1, <2>1, <2>2, SameName
  <2> QED
    BY <2>1, <2>2, <2>3, HaveKept DEF Late
<1>5. CASE final[n] # NoFile
  <2>1. Pursue(p, n, "exists") /\ UNCHANGED <<final, have>>
    BY <1>5 DEF Link
  <2>2. pc'[p] = "look"
    BY <2>1 DEF Pursue, Goto, PublicationInv, PublicationTypeOK, ProgressTypeOK
  <2>3. WorkInv(p)' /\ ReportedInv(p)'
    BY <1>1, <1>2, <1>3, <1>5, <2>1, AtWork, PursuitWorks
  <2> QED
    BY <2>1, <2>2, <2>3, HaveKept DEF Late, Materializing
<1> QED
  BY <1>4, <1>5

LEMMA UnlinkStep ==
    ASSUME PublicationInv, Lasting, NEW p \in Publishers, Unlink(p)
    PROVE  HaveInv(p)' /\ WorkInv(p)' /\ ReportedInv(p)' /\ pc'[p] \in Late
<1> DEFINE n == goal[p].name
<1>1. pc[p] = "unlink" /\ pc[p] \in Materializing
  BY DEF Unlink, Materializing
<1>2. n \in {"output", "result"}
  BY <1>1, AtWork
<1>3. /\ final[n] = <<p, n>> /\ final'[n] = final[n] /\ final[n] # NoFile
      /\ n = "output" => Passes(p)
  <2>1. final[n] = <<p, n>> /\ (n = "output" => Passes(p))
    BY <1>1 DEF PublicationInv, WorkInv
  <2>2. final[n] # NoFile
    BY <2>1 DEF NoFile
  <2> QED
    BY <1>2, <2>1, <2>2 DEF Lasting, Names, Outputs
<1>4. CASE <<p, n>> \in staged
  <2>1. WriteRest(p, have[p] \cup {n}) /\ DropStage(p)
    BY <1>4 DEF Unlink
  <2>2. final'[n] \notin staged'
    BY <1>3, <2>1 DEF DropStage
  <2>3. /\ have'[p] = have[p] \cup {n} /\ WorkInv(p)' /\ ReportedInv(p)'
        /\ pc'[p] \in {"look", "scan", "ended"}
    BY <1>1, <2>1, AtWork, RestWorks
  <2>4. Bytes(final[n], n) = Wanted(p, n)
    BY <1>3 DEF Wanted
  <2>5. HaveInv(p)'
    BY <1>1, <1>2, <1>3, <2>2, <2>3, <2>4, AtWork, HaveGained
  <2> QED
    BY <2>3, <2>5 DEF Late, Materializing
<1>5. CASE <<p, n>> \notin staged
  <2>1. Pursue(p, n, "gone") /\ UNCHANGED have
    BY <1>5 DEF Unlink
  <2>2. pc'[p] = "look"
    BY <2>1 DEF Pursue, Goto, PublicationInv, PublicationTypeOK, ProgressTypeOK
  <2>3. n = "result" /\ Passes(p) => "output" \in have[p]
    BY <1>1 DEF PublicationInv, WorkInv
  <2>4. WorkInv(p)' /\ ReportedInv(p)'
    BY <1>1, <1>2, <1>3, <2>1, <2>3, AtWork, PursuitWorks
  <2> QED
    BY <2>1, <2>2, <2>4, HaveKept DEF Late, Materializing
<1> QED
  BY <1>4, <1>5

LEMMA WorkingSteps ==
    ASSUME PublicationInv, Lasting, NEW p \in Publishers,
           \/ Look(p) \/ ListLinks(p) \/ Remove(p) \/ Read(p) \/ Stage(p) \/ Link(p)
           \/ Unlink(p) \/ Fail(p)
    PROVE  Local(p)'
<1>1. pc[p] \in Materializing
  BY DEF Look, ListLinks, Remove, Read, Stage, Link, Unlink, Fail, Materializing
<1>2. doc[p] # NoDoc /\ pc[p] \in Late /\ verdict'[p] = verdict[p]
  BY <1>1, AtWork
     DEF Look, ListLinks, Remove, Read, Stage, Link, Unlink, Fail, Settled, evidence
<1>3. ASSUME Fail(p)
      PROVE  HaveInv(p)' /\ WorkInv(p)' /\ ReportedInv(p)' /\ pc'[p] \in Late
  <2>1. PICK r \in Reports \ {"ok"} : Report(p, r)
    BY <1>3 DEF Fail, Reports
  <2>2. have'[p] = have[p]
    BY <1>3 DEF Fail, progress
  <2> QED
    BY <2>1, <2>2, ConflictStep
<1>4. HaveInv(p)' /\ WorkInv(p)' /\ ReportedInv(p)' /\ pc'[p] \in Late
  BY <1>3, LookStep, ListStep, RemoveStep, ReadStep, StageStep, LinkStep, UnlinkStep
<1> QED
  BY <1>2, <1>4, Onward DEF Local

\* ... and when they scan or are killed.
LEMMA EndingSteps ==
    ASSUME PublicationInv, Lasting, NEW p \in Publishers, Scan(p) \/ Crash(p)
    PROVE  Local(p)'
<1>1. /\ pc'[p] = "ended"
      /\ report'[p] = "ok" => report[p] = "ok"
      /\ UNCHANGED <<have, doc, verdict, head, admissible>>
  BY DEF Scan, Crash, Quietly, Goto, progress, evidence, journalOf, PublicationInv,
         PublicationTypeOK, ProgressTypeOK
<1>2. HaveInv(p)'
  BY <1>1, HaveKept
<1>3. JudgedInv(p)'
  BY <1>1 DEF JudgedInv, PublicationInv, Deriving, Materializing
<1>4. SeenInv(p)' /\ WorkInv(p)'
  BY <1>1 DEF SeenInv, WorkInv, Materializing
<1>5. ReportedInv(p)'
  BY <1>1 DEF ReportedInv, Passes, PublicationInv
<1> QED
  BY <1>2, <1>3, <1>4, <1>5 DEF Local

-----------------------------------------------------------------------------

LEMMA CallKeeps ==
    ASSUME PublicationInv, NEW p \in Publishers, Step(p) \/ Fail(p) \/ Crash(p)
    PROVE  PublicationInv' /\ Frame(p) /\ Lasting
<1>1. Frame(p) /\ PublicationTypeOK'
  BY CallFrame, CallTypeOK DEF PublicationInv, JudgedInv
<1>2. Lasting
  BY <1>1, CallLasts
<1>3. FilesInv'
  BY <1>1, <1>2, FilesKept
<1>4. Local(p)'
  BY <1>2, DerivingSteps, ComposeStep, ConfirmStep, ListOutputsStep, WorkingSteps, EndingSteps
     DEF Step
<1>5. ASSUME NEW q \in Publishers \ {p}
      PROVE  Local(q)'
  <2> DEFINE n == goal[q].name
  <2>1. n \in Names
    BY DEF PublicationInv, PublicationTypeOK, ProgressTypeOK, Goals, Names, Outputs
  <2>2. <<p, n>> # <<q, n>>
    OBVIOUS
  <2>3. final'[n] # <<q, n>> \/ final'[n] = final[n]
    BY <1>1, <2>1, <2>2 DEF Frame
  <2>4. /\ pc'[q] = pc[q] /\ goal'[q] = goal[q] /\ have'[q] = have[q]
        /\ tries'[q] = tries[q] /\ verdict'[q] = verdict[q]
        /\ doc'[q] = doc[q] /\ report'[q] = report[q]
    BY <1>1 DEF Frame
  <2> QED
    BY <1>2, <2>3, <2>4, AtRest
<1>6. head' = "succeeded" => admissible'
  BY <1>2 DEF Lasting, PublicationInv
<1> QED
  BY <1>1, <1>2, <1>3, <1>4, <1>5, <1>6 DEF PublicationInv, Local

LEMMA WriterKeeps ==
    ASSUME PublicationInv, TerminalWriter
    PROVE  PublicationInv'
<1>1. PublicationTypeOK'
  BY DEF PublicationInv, PublicationTypeOK, DiskTypeOK, EvidenceTypeOK, ProgressTypeOK,
         TerminalWriter, directory, evidence, progress, Heads
<1>2. Lasting
  BY WriterLasts
<1>3. FilesInv' /\ head' # "succeeded"
  BY DEF PublicationInv, FilesInv, Passes, TerminalWriter, directory, evidence
<1>4. ASSUME NEW q \in Publishers
      PROVE  Local(q)'
  BY <1>2, AtRest DEF TerminalWriter, directory, evidence, progress
<1> QED
  BY <1>1, <1>3, <1>4 DEF PublicationInv, Local

LEMMA PublicationInvariant == PublicationSpec => []PublicationInv
<1>1. PublicationInit => PublicationInv
  <2> SUFFICES ASSUME PublicationInit PROVE PublicationInv
    OBVIOUS
  <2>1. PICK planted \in SUBSET Names :
           final = [n \in Names |-> IF n \in planted THEN Foreign ELSE NoFile]
    BY DEF PublicationInit
  <2>2. Foreign \notin Inodes /\ NoFile \notin Inodes
    BY PublicationAssumption DEF Inodes, Publishers, NoFile
  <2>3. \A n \in Names : final[n] \in {Foreign, NoFile}
    BY <2>1
  <2>4. PublicationTypeOK
    BY <2>1 DEF PublicationInit, PublicationTypeOK, DiskTypeOK, EvidenceTypeOK, ProgressTypeOK,
                Heads, PCs, Goals, Reports
  <2>5. FilesInv
    <3>1. \A n \in {"output", "result"}, p \in Publishers : <<p, n>> \in Inodes
      BY DEF Inodes
    <3> QED
      BY <2>2, <2>3, <3>1 DEF FilesInv, Names, Outputs
  <2>6. ASSUME NEW p \in Publishers
        PROVE  JudgedInv(p) /\ SeenInv(p) /\ HaveInv(p) /\ WorkInv(p) /\ ReportedInv(p)
    BY DEF PublicationInit, JudgedInv, SeenInv, HaveInv, WorkInv, ReportedInv, Materializing
  <2> QED
    BY <2>4, <2>5, <2>6 DEF PublicationInv, PublicationInit
<1>2. PublicationInv /\ [PublicationNext]_publicationVars => PublicationInv'
  <2> SUFFICES ASSUME PublicationInv, [PublicationNext]_publicationVars
               PROVE  PublicationInv'
    OBVIOUS
  <2>1. CASE UNCHANGED publicationVars
    BY <2>1
       DEF publicationVars, journalOf, directory, progress, evidence, PublicationInv,
           PublicationTypeOK, DiskTypeOK, EvidenceTypeOK, ProgressTypeOK, FilesInv, JudgedInv,
           SeenInv, HaveInv, WorkInv, ReportedInv, Passes, Bytes, Wanted
  <2> QED
    BY <2>1, CallKeeps, WriterKeeps DEF PublicationNext
<1> QED
  BY <1>1, <1>2, PTL DEF PublicationSpec

-----------------------------------------------------------------------------
(* What it says of the properties.                                          *)

\* No step changes what a final name holds (INTERFACES.md: different bytes are
\* never overwritten), for any number of publishers, faults and crashes.
THEOREM NeverOverwritten == PublicationSpec => NoClobber
<1> DEFINE Keeps == \A n \in Names : final[n] # NoFile =>
                      Bytes(final[n], n)' = Bytes(final[n], n)
<1>1. ASSUME PublicationInv, PublicationNext
      PROVE  Keeps
  BY <1>1, CallKeeps, WriterLasts DEF PublicationNext, Lasting
<1>2. PublicationInv /\ [PublicationNext]_publicationVars => [Keeps]_publicationVars
  BY <1>1
<1> QED
  BY <1>2, PublicationInvariant, PTL DEF PublicationSpec, NoClobber

\* result.json is the completion marker, whoever wrote it and whatever happened
\* to its writer since: a result that says the media passed has its output and
\* its success beside it.
THEOREM ResultIndexesOutput == PublicationSpec => []IndexIsComplete
<1>1. ASSUME PublicationInv, NEW p \in Publishers, final["result"] = <<p, "result">>, Passes(p)
      PROVE  /\ head = "succeeded"
             /\ Bytes(final["output"], "output") = Wanted(p, "output")
             /\ final["other_output"] = NoFile
  <2>1. /\ doc[p] # NoDoc /\ final["output"] \in Inodes /\ final["other_output"] = NoFile
    BY <1>1 DEF PublicationInv, FilesInv
  <2>2. head = "succeeded"
    BY <1>1, <2>1 DEF PublicationInv, JudgedInv, Passes
  <2>3. \A f \in Inodes : Bytes(f, "output") = <<"image">>
    BY PublicationAssumption DEF Inodes, Publishers, Bytes, NoFile
  <2>4. Wanted(p, "output") = <<"image">>
    BY <2>3 DEF Wanted, Inodes
  <2> QED
    BY <2>1, <2>2, <2>3, <2>4
<1>2. PublicationInv => IndexIsComplete
  BY <1>1 DEF IndexIsComplete
<1> QED
  BY <1>2, PublicationInvariant, PTL

\* A call that reports success has its own document published, and its output.
THEOREM SuccessIsPublished == PublicationSpec => []OkIsPublished
<1>1. PublicationInv => OkIsPublished
  BY DEF PublicationInv, ReportedInv, HaveInv, OkIsPublished
<1> QED
  BY <1>1, PublicationInvariant, PTL

-----------------------------------------------------------------------------
(* Errors mean what they say.                                               *)

\* A published file of a call here shows how the journal stood.
LEMMA FileTells ==
    ASSUME PublicationInv, NEW n \in Names, final[n] # NoFile, final[n] # Foreign
    PROVE  /\ n # "other_output"
           /\ head = "succeeded" \/ ~admissible
           /\ n = "output" => head = "succeeded" /\ Bytes(final[n], n) = <<"image">>
<1>1. PICK q \in Publishers, m \in {"output", "result"} : final[n] = <<q, m>>
  BY DEF PublicationInv, PublicationTypeOK, DiskTypeOK, Inodes
<1>2. m = n /\ final[n] \in Inodes /\ n # "other_output"
  BY <1>1 DEF PublicationInv, FilesInv, Inodes
<1>3. doc[q] # NoDoc /\ (n = "output" => Passes(q))
  BY <1>1, <1>2 DEF PublicationInv, FilesInv
<1>4. doc[q].verdict = verdict[q] /\ verdict[q] \in {"pass", "rejected"}
  BY <1>3 DEF PublicationInv, PublicationTypeOK, EvidenceTypeOK, JudgedInv
<1>5. /\ verdict[q] = "pass" => head = "succeeded"
      /\ verdict[q] = "rejected" => ~admissible
  BY DEF PublicationInv, JudgedInv
<1>6. n = "output" => Bytes(final[n], n) = <<"image">>
  BY DEF Bytes
<1> QED
  BY <1>2, <1>3, <1>4, <1>5, <1>6 DEF Passes

LEMMA DivergenceLasts ==
    ASSUME PublicationInv, Lasting, NEW q \in Publishers, Divergent(q)
    PROVE  Divergent(q)'
<1>1. PICK n \in Names :
         \/ final[n] = Foreign
         \/ /\ doc[q] # NoDoc /\ final[n] # NoFile
            /\ IF n = "result" THEN Bytes(final[n], n) # Wanted(q, n) ELSE ~Passes(q)
  BY DEF Divergent
<1>2. final[n] # NoFile
  BY <1>1, PublicationAssumption DEF NoFile
<1>3. final'[n] = final[n] /\ Bytes(final[n], n)' = Bytes(final[n], n)
  BY <1>2 DEF Lasting
<1>4. doc[q] # NoDoc => /\ doc'[q] = doc[q] /\ Wanted(q, n)' = Wanted(q, n)
                        /\ Passes(q)' = Passes(q)
  BY DEF Lasting, Passes
<1> QED
  BY <1>1, <1>2, <1>3, <1>4 DEF Divergent

\* The reason a call has for what it reports in a step.
Reason(p, r) ==
    /\ r = "conflict" => Divergent(p) \/ head = "failed"
    /\ r = "not_ready" => head = "failed"
    /\ r \in {"invalid", "io_failed"} => faults' > 0
    /\ r = "execution_failed" => faults' > 0 \/ head = "failed"

LEMMA JournalReasons ==
    ASSUME PublicationInv, NEW p \in Publishers, report'[p] # report[p],
           \/ Begin(p) \/ InspectOutputs(p) \/ RecheckOutputs(p) \/ InspectResult(p)
           \/ RecheckResult(p) \/ Derive(p) \/ Publish(p) \/ Recover(p) \/ Compose(p)
           \/ Confirm(p)
    PROVE  Reason(p, report'[p])
<1> USE DEF PublicationInv, PublicationTypeOK, ProgressTypeOK, DiskTypeOK, Heads, Report, Goto
<1>1. CASE Begin(p)
  BY <1>1 DEF Begin, Reason
<1>2. CASE InspectOutputs(p) \/ InspectResult(p) \/ Compose(p)
  BY <1>2 DEF InspectOutputs, InspectResult, Compose, Reason
<1>3. CASE RecheckOutputs(p)
  <2>1. head = "response_received" => \E n \in Names : final[n] = Foreign
    BY <1>3, FileTells DEF RecheckOutputs, SeenInv, Names, Outputs
  <2> QED
    BY <1>3, <2>1 DEF RecheckOutputs, Reason, Divergent
<1>4. CASE RecheckResult(p)
  BY <1>4 DEF RecheckResult, Reason
<1>5. CASE Derive(p)
  <2>1. head = "response_received" /\ admissible => final["result"] = Foreign
    BY <1>5, FileTells DEF Derive, SeenInv, Names
  <2> QED
    BY <1>5, <2>1 DEF Derive, Judge, Reason, Divergent, Names
<1>6. CASE Publish(p)
  BY <1>6 DEF Publish, Judge, Refused, Reason
<1>7. CASE Recover(p)
  BY <1>7 DEF Recover, Judge, SeenInv, Reason
<1>8. CASE Confirm(p)
  <2>1. doc[p] # NoDoc
    BY <1>8 DEF Confirm, JudgedInv
  <2> QED
    BY <1>8, <2>1 DEF Confirm, JudgedInv, Reason
<1> QED
  BY <1>1, <1>2, <1>3, <1>4, <1>5, <1>6, <1>7, <1>8

LEMMA RestReasons ==
    ASSUME PublicationInv, NEW p \in Publishers, NEW found, report'[p] # report[p],
           WriteRest(p, found)
    PROVE  Reason(p, report'[p])
<1>1. report'[p] = "ok"
  BY RestCases DEF Pursue, Report, PublicationInv, PublicationTypeOK, ProgressTypeOK
<1> QED
  BY <1>1 DEF Reason

\* Only here does it matter that a link count is sampled more than once, and that
\* a failed read does not report what it was to read as divergent.
LEMMA FileReasons ==
    ASSUME ~ReadsFail, ReconcileAttempts > 1,
           PublicationInv, NEW p \in Publishers, report'[p] # report[p],
           \/ ListOutputs(p) \/ Look(p) \/ ListLinks(p) \/ Remove(p) \/ Read(p) \/ Stage(p)
           \/ Link(p) \/ Unlink(p) \/ Fail(p) \/ Scan(p) \/ Crash(p)
    PROVE  Reason(p, report'[p])
<1> DEFINE n == goal[p].name
<1> USE DEF PublicationTypeOK, ProgressTypeOK, DiskTypeOK
<1>0. PublicationTypeOK
  BY DEF PublicationInv
<1>1. CASE ListOutputs(p)
  <2>1. doc[p] # NoDoc
    BY <1>1 DEF ListOutputs, PublicationInv, JudgedInv
  <2>2. \/ \E m \in Outputs : final[m] # NoFile /\ ~Passes(p)
        \/ final["other_output"] # NoFile
    BY <1>1 DEF ListOutputs, Outputs, Pursue
  <2>3. Divergent(p)
    BY <2>1, <2>2 DEF Divergent, Names, Outputs, PublicationInv, FilesInv
  <2> QED
    BY <1>0, <1>1, <2>3 DEF ListOutputs, Report, Pursue, Reason
<1>2. CASE Look(p)
  <2>1. pc[p] \in Materializing
    BY <1>2 DEF Look, Materializing
  <2>2. final[n] = NoFile /\ Absent(p)
    BY <1>2 DEF Look
  <2>3. goal[p].why \notin {"exists", "gone"}
    BY <2>1, <2>2 DEF PublicationInv, WorkInv
  <2>4. WriteRest(p, have[p])
    BY <2>2, <2>3 DEF Absent, Pursue
  <2> QED
    BY <2>4, RestReasons
<1>3. CASE ListLinks(p)
  <2>1. tries[p] = 0
    BY <1>3 DEF ListLinks, PublicationInv, WorkInv, Materializing
  <2> QED
    BY <1>3, <2>1, PublicationAssumption DEF ListLinks
<1>4. CASE Remove(p) \/ Stage(p) \/ Link(p)
  BY <1>4 DEF Remove, Stage, Link, Pursue
<1>5. CASE Read(p)
  <2>1. pc[p] = "read" /\ pc[p] \in Materializing
    BY <1>5 DEF Read, Materializing
  <2>2. /\ doc[p] # NoDoc /\ final[n] # NoFile /\ Links(final[n]) = 1
        /\ n \in {"output", "result"} /\ (n = "output" => Passes(p))
    BY <2>1, AtWork DEF PublicationInv, WorkInv, Links
  <2>3. CASE Present(p)
    BY <2>3, RestReasons DEF Present, Pursue
  <2>4. CASE Conflict(p) /\ Bytes(final[n], n) # Wanted(p, n)
    <3>1. CASE n = "result"
      <4>1. Divergent(p)
        BY <2>2, <2>4, <3>1 DEF Divergent, Names
      <4> QED
        BY <1>0, <2>4, <4>1 DEF Conflict, Report, Reason
    <3>2. CASE n = "output"
      <4>1. Wanted(p, n) = <<"image">>
        <5>1. <<p, n>> # NoFile /\ <<p, n>> # Foreign
          BY <3>2, PublicationAssumption DEF NoFile, Publishers
        <5> QED
          BY <3>2, <5>1 DEF Wanted, Bytes
      <4>2. final[n] = Foreign
        BY <2>2, <2>4, <3>2, <4>1, FileTells DEF Names, Outputs
      <4>3. Divergent(p)
        BY <3>2, <4>2 DEF Divergent, Names, Outputs
      <4> QED
        BY <1>0, <2>4, <4>3 DEF Conflict, Report, Reason
    <3> QED
      BY <2>2, <3>1, <3>2
  <2> QED
    BY <1>5, <2>2, <2>3, <2>4 DEF Read
<1>6. CASE Unlink(p)
  BY <1>6, RestReasons DEF Unlink, Pursue
<1>7. CASE Fail(p)
  <2>1. report'[p] \in {"execution_failed", "io_failed"} /\ faults' > 0
    BY <1>0, <1>7 DEF Fail, Report
  <2> QED
    BY <2>1 DEF Reason
<1>8. CASE Scan(p) \/ Crash(p)
  <2>1. report'[p] \in {"scan_failed", "crashed"}
    BY <1>0, <1>8 DEF Scan, Crash
  <2> QED
    BY <2>1 DEF Reason
<1> QED
  BY <1>1, <1>2, <1>3, <1>4, <1>5, <1>6, <1>7, <1>8

\* No call blames a divergent file, the journal or the disk without cause: not
\* for a peer between its link and its unlink, however many there are, and not
\* for one killed there.  The link count has to be sampled at least twice (the
\* code samples it 16 times), and no read of a published file may fail.
THEOREM ErrorsHaveReasons ==
    ASSUME ~ReadsFail, ReconcileAttempts > 1
    PROVE  PublicationSpec => []ErrorsAreReal
<1>1. PublicationInit => ErrorsAreReal
  BY DEF PublicationInit, ErrorsAreReal
<1>2. ASSUME PublicationInv, ErrorsAreReal, Lasting, NEW q \in Publishers,
             report'[q] = report[q] \/ Reason(q, report'[q])
      PROVE  /\ report'[q] = "conflict" => Divergent(q)' \/ head' = "failed"
             /\ report'[q] = "not_ready" => head' = "failed"
             /\ report'[q] \in {"invalid", "io_failed"} => faults' > 0
             /\ report'[q] = "execution_failed" => faults' > 0 \/ head' = "failed"
  <2>1. /\ head = "failed" => head' = "failed"
        /\ faults > 0 => faults' > 0
    BY <1>2 DEF Lasting
  <2>2. Divergent(q) => Divergent(q)'
    BY <1>2, DivergenceLasts
  <2>3. Reason(q, report'[q])
    BY <1>2, <2>1 DEF ErrorsAreReal, Reason
  <2> QED
    BY <2>1, <2>2, <2>3 DEF Reason
<1>3. PublicationInv /\ ErrorsAreReal /\ [PublicationNext]_publicationVars => ErrorsAreReal'
  <2> SUFFICES ASSUME PublicationInv, ErrorsAreReal, [PublicationNext]_publicationVars
               PROVE  ErrorsAreReal'
    OBVIOUS
  <2>1. CASE UNCHANGED publicationVars
    BY <2>1 DEF publicationVars, journalOf, directory, progress, evidence, ErrorsAreReal,
                Divergent, Passes, Bytes, Wanted
  <2>2. CASE TerminalWriter
    <3>1. Lasting /\ report' = report
      BY <2>2, WriterLasts DEF TerminalWriter
    <3> QED
      BY <1>2, <3>1 DEF ErrorsAreReal
  <2>3. ASSUME NEW p \in Publishers, Step(p) \/ Fail(p) \/ Crash(p)
        PROVE  ErrorsAreReal'
    <3>1. Frame(p) /\ Lasting
      BY <2>3, CallKeeps
    <3>2. report'[p] = report[p] \/ Reason(p, report'[p])
      BY <2>3, JournalReasons, FileReasons DEF Step
    <3>3. \A q \in Publishers \ {p} : report'[q] = report[q]
      BY <3>1 DEF Frame
    <3> QED
      BY <1>2, <3>1, <3>2, <3>3 DEF ErrorsAreReal
  <2> QED
    BY <2>1, <2>2, <2>3 DEF PublicationNext
<1> QED
  BY <1>1, <1>3, PublicationInvariant, PTL DEF PublicationSpec
=============================================================================
