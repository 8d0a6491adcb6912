----------------------------- MODULE CopyReview -----------------------------
(***************************************************************************)
(* The copy review workflow (workflows/copy_review.py), composed with the  *)
(* other writers of artifacts: one transaction holds the review's records, *)
(* its evidence file is written in the middle of it, and the gates decide  *)
(* whether an approval is asked for.                                       *)
(*                                                                         *)
(* Of the text and of the canon only what the gates look at is kept: which *)
(* patterns the text matches and which authorities the references carry    *)
(* (tone-language-law and copy-constraint-law count as one).               *)
(***************************************************************************)
EXTENDS Artifacts

CONSTANTS
    Reviewers,    \* the transactions that are copy reviews
    Reviewed      \* the inputs: [text: SUBSET Patterns, canon: SUBSET Authorities]

Patterns    == {"obvious", "healthcare", "em-dash"}
Authorities == {"approved-clinical-claims", "brand-design-law", "tone-language-law"}
Inputs      == [text: SUBSET Patterns, canon: SUBSET Authorities]

ASSUME ReviewersAssumption == Reviewers \subseteq InTx
ASSUME ReviewedAssumption == Reviewed \subseteq Inputs

VARIABLES
    stage,     \* stage[w]: the next part of review w: start, evidence, finish or commit
    packet,    \* packet[w]: what w has inserted in its open transaction
    review     \* review[w]: what w has committed

reviewVars == <<vars, stage, packet, review>>

----------------------------------------------------------------------------
(* The gates *)

\* Mutant: a claim passes when any authority of the canon resolves.
Gates_AnyAuthority(input) ==
    [unsupported_health_claim |-> IF "obvious" \in input.text THEN "fail" ELSE "pass",
     healthcare_authority |-> IF "healthcare" \in input.text /\ input.canon = {}
                              THEN "needs_human_review" ELSE "pass",
     em_dash         |-> IF "em-dash" \in input.text THEN "fail" ELSE "pass",
     brand_reference |-> IF "brand-design-law" \in input.canon THEN "pass" ELSE "fail",
     tone_reference  |-> IF "tone-language-law" \in input.canon THEN "pass" ELSE "fail"]

\* The gates on provenance and pinning always pass here: input or canon that
\* would fail them has raised before.
Gates(input) ==
    [unsupported_health_claim |-> IF "obvious" \in input.text THEN "fail" ELSE "pass",
     healthcare_authority |->
         IF "healthcare" \in input.text /\ "approved-clinical-claims" \notin input.canon
         THEN "needs_human_review" ELSE "pass",
     em_dash         |-> IF "em-dash" \in input.text THEN "fail" ELSE "pass",
     brand_reference |-> IF "brand-design-law" \in input.canon THEN "pass" ELSE "fail",
     tone_reference  |-> IF "tone-language-law" \in input.canon THEN "pass" ELSE "fail"]

Failed(input) == \E g \in DOMAIN Gates(input) : Gates(input)[g] = "fail"

Recommendation(input) ==
    CASE Gates(input).healthcare_authority = "needs_human_review" -> "route"
      [] Gates(input).healthcare_authority = "pass"
           /\ input.text \cap {"obvious", "em-dash"} # {} -> "revised"
      [] OTHER -> "none"

----------------------------------------------------------------------------
(* One review *)

NoInput  == [text |-> {}, canon |-> {}]
NoResult == [status |-> "none", gates |-> Gates(NoInput), recommendation |-> "none"]
NoPacket == [rows |-> {}, input |-> NoInput, result |-> NoResult]

Started == {"task", "run", "run.created", "task.validated", "canon_snapshots", "canon.resolved"}

ReviewBegin(w) ==
    /\ BeginTransaction(w)
    /\ stage' = [stage EXCEPT ![w] = "start"]
    /\ UNCHANGED <<packet, review>>

\* Mutant: the records are committed as they are inserted.
ReviewStart_Commits(w) ==
    /\ pc[w] = "open" /\ stage[w] = "start"
    /\ packet' = [packet EXCEPT ![w].rows = Started]
    /\ review' = [review EXCEPT ![w].rows = Started]
    /\ stage' = [stage EXCEPT ![w] = "evidence"]
    /\ UNCHANGED vars

\* The input is accepted and every reference resolves at its pin: the records
\* of the review and its snapshots of the canon are inserted.
ReviewStart(w) ==
    /\ pc[w] = "open" /\ stage[w] = "start"
    /\ packet' = [packet EXCEPT ![w].rows = Started]
    /\ stage' = [stage EXCEPT ![w] = "evidence"]
    /\ UNCHANGED <<vars, review>>

\* write_json of the scan, which goes on in WriteBytes.
ReviewEvidence(w) ==
    /\ stage[w] = "evidence"
    /\ \E p \in Paths : CreateTemp(w, p)
    /\ stage' = [stage EXCEPT ![w] = "finish"]
    /\ UNCHANGED <<packet, review>>

\* The gates, the approval or none, the result and the last events.
ReviewFinish(w) ==
    /\ pc[w] = "open" /\ stage[w] = "finish"
    /\ \E input \in Reviewed :
          packet' = [packet EXCEPT ![w] =
              [rows   |-> @.rows \cup {"result", "gates.completed"}
                          \cup IF Failed(input) THEN {"result.completed"}
                                                ELSE {"approval", "approval.requested"},
               input  |-> input,
               result |-> [status |-> IF Failed(input) THEN "fail" ELSE "awaiting_approval",
                           gates |-> Gates(input),
                           recommendation |-> Recommendation(input)]]]
    /\ stage' = [stage EXCEPT ![w] = "commit"]
    /\ UNCHANGED <<vars, review>>

ReviewCommit(w) ==
    /\ stage[w] = "commit"
    /\ CommitTransaction(w)
    /\ review' = [review EXCEPT ![w] = packet[w]]
    /\ packet' = [packet EXCEPT ![w] = NoPacket]
    /\ UNCHANGED stage

\* Refused input, a reference that does not resolve, an invalid packet or a
\* failing statement, at any point; or the process dies.
ReviewRollback(w) ==
    /\ RollbackTransaction(w) \/ Crash(w)
    /\ packet' = [packet EXCEPT ![w] = NoPacket]
    /\ UNCHANGED <<stage, review>>

ReviewInit ==
    /\ Init
    /\ stage = [w \in Reviewers |-> "start"]
    /\ packet = [w \in Reviewers |-> NoPacket]
    /\ review = [w \in Reviewers |-> NoPacket]

ReviewNext ==
    \/ \E w \in Reviewers :
          \/ ReviewBegin(w) \/ ReviewStart(w) \/ ReviewEvidence(w)
          \/ ReviewFinish(w) \/ ReviewCommit(w) \/ ReviewRollback(w)
          \/ WriteBytes(w) /\ UNCHANGED <<stage, packet, review>>
    \/ \E w \in Writers \ Reviewers : Write(w) /\ UNCHANGED <<stage, packet, review>>

ReviewSpec == ReviewInit /\ [][ReviewNext]_reviewVars

----------------------------------------------------------------------------
(* Properties *)

Records == Started \cup {"result", "gates.completed", "result.completed",
                         "approval", "approval.requested"}

Packets == [rows: SUBSET Records, input: Inputs,
            result: [status: {"none", "fail", "awaiting_approval"},
                     gates: {Gates(i) : i \in Inputs},
                     recommendation: {"none", "route", "revised"}]]

ReviewTypeOK ==
    /\ TypeOK
    /\ stage \in [Reviewers -> {"start", "evidence", "finish", "commit"}]
    /\ packet \in [Reviewers -> Packets] /\ review \in [Reviewers -> Packets]

\* "Every review records input hash, target surface, provenance and pinned
\* canon snapshots": whatever fails or dies inside it, what is committed of a
\* review is nothing, or all of it with the row and the whole file of its
\* evidence; and an approval is asked for exactly when the result awaits one.
ReviewWhole ==
    \A w \in Reviewers : review[w].rows # {} =>
        /\ Started \cup {"result", "gates.completed"} \subseteq review[w].rows
        /\ Row(w) \in rows /\ file[path[w]] = [by |-> w, whole |-> TRUE]
        /\ review[w].result.status = "awaiting_approval"
             <=> {"approval", "approval.requested"} \subseteq review[w].rows
        /\ review[w].result.status = "fail" <=> "result.completed" \in review[w].rows

\* "Obvious unsupported health claims fail.  Unresolved healthcare claims
\* require human review": no approval is ever asked for a text with an obvious
\* claim, and none hides a claim without clinical authority, which the review
\* says is to be routed, whatever else it finds.
ClaimsNeverPass ==
    \A w \in Reviewers : LET done == review[w] IN
        /\ "approval" \in done.rows => "obvious" \notin done.input.text
        /\ "healthcare" \in done.input.text /\ "approved-clinical-claims" \notin done.input.canon =>
              /\ done.result.gates.healthcare_authority = "needs_human_review"
              /\ done.result.recommendation = "route"
=============================================================================
