----------------------------- MODULE PlaybookRun -----------------------------
(***************************************************************************)
(* app/orchestrator/playbooks.py: run_playbook, one view after the other    *)
(* into one payload.                                                        *)
(*                                                                         *)
(* A playbook is a record: steps, each a view and the column that receives  *)
(* the entity (or Nothing), and needs, whether it requires an entity.       *)
(***************************************************************************)
EXTENDS ResultRows

CONSTANT StepRows   \* _STEP_ROW_CAP

StepFilter(step, entity) ==
  IF step.column # Nothing /\ entity # Nothing
    THEN [column |-> step.column, value |-> entity]
    ELSE NoFilter

StepRun(objects, step, entity) ==
  RunView(step.view, objects[step.view], StepFilter(step, entity), StepRows)

\* Mutant: a view that fails counts as one that is not there.
StatusBlurred(objects, known, step, entity) ==
  IF step.view \notin known THEN "missing"
  ELSE IF ViewFails(objects, step.view) THEN "missing"
  ELSE IF StepRun(objects, step, entity).rows = <<>> THEN "empty"
  ELSE "ok"

\* A step's status; known is what discovery found, objects what is there.
Status(objects, known, step, entity) ==
  IF step.view \notin known THEN "missing"
  ELSE IF ViewFails(objects, step.view) THEN "error"
  ELSE IF StepRun(objects, step, entity).rows = <<>> THEN "empty"
  ELSE "ok"

Before == [statuses |-> <<>>, sections |-> <<>>, primary |-> Nothing]

\* One turn of the loop: a status for every step, a section for every view that
\* answered, and the first result with rows for the chart.
AfterStep(run, objects, known, step, entity) ==
  LET status == Status(objects, known, step, entity)
  IN [statuses |-> Append(run.statuses, status),
      sections |-> IF status \in {"ok", "empty"} THEN Append(run.sections, step.view)
                                                 ELSE run.sections,
      primary |-> IF status = "ok" /\ run.primary = Nothing
                    THEN StepRun(objects, step, entity) ELSE run.primary]

\* run_playbook
RunPlaybook(playbook, objects, known, entity) ==
  LET steps == playbook.steps
      run[n \in 0..Len(steps)] ==
        IF n = 0 THEN Before
        ELSE AfterStep(run[n - 1], objects, known, steps[n], entity)
  IN run[Len(steps)]

AnyData(run) == \E i \in DOMAIN run.statuses : run.statuses[i] = "ok"

\* The coverage sentence of the answer prompt: steps whose view is missing.
Skipped(run) == Cardinality({i \in DOMAIN run.statuses : run.statuses[i] = "missing"})
=============================================================================
