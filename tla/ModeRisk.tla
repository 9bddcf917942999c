------------------------------ MODULE ModeRisk ------------------------------
(***************************************************************************)
(* The compatibility-mode transition-risk table of                        *)
(* tests/test_compatibility_transitions.py (COMPATIBILITY_TRANSITIONS and *)
(* the matrix print_transition_matrix builds from it), against the        *)
(* classification rules of spec 4.4.                                      *)
(*                                                                         *)
(* The state is the compatibility mode of one subject and the mode it had *)
(* before its last change: each change set_compatibility_mode can request *)
(* is a transition the table classifies.                                  *)
(***************************************************************************)
EXTENDS Naturals, FiniteSets

CONSTANT MaxChanges   \* bound on mode changes in one behaviour

ASSUME MaxChanges \in Nat \ {0}

\* CompatibilityMode (src/core/models.py 37-46).
CompatibilityMode ==
    {"NONE", "BACKWARD", "BACKWARD_TRANSITIVE", "FORWARD", "FORWARD_TRANSITIVE",
     "FORWARD_FULL", "FULL", "FULL_TRANSITIVE"}

\* The seven modes test_compatibility_transition accepts.
TestedModes == CompatibilityMode \ {"FORWARD_FULL"}

Risks == {"SAFE", "RISKY", "DANGEROUS"}

\* One row (from_mode, to_mode, risk_level, requires_validation, _).
Row(f, t, r, v) == [from |-> f, to |-> t, risk |-> r, validate |-> v]

\* The rows of COMPATIBILITY_TRANSITIONS, grouped as in the source.
NoneRows ==
    {Row("NONE", "BACKWARD", "RISKY", TRUE), Row("NONE", "BACKWARD_TRANSITIVE", "RISKY", TRUE),
     Row("NONE", "FORWARD", "RISKY", TRUE), Row("NONE", "FORWARD_TRANSITIVE", "RISKY", TRUE),
     Row("NONE", "FULL", "DANGEROUS", TRUE), Row("NONE", "FULL_TRANSITIVE", "DANGEROUS", TRUE)}
BackwardRows ==
    {Row("BACKWARD", "NONE", "SAFE", FALSE), Row("BACKWARD", "BACKWARD_TRANSITIVE", "SAFE", FALSE),
     Row("BACKWARD", "FORWARD", "DANGEROUS", TRUE), Row("BACKWARD", "FORWARD_TRANSITIVE", "DANGEROUS", TRUE),
     Row("BACKWARD", "FULL", "RISKY", TRUE), Row("BACKWARD", "FULL_TRANSITIVE", "DANGEROUS", TRUE)}
BackwardTransitiveRows ==
    {Row("BACKWARD_TRANSITIVE", "NONE", "SAFE", FALSE),
     Row("BACKWARD_TRANSITIVE", "BACKWARD", "SAFE", FALSE),
     Row("BACKWARD_TRANSITIVE", "FORWARD", "DANGEROUS", TRUE),
     Row("BACKWARD_TRANSITIVE", "FORWARD_TRANSITIVE", "DANGEROUS", TRUE),
     Row("BACKWARD_TRANSITIVE", "FULL", "DANGEROUS", TRUE),
     Row("BACKWARD_TRANSITIVE", "FULL_TRANSITIVE", "DANGEROUS", TRUE)}
ForwardRows ==
    {Row("FORWARD", "NONE", "SAFE", FALSE), Row("FORWARD", "BACKWARD", "DANGEROUS", TRUE),
     Row("FORWARD", "BACKWARD_TRANSITIVE", "DANGEROUS", TRUE),
     Row("FORWARD", "FORWARD_TRANSITIVE", "SAFE", FALSE),
     Row("FORWARD", "FULL", "RISKY", TRUE), Row("FORWARD", "FULL_TRANSITIVE", "DANGEROUS", TRUE)}
ForwardTransitiveRows ==
    {Row("FORWARD_TRANSITIVE", "NONE", "SAFE", FALSE),
     Row("FORWARD_TRANSITIVE", "BACKWARD", "DANGEROUS", TRUE),
     Row("FORWARD_TRANSITIVE", "BACKWARD_TRANSITIVE", "DANGEROUS", TRUE),
     Row("FORWARD_TRANSITIVE", "FORWARD", "SAFE", FALSE),
     Row("FORWARD_TRANSITIVE", "FULL", "DANGEROUS", TRUE),
     Row("FORWARD_TRANSITIVE", "FULL_TRANSITIVE", "RISKY", TRUE)}
FullRows ==
    {Row("FULL", "NONE", "SAFE", FALSE), Row("FULL", "BACKWARD", "SAFE", FALSE),
     Row("FULL", "BACKWARD_TRANSITIVE", "RISKY", TRUE), Row("FULL", "FORWARD", "SAFE", FALSE),
     Row("FULL", "FORWARD_TRANSITIVE", "RISKY", TRUE), Row("FULL", "FULL_TRANSITIVE", "SAFE", FALSE)}

\* Mutant of FullTransitiveRows: the relaxation to FULL marked as needing validation.
FullTransitiveRowsTypo ==
    {Row("FULL_TRANSITIVE", t, "SAFE", FALSE) :
        t \in {"NONE", "BACKWARD", "BACKWARD_TRANSITIVE", "FORWARD", "FORWARD_TRANSITIVE"}}
    \cup {Row("FULL_TRANSITIVE", "FULL", "RISKY", TRUE)}

FullTransitiveRows ==
    {Row("FULL_TRANSITIVE", t, "SAFE", FALSE) :
        t \in {"NONE", "BACKWARD", "BACKWARD_TRANSITIVE", "FORWARD", "FORWARD_TRANSITIVE", "FULL"}}

COMPATIBILITY_TRANSITIONS ==
    NoneRows \cup BackwardRows \cup BackwardTransitiveRows \cup ForwardRows
    \cup ForwardTransitiveRows \cup FullRows \cup FullTransitiveRows

(***************************************************************************)
(* print_transition_matrix: "N/A" on the diagonal, the risk level of the  *)
(* first matching row, "?" where no row matches.                          *)
(***************************************************************************)
RowsFor(f, t) == {x \in COMPATIBILITY_TRANSITIONS : x.from = f /\ x.to = t}
Matrix(f, t) ==
    IF f = t THEN "N/A"
    ELSE IF RowsFor(f, t) = {} THEN "?"
    ELSE (CHOOSE x \in RowsFor(f, t) : TRUE).risk
RequiresValidation(f, t) ==
    \E x \in RowsFor(f, t) : x.validate

-----------------------------------------------------------------------------
(***************************************************************************)
(* Spec 3 and 4.4: a mode is a direction and a scope.  These definitions  *)
(* and the rules below come from the specification; FORWARD_FULL has no  *)
(* decomposition there and the rules are stated over the other seven.     *)
(***************************************************************************)
Direction(m) ==
    CASE m = "NONE" -> "none"
      [] m \in {"BACKWARD", "BACKWARD_TRANSITIVE"} -> "backward"
      [] m \in {"FORWARD", "FORWARD_TRANSITIVE"} -> "forward"
      [] OTHER -> "full"
Transitive(m) == m \in {"BACKWARD_TRANSITIVE", "FORWARD_TRANSITIVE", "FULL_TRANSITIVE"}

\* d1 asks no more than d2.
DirWeaker(d1, d2) == d1 = "none" \/ d1 = d2 \/ d2 = "full"

\* Relaxing strictly: neither the direction nor the scope gets stricter.
Relaxes(f, t) ==
    f # t /\ DirWeaker(Direction(t), Direction(f)) /\ (Transitive(t) => Transitive(f))

\* BACKWARD-family <-> FORWARD-family.
Reverses(f, t) ==
    {Direction(f), Direction(t)} = {"backward", "forward"}

\* From one direction at the latest-only scope to both directions.
AddsDirection(f, t) ==
    Direction(f) \in {"backward", "forward"} /\ ~Transitive(f) /\ Direction(t) = "full"

-----------------------------------------------------------------------------
VARIABLES
    mode,      \* the subject's compatibility mode
    prev,      \* its mode before the last change
    changes    \* mode changes so far

vars == <<mode, prev, changes>>

TypeOK ==
    /\ mode \in CompatibilityMode /\ prev \in CompatibilityMode
    /\ changes \in 0..MaxChanges

\* A subject may start in any mode.
Init ==
    /\ mode \in CompatibilityMode
    /\ prev = mode
    /\ changes = 0

(***************************************************************************)
(* set_compatibility_mode(mode, subject) (confluent/plugin.py 330-355)    *)
(* with any mode the API parses (CompatibilityMode[request.mode.upper()], *)
(* api/main.py 281-286).                                                  *)
(***************************************************************************)
SetMode(m) ==
    /\ changes < MaxChanges
    /\ prev' = mode /\ mode' = m
    /\ changes' = changes + 1

\* After the last change the subject keeps its mode.
Settled == changes = MaxChanges /\ UNCHANGED vars

Next == (\E m \in CompatibilityMode : SetMode(m)) \/ Settled

Spec == Init /\ [][Next]_vars

-----------------------------------------------------------------------------
(***************************************************************************)
(* Spec 4.4 and 8: the last change of the subject, between two different *)
(* modes of the seven, is classified by the table as the rules say:       *)
(* relaxing is SAFE without validation (so FULL_TRANSITIVE -> anything is *)
(* SAFE), reversing direction is DANGEROUS, leaving NONE is RISKY for one *)
(* direction and DANGEROUS for FULL/FULL_TRANSITIVE, adding the missing   *)
(* direction to BACKWARD or FORWARD is RISKY unless the scope tightens to *)
(* transitive at the same time (then DANGEROUS), every non-SAFE          *)
(* transition needs validation, and no tested pair is unclassified.       *)
(***************************************************************************)
RiskRulesReproduced ==
    (prev # mode /\ {prev, mode} \subseteq TestedModes) =>
        /\ Matrix(prev, mode) \in Risks
        /\ RequiresValidation(prev, mode) <=> Matrix(prev, mode) # "SAFE"
        /\ Relaxes(prev, mode) => Matrix(prev, mode) = "SAFE"
        /\ Reverses(prev, mode) => Matrix(prev, mode) = "DANGEROUS"
        /\ AddsDirection(prev, mode) =>
              Matrix(prev, mode) = IF Transitive(mode) THEN "DANGEROUS" ELSE "RISKY"
        /\ prev = "NONE" =>
              Matrix(prev, mode) = IF Direction(mode) = "full" THEN "DANGEROUS" ELSE "RISKY"

=============================================================================
