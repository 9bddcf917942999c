CONSTANT MaxChanges = 2
SPECIFICATION Spec
INVARIANT RiskRulesReproduced
