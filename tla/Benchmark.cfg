SPECIFICATION Spec
CONSTANTS
  Traditions <- TwoTraditions
  Benches <- AllBenches
INVARIANTS GlobalTopK MeasuresSound AgreementEarned
CHECK_DEADLOCK FALSE
