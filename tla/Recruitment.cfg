SPECIFICATION PipelineSpec
CONSTANTS
  Applications = {a1}
  Identities = {i1, i2}
  Tasks = {c1, c2}
  Endpoints <- Everything
INVARIANT PipelineTypeOK
INVARIANT HireIsBacked
PROPERTY ApprovalOnlyAdvances
SYMMETRY Interchangeable
CHECK_DEADLOCK FALSE
