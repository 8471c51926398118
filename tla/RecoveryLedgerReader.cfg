CONSTANTS
  p1 = p1  p2 = p2
  t1 = t1  t2 = t2  t3 = t3
  Process = {p1, p2}
  Thread = {t1, t3}
  ProcessOf <- MCProcessOf
  Id = {i1}
  Payload = {x}
  Diagnostic = {}
  NoDiagnostic = NoDiagnostic
  MaxActions = 1
  Nobody = Nobody
SPECIFICATION Spec
INVARIANTS ReportedTombstonesAreDurable
