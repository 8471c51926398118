CONSTANTS
  p1 = p1  p2 = p2
  t1 = t1  t2 = t2  t3 = t3
  Process = {p1, p2}
  Thread = {t1, t2, t3}
  ProcessOf <- MCProcessOf
  Id = {i1, i2, i3}
  Payload = {x, y}
  Diagnostic = {d}
  NoDiagnostic = NoDiagnostic
  MaxActions = 2
  Nobody = Nobody
SPECIFICATION Spec
SYMMETRY Symmetric
INVARIANTS LedgerSafe NeverUnreadable
PROPERTIES ImplementsDurableLedger ReadersSeeLegalChanges
CONSTRAINT PlainLedgers
