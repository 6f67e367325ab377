SPECIFICATION Spec
CONSTANTS
  t1 = t1  t2 = t2
  a = a  b = b
  Tab = {t1, t2}
  PagesOf <- OnePage
  Account = {a, b}
  Input = {x}
  Null = Null
  MaxCalls = 2
SYMMETRY Symmetry
INVARIANTS AdviceMatchesAccount
