SPECIFICATION Spec
CONSTANTS
  t1 = t1  t2 = t2
  Tab = {t1, t2}
  PagesOf <- MCPages
  a = a  b = b
  Account = {a, b}
  Input = {x, y}
  Null = Null
  MaxCalls = 2
SYMMETRY Symmetry
INVARIANTS IInv TabsAgree LoadingHasCall PatientUserSeesAccount AdviceMatchesInputs
PROPERTIES SelectionClearsAdvice
