SPECIFICATION Spec
CONSTANTS
  n1 = n1  n2 = n2  n3 = n3  i1 = i1  i2 = i2
  Name <- MCName  Id <- MCId  Slug <- MCSlug
  Agent = {a1, a2}
  MaxCalls = 1
  MaxVisits = 1
PROPERTIES TestIsOfForm
CHECK_DEADLOCK FALSE
