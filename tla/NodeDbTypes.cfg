\* Three services with up to two logins each, in a flash that three services with one
\* login each fill; one power cut in the middle of an operation leaves room for the
\* operation to be tried again.
CONSTANTS
  NSlots = 9
  Services = {1, 2, 3}
  Logins = {1, 2}
  MaxCuts = 1
  MaxDeletes = 1
SPECIFICATION Spec
INVARIANT TypeOK
