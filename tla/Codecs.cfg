\* One job of each kind at a time, and the calculations with their inputs.
SPECIFICATION Spec
INVARIANTS ReadsBack CredentialsHeard 
\* A job ends.
CHECK_DEADLOCK FALSE
