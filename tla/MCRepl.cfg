SPECIFICATION FairSpec
CONSTANTS
  Inputs <- MCInputs
  Operations <- Data
  Kinds = {"shown", "failed"}
INVARIANTS TypeOK MembersOfThisStatement ExecutesWhatIsSpelled
PROPERTIES ImplementsDialogue InputEnds
\* The input ends.
CHECK_DEADLOCK FALSE
