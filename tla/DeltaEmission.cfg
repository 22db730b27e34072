CONSTANTS
    Plans <- MCPlans
    Foreign = 1
SPECIFICATION FairSpec
PROPERTY Settles
INVARIANTS OpinionsSent 
