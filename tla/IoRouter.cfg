\* Two requesting harts, two completion slots, three requests.  A locked request is a file
\* request whose caller holds FS_STATE, so plain file requests are left out.
SPECIFICATION FairSpec
CONSTANTS
    NumHarts = 3
    MAX_PENDING_REQUESTS = 2
    Calls = {"device", "locked", "callback"}
    MAX_ID = 3
INVARIANTS AnswerMatches
PROPERTIES HandledInOrder EveryCallReturns
