SPECIFICATION Spec
CONSTANTS
    a = a  b = b
    Request = {a, b}
    MaxVersion = 4
SYMMETRY MCRequests
INVARIANTS TypeOK FrozenWasPublished PublishedIsImmutable OneApproved
PROPERTIES ApprovalKeepsOnOffer FollowsWorkflow
\* All MaxVersion versions may be retired: the bound, not the system, stops.
CHECK_DEADLOCK FALSE
