SPECIFICATION Spec
CONSTANTS
    Procs = {p1, p2}
    Mems = {m1}
    Principals = {"author", "reviewer", "approver"}
    Approvers = {"approver"}
    Reviewers = {"reviewer"}
    Trusted = {}
    Verbs = {"approve", "transition", "supersede"}
    Free = Free
    Purged = Purged
    NoMem = NoMem
CHECK_DEADLOCK FALSE
PROPERTIES
    ApprovesOnlyCurrent
