-------------------------- MODULE MCWelcomeExpiry --------------------------
(***************************************************************************)
(* The lock of a pending user, and the expiry of the sessions it guards,   *)
(* for TLC.  WelcomeSecurity takes the lock for a mutex, so the two share  *)
(* no state: "part" is chosen at the start, the variables of the lock keep *)
(* their initial values and those of the sessions are None.                *)
(***************************************************************************)
EXTENDS PendingLock

CONSTANTS None

VARIABLES
    part,
    kind, sent, present, requested, restriction, row, record, key, dm, holder,
    task, excused, verified, faults, repeats

sessionVars == <<kind, sent, present, requested, restriction, row, record, key, dm, holder,
                 task, excused, verified, faults, repeats>>

JoinsOnly == {"join"}
RefusalsOnly == {"refusal"}

Sessions == INSTANCE WelcomeSecurity WITH
    Entries <- JoinsOnly, WelcomeMute <- FALSE, Faults <- RefusalsOnly,
    MaxMessages <- 3, MaxFaults <- 1, MaxRepeats <- 0, lock <- holder

ExpiryInit ==
    /\ part \in {"lock", "sessions"}
    /\ Init
    /\ IF part = "sessions" THEN Sessions!Init
       ELSE /\ kind = None /\ sent = None /\ present = None /\ requested = None
            /\ restriction = None /\ row = None /\ record = None /\ key = None /\ dm = None
            /\ holder = None /\ task = None /\ excused = None /\ verified = None
            /\ faults = None /\ repeats = None

ExpiryNext ==
    /\ UNCHANGED part
    /\ IF part = "lock" THEN Next ELSE UNCHANGED vars
    /\ IF part = "sessions" THEN Sessions!Next ELSE UNCHANGED sessionVars

\* Fairness of WelcomeSecurity; nobody asks to join, so that the request has no
\* steps.
ExpiryFairness ==
    LET Session(A) == part = "sessions" /\ A IN
    /\ WF_sessionVars(Session(Sessions!Late))
    /\ WF_sessionVars(Session(Sessions!Find))
    /\ WF_sessionVars(Session(\E m \in 1 .. 3 : Sessions!Seen(m) \/ Sessions!Advance(m)))
    /\ SF_sessionVars(Session(\E m \in 1 .. 3 : Sessions!Acquire(m)))
    /\ \A t \in {Sessions!Captcha, Sessions!Sweep} :
        /\ WF_sessionVars(Session(Sessions!Advance(t)))
        /\ SF_sessionVars(Session(Sessions!Acquire(t)))

ExpirySpec == ExpiryInit /\ [][ExpiryNext]_<<part, vars, sessionVars>> /\ ExpiryFairness

\* PendingEnds: a pending member is verified, leaves or is expelled.
PendingEnds ==
    LET pending == present # 0 /\ Sessions!Exists(record) IN
    (part = "sessions" /\ pending) ~> (part = "sessions" /\ ~ pending)
=============================================================================
