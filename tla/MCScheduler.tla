---------------------------- MODULE MCScheduler ----------------------------
(***************************************************************************)
(* What the scheduler carries out, for TLC: the releases of                *)
(* MutePermissions and the tasks of FederationBans.  The two jobs share no *)
(* state: "work" is chosen at the start, the variables of MutePermissions  *)
(* keep their initial values and those of FederationBans are None.  The    *)
(* fairness of a job holds trivially while the other one runs.             *)
(***************************************************************************)
EXTENDS MCMutePermissions

VARIABLES
    work,
    records, newest, cached, banned, tasks, job, worker, lifted, excuse

banVars == <<records, newest, cached, banned, tasks, job, worker, lifted, excuse>>

\* Two groups of a federation, and one of a federation that subscribes to it.
BanChats == {"c1", "c2", "c3"}
BanFeds == {"f", "s"}
BanFedOf == [c \in BanChats |-> IF c = "c3" THEN "s" ELSE "f"]
BanSubscribed == [f \in BanFeds |-> IF f = "s" THEN {"f"} ELSE {}]
BanJobs == {1, 2}
BanFaults == {"ban", "unban", "crash"}

Tasks == INSTANCE FederationBans WITH
    Feds <- BanFeds, Chats <- BanChats, FedOf <- BanFedOf, Subscribed <- BanSubscribed,
    Present <- BanChats, Jobs <- BanJobs, MaxBans <- 3, Faults <- BanFaults

SchedulerInit ==
    /\ work \in {"mute", "bans"}
    /\ Init
    /\ IF work = "bans" THEN member = Unrestricted /\ snapshot = None /\ Tasks!Init
       ELSE /\ records = None /\ newest = None /\ cached = None /\ banned = None /\ tasks = None
            /\ job = None /\ worker = None /\ lifted = None /\ excuse = None

SchedulerNext ==
    /\ UNCHANGED work
    /\ IF work = "mute" THEN Next ELSE UNCHANGED vars
    /\ IF work = "bans" THEN Tasks!Next ELSE UNCHANGED banVars

\* Fairness of MutePermissions, and of the worker and the cleanup of the tasks.
SchedulerFairness ==
    /\ WF_vars(work = "mute" /\ Tick)
    /\ WF_vars(work = "mute" /\ Advance)
    /\ WF_vars(work = "mute" /\ SweepFind)
    /\ WF_vars(work = "mute" /\ SweepRestore)
    /\ WF_banVars(work = "bans" /\ Tasks!Work)
    /\ WF_banVars(work = "bans" /\ \E i \in DOMAIN tasks : Tasks!Reap(i))

SchedulerSpec ==
    SchedulerInit /\ [][SchedulerNext]_<<work, vars, banVars>> /\ SchedulerFairness

-----------------------------------------------------------------------------

\* FederationBans: a ban that is in force in a chat is one an unban finds.
BansListed == work = "bans" => Tasks!BansListed

\* FederationBans: every task reaches a terminal state.
TasksEnd == \A i \in 1 .. 2 :
    (work = "bans" /\ i \in DOMAIN tasks) ~>
        (work = "bans" /\ i \in DOMAIN tasks /\ Tasks!Terminal(tasks[i]))
=============================================================================
