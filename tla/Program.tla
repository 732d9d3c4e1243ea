------------------------------- MODULE Program -------------------------------
(***************************************************************************)
(* lib.rs, run: the order in which the program starts its parts, and which *)
(* failure ends which of them; with proxy/health.rs, the health checker,   *)
(* and the answer of proxy/admin.rs to GET /health.                        *)
(*                                                                         *)
(* Time is kept as ages; a tick is a second, and no tick passes a timer    *)
(* that is due.                                                            *)
(***************************************************************************)
EXTENDS Integers

CONSTANTS
    Interval,      \* health_check.interval_secs
    CheckTimeout,  \* health_check.timeout_secs
    MaxAge         \* bound on the ages, which stay there

ASSUME ProgramAssumption ==
    /\ Interval \in Nat /\ CheckTimeout \in Nat /\ MaxAge \in Nat
    /\ Interval + CheckTimeout < MaxAge

VARIABLES
    cfg,      \* the configuration file, and what the machine makes of it
    pc,       \* where run is
    tasks,    \* what has been spawned and still runs
    up,       \* whether the backend accepts connections
    checker,  \* where the health checker is, and for how long
    status,   \* HealthStatus
    downFor   \* how long the backend has been down, counted from StartHealth at most

vars == <<cfg, pc, tasks, up, checker, status, downFor>>

\* A section of the file may be missing, and may say enabled = false.
Sections == {"absent", "off", "on"}

\* readable: the file is read and parsed; log: the log file can be created;
\* taken: the listeners whose address is not to be had.
Settings == [readable : BOOLEAN, log : BOOLEAN, iam : BOOLEAN,
            health : Sections, metrics : Sections, admin : Sections,
            taken : SUBSET {"metrics", "admin", "proxy"}]

Init ==
    /\ cfg \in Settings
    /\ pc = "load" /\ tasks = {}
    /\ up \in BOOLEAN
    /\ checker = [at |-> "sleep", age |-> 0]
    /\ status = [healthy |-> TRUE, error |-> "none", age |-> 0]
    /\ downFor = 0

-----------------------------------------------------------------------------
(* run *)

\* The process ends, and every task with it.
Exit == pc' = "exited" /\ tasks' = {} /\ UNCHANGED <<cfg, up, checker, status, downFor>>

Goto(place, spawned) ==
    /\ pc' = place /\ tasks' = tasks \union spawned
    /\ UNCHANGED <<cfg, up, checker, status, downFor>>

Load == pc = "load" /\ (IF cfg.readable THEN Goto("logging", {}) ELSE Exit)
InitLogging == pc = "logging" /\ (IF cfg.log THEN Goto("token", {}) ELSE Exit)

\* The pool, and the token cache when there is an iam section.
StartToken == pc = "token" /\ Goto("health", IF cfg.iam THEN {"refresh"} ELSE {})

StartHealth ==
    /\ pc = "health"
    /\ pc' = "metrics"
    /\ tasks' = IF cfg.health = "on" THEN tasks \union {"health"} ELSE tasks
    /\ checker' = [at |-> "sleep", age |-> 0]
    /\ status' = [healthy |-> TRUE, error |-> "none", age |-> 0]
    /\ downFor' = 0
    /\ UNCHANGED <<cfg, up>>

\* Mutant: the metrics server is started in run itself, which it then ends.
MetricsAwaited ==
    /\ pc = "metrics"
    /\ IF cfg.metrics = "on" /\ "metrics" \in cfg.taken
       THEN Exit
       ELSE Goto("admin", IF cfg.metrics = "on" THEN {"metrics"} ELSE {})

\* The servers are tasks: an address that cannot be bound ends the task only.
StartMetrics ==
    pc = "metrics" /\ Goto("admin", IF cfg.metrics = "on" THEN {"metrics"} ELSE {})

StartAdmin ==
    pc = "admin" /\ Goto("listen", IF cfg.admin = "on" THEN {"admin"} ELSE {})

ServerFails(x) ==
    /\ x \in tasks \intersect cfg.taken
    /\ tasks' = tasks \ {x}
    /\ UNCHANGED <<cfg, pc, up, checker, status, downFor>>

\* proxy::run: binds, and accepts until accept fails.
Listen == pc = "listen" /\ (IF "proxy" \in cfg.taken THEN Exit ELSE Goto("serving", {}))
AcceptFails == pc = "serving" /\ Exit

-----------------------------------------------------------------------------
(* The health checker *)

Checking == "health" \in tasks /\ checker.at = "connect"

CheckBegins ==
    /\ "health" \in tasks /\ checker.at = "sleep" /\ checker.age >= Interval
    /\ checker' = [at |-> "connect", age |-> 0]
    /\ UNCHANGED <<cfg, pc, tasks, up, status, downFor>>

\* Mutant: the error is kept when the backend is back.
ErrorKept(healthy, error) ==
    [healthy |-> healthy, error |-> IF healthy THEN status.error ELSE error, age |-> 0]

\* Mutant: the answer is not taken down when there was none.
OnlyAnswers(healthy, error) ==
    IF error = "timed out" THEN [status EXCEPT !.age = 0]
    ELSE [healthy |-> healthy, error |-> error, age |-> 0]

Found(healthy, error) == [healthy |-> healthy, error |-> error, age |-> 0]

ConnectDue == Checking /\ checker.age >= CheckTimeout

CheckEnds ==
    /\ Checking
    /\ \/ up /\ status' = Found(TRUE, "none")
       \/ ~up /\ status' = Found(FALSE, "connection failed")
       \/ ConnectDue /\ status' = Found(FALSE, "timed out")
    /\ checker' = [at |-> "sleep", age |-> 0]
    /\ UNCHANGED <<cfg, pc, tasks, up, downFor>>

\* health_handler: what GET /health tells, true when there is no checker.
HealthAnswer ==
    IF cfg.health = "on"
    THEN [healthy |-> status.healthy, error |-> status.error, ago |-> status.age]
    ELSE [healthy |-> TRUE, error |-> "none", ago |-> 0]

-----------------------------------------------------------------------------
(* Specification *)

BackendChanges ==
    /\ up' = ~up /\ downFor' = 0
    /\ UNCHANGED <<cfg, pc, tasks, checker, status>>

Older(age) == IF age < MaxAge THEN age + 1 ELSE age

Tick ==
    /\ "health" \in tasks
    /\ checker.at = "sleep" => checker.age < Interval
    /\ ~ConnectDue
    /\ checker' = [checker EXCEPT !.age = Older(@)]
    /\ status' = [status EXCEPT !.age = Older(@)]
    /\ downFor' = IF up THEN 0 ELSE Older(downFor)
    /\ UNCHANGED <<cfg, pc, tasks, up>>

Run == \/ Load \/ InitLogging \/ StartToken \/ StartHealth
       \/ StartMetrics \/ StartAdmin \/ Listen

Next ==
    \/ Run \/ AcceptFails \/ \E x \in {"metrics", "admin"} : ServerFails(x)
    \/ CheckBegins \/ CheckEnds
    \/ BackendChanges \/ Tick

Spec == Init /\ [][Next]_vars

\* The main task runs; that the checker does is in the guards of Tick.
FairSpec == Spec /\ WF_vars(Run)

-----------------------------------------------------------------------------
(* Properties *)

\* The status explains itself, and the checker exists when it has been changed.
TypeOK ==
    /\ cfg \in Settings /\ up \in BOOLEAN /\ downFor \in 0..MaxAge
    /\ pc \in {"load", "logging", "token", "health", "metrics", "admin", "listen",
               "serving", "exited"}
    /\ tasks \subseteq {"refresh", "health", "metrics", "admin"}
    /\ checker \in [at : {"sleep", "connect"}, age : 0..MaxAge]
    /\ status \in [healthy : BOOLEAN, error : {"none", "connection failed", "timed out"},
                   age : 0..MaxAge]
    /\ status.healthy <=> status.error = "none"

\* An outage is told in time: while GET /health still says healthy, the backend
\* has not been down for longer than an interval and a check.
OutageTold ==
    "health" \in tasks /\ HealthAnswer.healthy => downFor <= Interval + CheckTimeout

\* Whatever becomes of the servers for metrics and admin, once its configuration
\* is read the proxy serves when its own address is to be had.
ProxyComesUp ==
    pc = "logging" /\ cfg.log /\ "proxy" \notin cfg.taken ~> pc = "serving"

=============================================================================
