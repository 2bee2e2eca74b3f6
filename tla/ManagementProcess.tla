---- MODULE ManagementProcess ----
(***************************************************************************)
(* The process that runs the handlers of AccessControl: it is started, it  *)
(* shuts down on SIGTERM or SIGINT, and it can be killed with statements   *)
(* in flight, which Postgres may still execute, even after the next        *)
(* process has started.  The database outlives all of them.                *)
(***************************************************************************)
EXTENDS AccessControl

CONSTANT MaxKills   \* bound on the kills

ASSUME KillsAssumption == MaxKills \in Nat

Signals == {"SIGTERM", "SIGINT"}

VARIABLES
    process,   \* "serving", or how it ended: "exited", "killed"
    shutdown,  \* what the shutdown() each signal has started awaits
    sent,      \* slots with a statement sql.end() waits for
    orphans,   \* slots of a killed process whose statement is at Postgres
    kills,     \* kills so far
    base       \* history: the tenant's model when policy_version took its value

processVars == <<process, shutdown, sent, orphans, kills>>
allVars == <<vars, processVars, base>>

\* All that a decision of the tenant may depend on, its counters excepted.
Model(t) ==
    [policies |-> {x \in rows["policies"] : x.tenant = t},
     flat     |-> [p \in Ids |-> FlatPermissionSlugs(t, p)]]

RememberBase ==
    base' = [t \in TenantIds |->
               IF policyVersion'[t] = policyVersion[t] THEN base[t] ELSE Model(t)']

\* Slots of the running process whose request has not come to its end.
Busy == {s \in Slots \ orphans : pc[s] # "idle"}

ShuttingDown == \E sig \in Signals : shutdown[sig] # "none"
PoolEnding == \E sig \in Signals : shutdown[sig] = "sql.end"

NoShutdown == [sig \in Signals |-> "none"]

\* The clients of S that have no answer see their connections break.
Break(S) ==
    status' = [s \in Slots |-> IF s \in S /\ status[s] = 0 THEN Broken ELSE status[s]]

\* The slots in S end here, with whatever they still had to do.
GiveUp(S) ==
    /\ pc' = [s \in Slots |-> IF s \in S THEN "idle" ELSE pc[s]]
    /\ Break(S)
    /\ awaiting' = [s \in Slots |-> IF s \in S THEN {} ELSE awaiting[s]]
    /\ UNCHANGED <<dbVars, call, found, change, applied, uncovered, received, failures>>

----------------------------------------------------------------------------
\* listen(): a process that starts finds the tables as the last one left them.
Start ==
    /\ process # "serving"
    /\ process' = "serving"
    /\ UNCHANGED <<vars, shutdown, sent, orphans, kills, base>>

\* A closing server accepts no request.
Arrive(s, c) ==
    /\ process = "serving" /\ ~ShuttingDown
    /\ Receive(s, c)
    /\ UNCHANGED <<processVars, base>>

\* A handler goes on.  A pool that is ending lets statements in flight finish
\* and takes no further one.
Work(s) ==
    /\ process = "serving" /\ s \notin orphans
    /\ PoolEnding => s \in sent
    /\ Step(s)
    /\ sent' = IF pc'[s] = pc[s] THEN sent ELSE sent \ {s}
    /\ RememberBase
    /\ UNCHANGED <<process, shutdown, orphans, kills>>

\* A signal starts a shutdown() of its own, whatever the other one has done.
Signal(sig) ==
    /\ process = "serving" /\ shutdown[sig] = "none"
    /\ shutdown' = [shutdown EXCEPT ![sig] = "server.close"]
    /\ UNCHANGED <<vars, process, sent, orphans, kills, base>>

\* Faulty variant for NothingLeftBehind and ExitBreaksNothing: server.close() is
\* not awaited.
CloseServerUnawaited(sig) ==
    /\ shutdown[sig] = "server.close"
    /\ shutdown' = [shutdown EXCEPT ![sig] = "sql.end"]
    /\ sent' = IF PoolEnding THEN sent ELSE Busy
    /\ UNCHANGED <<vars, process, orphans, kills, base>>

\* server.close() resolves when every request has its answer; sql.end() starts.
CloseServer(sig) ==
    /\ shutdown[sig] = "server.close"
    /\ \A s \in Busy : status[s] # 0
    /\ shutdown' = [shutdown EXCEPT ![sig] = "sql.end"]
    /\ sent' = IF PoolEnding THEN sent ELSE Busy
    /\ UNCHANGED <<vars, process, orphans, kills, base>>

\* Faulty variants for ProcessTypeOK and ShutdownEnds: sql.end() is not awaited;
\* the process waits for the shutdown() of either signal.
ExitUnawaited(sig) ==
    /\ shutdown[sig] = "sql.end"
    /\ process' = "exited" /\ shutdown' = NoShutdown
    /\ GiveUp(Busy)
    /\ UNCHANGED <<sent, orphans, kills, base>>
ExitTogether(sig) ==
    /\ shutdown[sig] = "sql.end" /\ sent = {}
    /\ \A other \in Signals : shutdown[other] = "sql.end"
    /\ process' = "exited" /\ shutdown' = NoShutdown
    /\ GiveUp(Busy)
    /\ UNCHANGED <<sent, orphans, kills, base>>

\* sql.end() resolves when no statement is in flight; process.exit(0) ends the
\* other signal's shutdown(), and would end a handler and its connection too.
Exit(sig) ==
    /\ shutdown[sig] = "sql.end" /\ sent = {}
    /\ process' = "exited" /\ shutdown' = NoShutdown
    /\ GiveUp(Busy)
    /\ UNCHANGED <<sent, orphans, kills, base>>

\* The process dies at any point, and its connections with it; what it had sent
\* to Postgres is on its way.
Kill ==
    /\ process = "serving" /\ kills < MaxKills
    /\ process' = "killed" /\ kills' = kills + 1
    /\ shutdown' = NoShutdown /\ sent' = {}
    /\ orphans' = orphans \cup Busy
    /\ Break(Busy)
    /\ UNCHANGED <<dbVars, pc, call, awaiting, found, change, applied, uncovered,
                   received, failures, base>>

\* Postgres executes a statement nobody waits for: its answer is lost.
OrphanRuns(s) ==
    /\ s \in orphans
    /\ Step(s) /\ failures' > failures /\ dbVars' # dbVars
    /\ orphans' = IF pc'[s] = "idle" THEN orphans \ {s} ELSE orphans
    /\ RememberBase
    /\ UNCHANGED <<process, shutdown, sent, kills>>

\* ... or notices that the client is gone, or never got the statement.
OrphanVanishes(s) ==
    /\ s \in orphans
    /\ GiveUp({s})
    /\ orphans' = orphans \ {s}
    /\ UNCHANGED <<process, shutdown, sent, kills, base>>

----------------------------------------------------------------------------
ProcessInit ==
    /\ Init
    /\ process = "serving" /\ shutdown = NoShutdown
    /\ sent = {} /\ orphans = {} /\ kills = 0
    /\ base = [t \in TenantIds |-> Model(t)]

Orphan(s) == OrphanRuns(s) \/ OrphanVanishes(s)

ProcessNext ==
    \/ \E s \in Slots : (\E c \in Calls : Arrive(s, c)) \/ Work(s) \/ Orphan(s)
    \/ \E sig \in Signals : Signal(sig) \/ CloseServer(sig) \/ Exit(sig)
    \/ Start
    \/ Kill

ProcessSpec == ProcessInit /\ [][ProcessNext]_allVars

\* Statements return or fail, so handlers and both awaits of shutdown() go on;
\* nothing makes a request, a signal, a kill or a start happen.
FairProcessSpec ==
    /\ ProcessSpec
    /\ \A s \in Slots : WF_allVars(Work(s)) /\ WF_allVars(Orphan(s))
    /\ \A sig \in Signals : WF_allVars(CloseServer(sig)) /\ WF_allVars(Exit(sig))

----------------------------------------------------------------------------
(* Properties. *)

\* Types: orphans and the statements an end waits for are statements, and an
\* orphan belongs to a killed process.
ProcessTypeOK ==
    /\ process \in {"serving", "exited", "killed"}
    /\ shutdown \in [Signals -> {"none", "server.close", "sql.end"}]
    /\ sent \subseteq Busy
    /\ orphans \subseteq {s \in Slots : pc[s] # "idle"}
    /\ kills \in 0..MaxKills
    /\ kills = 0 => orphans = {}
    /\ process # "serving" => shutdown = NoShutdown

\* A process that ends by shutdown() ends between requests: unless a statement
\* failed, a process was killed before or a counter is at its limit, it leaves no
\* row whose counter is still to be incremented.
NothingLeftBehind ==
    process = "exited" /\ failures = 0 /\ kills = 0 =>
      \A u \in uncovered : policyVersion[u.tenant] = IntMax

\* "Graceful shutdown (... process must not be killed mid-audit-write)": when
\* process.exit(0) comes no client still waits for its answer, so none sees its
\* connection break by it.
ExitBreaksNothing ==
    [][process = "serving" /\ process' = "exited" =>
         \A s \in Slots : status'[s] = Broken => status[s] = Broken]_allVars

\* The changes whose requests were answered with success.
Told == UNION {change[s] : s \in {z \in Slots : status[z] \in {201, 204}}}

Promise == INSTANCE Invalidation WITH
    Tenants <- TenantIds, Changes <- Change,
    model <- [t \in TenantIds |-> Model(t)], version <- policyVersion,
    stale <- uncovered, told <- Told

\* The tables, the handlers and the processes that run and die around them keep
\* the promise of policy_version: only a change that is then waiting for an
\* increment alters what decisions depend on, only an increment ends the wait,
\* and nobody is told of a change before it.
KeepsThePromise == Promise!Spec

\* While nothing waits, the model is the one policy_version was given for:
\* caching by policy_version is right.
VersionIdentifies == Promise!VersionIdentifies

\* A signal ends the process, whatever is in progress.
ShutdownEnds ==
    \A sig \in Signals : shutdown[sig] # "none" ~> process # "serving"
====
