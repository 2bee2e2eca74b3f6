---- MODULE ManagementProcessProofs ----
(***************************************************************************)
(* Theorems about ManagementProcess, for every value of its constants.     *)
(* A step of it is a step of AccessControl, whose lemmas then apply, or    *)
(* gives slots up, or leaves the tables and the slots alone.               *)
(***************************************************************************)
EXTENDS ManagementProcess, AccessControlProofs

\* An idle slot that has not answered has not been called.
CallAnswered == \A s \in Slots : pc[s] = "idle" /\ status[s] = 0 => call[s] = NoCall

\* A tenant has a counter and a counter has a tenant.
VersionsKnown == \A t \in TenantIds : HasTenant(t) <=> policyVersion[t] > 0

TablesInv ==
    /\ TypeInv /\ IsolationInv /\ AckInv
    /\ \A s \in Slots : TenantKnown(s)
    /\ CallAnswered /\ VersionsKnown

\* What is at work in the process has its connection.  Once the pool ends, it has
\* its answer and a statement that sql.end() waits for; after the exit nothing is
\* at work.
PoolInv ==
    /\ \A s \in Busy : status[s] # Broken
    /\ PoolEnding => Busy \subseteq sent /\ \A s \in Busy : status[s] # 0
    /\ process = "exited" => Busy = {}

ProcessInv ==
    /\ TablesInv /\ ProcessTypeOK /\ PoolInv
    /\ kills = 0 => OwedInv

----------------------------------------------------------------------------
(* What kinds of steps there are. *)

\* The requests in S end where they are, and the clients of B that have no
\* answer lose their connections.
Loses(S, B) ==
    /\ S \subseteq B
    /\ pc' = [s \in Slots |-> IF s \in S THEN "idle" ELSE pc[s]]
    /\ Break(B)
    /\ awaiting' = [s \in Slots |-> IF s \in S THEN {} ELSE awaiting[s]]
    /\ UNCHANGED <<dbVars, call, found, change, applied, uncovered, received, failures>>

LEMMA StepKinds ==
    ASSUME TypeInv, [ProcessNext]_allVars
    PROVE  \/ UNCHANGED <<vars, base>>
           \/ (\E s \in Slots, c \in Calls : Arrive(s, c))
           \/ (\E s \in Slots : Step(s) /\ RememberBase)
           \/ (\E S, B \in SUBSET Slots : Loses(S, B) /\ UNCHANGED base)
<1>1. ASSUME NEW sig \in Signals, Exit(sig)
      PROVE  \E S, B \in SUBSET Slots : Loses(S, B) /\ UNCHANGED base
  <2>1. Busy \in SUBSET Slots /\ GiveUp(Busy) /\ UNCHANGED base
    BY <1>1 DEF Exit, Busy
  <2> QED
    BY <2>1 DEF GiveUp, Loses
<1>2. ASSUME NEW s \in Slots, OrphanVanishes(s)
      PROVE  \E S, B \in SUBSET Slots : Loses(S, B) /\ UNCHANGED base
  <2>1. {s} \in SUBSET Slots /\ GiveUp({s}) /\ UNCHANGED base
    BY <1>2 DEF OrphanVanishes
  <2> QED
    BY <2>1 DEF GiveUp, Loses
<1>3. CASE Kill
  <2>1. /\ pc = [s \in Slots |-> IF s \in {} THEN "idle" ELSE pc[s]]
        /\ awaiting = [s \in Slots |-> IF s \in {} THEN {} ELSE awaiting[s]]
    BY DEF TypeInv, TypeOK
  <2>2. Busy \in SUBSET Slots /\ {} \subseteq Busy /\ Break(Busy) /\ UNCHANGED base
    BY <1>3 DEF Kill, Busy
  <2>3. Loses({}, Busy)
    BY <1>3, <2>1, <2>2 DEF Kill, Loses
  <2> QED
    BY <2>2, <2>3
<1> QED
  BY <1>1, <1>2, <1>3 DEF ProcessNext, Orphan, Work, OrphanRuns, Signal, CloseServer, Start,
     allVars

----------------------------------------------------------------------------
(* Losing requests and connections preserves what holds of the tables. *)

LEMMA LosesTables ==
    ASSUME TablesInv, NEW S \in SUBSET Slots, NEW B \in SUBSET Slots, Loses(S, B)
    PROVE  TablesInv'
<1> USE DEF Loses, Break, Broken, dbVars
<1>1. TypeInv'
  BY DEF TablesInv, TypeInv, TypeOK, CallSent
<1>2. UniqueIds' /\ TenantIsolation'
  BY DEF TablesInv, IsolationInv, UniqueIds, TenantIsolation, SameTenant
<1>3. ASSUME NEW s \in Slots PROVE EndsChecked(s)'
  BY DEF TablesInv, IsolationInv, EndsChecked, EndFound, FindById
<1>4. ASSUME NEW s \in Slots PROVE Accounted(s)'
  <2>1. Accounted(s)
    BY DEF TablesInv, AckInv
  <2>2. /\ pc'[s] # "idle" => pc'[s] = pc[s] /\ awaiting'[s] = awaiting[s]
        /\ status'[s] = status[s] \/ (status[s] = 0 /\ status'[s] = Broken)
    OBVIOUS
  <2>3. status'[s] \in {201, 204} => status'[s] = status[s] /\ pc'[s] = "idle"
    BY <2>1 DEF Accounted
  <2>4. \A u \in change[s] : u.tenant = call[s].tenant /\ Written(u)'
    <3>1. rows' = rows /\ rolePermissions' = rolePermissions /\ principalRoles' = principalRoles
      OBVIOUS
    <3>2. \A u : Written(u) => Written(u)'
      BY <3>1 DEF Written, UsedIds
    <3> QED
      BY <2>1, <3>2 DEF Accounted
  <2>5. call' = call /\ change' = change /\ applied' = applied /\ uncovered' = uncovered
    OBVIOUS
  <2> HIDE DEF Loses
  <2>6. pc'[s] \in Early => status'[s] \in {0, Broken} /\ change'[s] = {} /\ applied'[s] = {}
    BY <2>1, <2>2, <2>5 DEF Accounted, Early
  <2>7. pc'[s] = "bump" =>
          /\ status'[s] \in {0, Broken, 500}
          /\ status'[s] = 0 => Increments(call'[s].op) \subseteq awaiting'[s] \cup applied'[s]
    BY <2>1, <2>2, <2>5 DEF Accounted
  <2> QED
    BY <2>1, <2>3, <2>4, <2>5, <2>6, <2>7 DEF Accounted
<1>5. ASSUME NEW s \in Slots PROVE TenantKnown(s)'
  BY DEF TablesInv, TenantKnown, HasTenant
<1>6. CallAnswered'
  BY DEF TablesInv, CallAnswered
<1>7. VersionsKnown'
  BY DEF TablesInv, VersionsKnown, HasTenant
<1> QED
  BY <1>1, <1>2, <1>3, <1>4, <1>5, <1>6, <1>7 DEF TablesInv, IsolationInv, AckInv

----------------------------------------------------------------------------
(* Steps of AccessControl preserve it too. *)

LEMMA SettleAnswers ==
    ASSUME TypeInv, NEW s \in Slots, NEW part, NEW ok \in BOOLEAN, Settle(s, part, ok),
           pc[s] = "bump"
    PROVE  /\ pc'[s] = "idle" => status'[s] # 0
           /\ status'[s] = Broken => status[s] = Broken
<1> USE DEF Broken
<1>1. /\ status \in [Slots -> {0, Broken, 201, 204, 400, 404, 409, 500}]
      /\ pc \in [Slots -> {"idle", "tenant", "insert", "lookup", "recheck", "link", "bump"}]
  BY DEF TypeInv, TypeOK
<1> DEFINE rest == awaiting[s] \ {part}
<1>2. CASE rest = {}
  BY <1>1, <1>2 DEF Settle, SuccessCode
<1>3. CASE rest # {}
  BY <1>1, <1>3 DEF Settle
<1> QED
  BY <1>2, <1>3

\* A request ends with an answer, unless its connection was broken before.
LEMMA StepAnswers ==
    ASSUME TypeInv, NEW s \in Slots,
           (\E c \in Calls : Receive(s, c)) \/ Step(s)
    PROVE  /\ pc'[s] = "idle" => status'[s] # 0
           /\ status'[s] = Broken => status[s] = Broken
<1> USE DEF Broken
<1> pc \in [Slots -> {"idle", "tenant", "insert", "lookup", "recheck", "link", "bump"}]
    /\ status \in [Slots -> {0, Broken, 201, 204, 400, 404, 409, 500}]
  BY DEF TypeInv, TypeOK
<1>1. CASE \E c \in Calls : Receive(s, c)
  BY <1>1 DEF Receive
<1>2. CASE RequireTenant(s) \/ RecheckRole(s)
  BY <1>2 DEF RequireTenant, RecheckRole, Answer, GoTo
<1>3. CASE CreateTenant(s) \/ CreatePrincipal(s)
  BY <1>3 DEF CreateTenant, CreatePrincipal, Answer
<1>4. CASE CreateModelRow(s)
  BY <1>4 DEF CreateModelRow, Answer, GoTo
<1>5. CASE \E end \in {"of", "to"} : Lookup(s, end)
  BY <1>5 DEF Lookup, Answer, GoTo
<1>6. CASE LinkPermission(s) \/ LinkRole(s)
  BY <1>6, LinkReturnsLemma DEF LinkReturns, Answer, GoTo
<1>7. ASSUME NEW part, NEW ok \in BOOLEAN, Settle(s, part, ok), pc[s] = "bump"
      PROVE  /\ pc'[s] = "idle" => status'[s] # 0
             /\ status'[s] = Broken => status[s] = Broken
  BY <1>7, SettleAnswers
<1>8. CASE IncrementPolicyVersion(s) \/ IncrementPrincipalVersion(s)
  <2>1. pc[s] = "bump" /\ \E part \in {"policy", "principal"}, ok \in BOOLEAN : Settle(s, part, ok)
    BY <1>8, SettlePolicy, SettlePrincipal DEF IncrementPolicyVersion, IncrementPrincipalVersion
  <2> QED
    BY <1>7, <2>1
<1>9. CASE StatementFails(s)
  <2>1. CASE pc[s] = "bump"
    BY <1>7, <1>9, <2>1 DEF StatementFails
  <2>2. CASE pc[s] # "bump"
    BY <1>9, <2>2 DEF StatementFails, Answer
  <2> QED
    BY <2>1, <2>2
<1> QED
  BY <1>1, <1>2, <1>3, <1>4, <1>5, <1>6, <1>7, <1>8, <1>9 DEF Step

LEMMA NextCallAnswered ==
    ASSUME TypeInv, CallAnswered, NEW s \in Slots,
           (\E c \in Calls : Receive(s, c)) \/ Step(s)
    PROVE  CallAnswered'
<1>1. \A z \in Slots \ {s} : Untouched(z)
  BY OthersUntouched
<1> QED
  BY <1>1, StepAnswers DEF CallAnswered, Untouched

\* The three things a step can do to the counters.
LEMMA VersionCases ==
    ASSUME TypeInv, NEW s \in Slots, Step(s)
    PROVE  \/ UNCHANGED <<policyVersion, tenants>>
           \/ \E t \in TenantIds :
                /\ CreateTenant(s) /\ ~HasTenant(t) /\ UNCHANGED rows
                /\ tenants' = tenants \cup {[id |-> t, slug |-> call[s].key]}
                /\ policyVersion' = [policyVersion EXCEPT ![t] = 1]
           \/ \E t \in TenantIds :
                /\ IncrementPolicyVersion(s) /\ t = call[s].tenant
                /\ HasTenant(t) /\ UNCHANGED tenants
                /\ policyVersion' = [policyVersion EXCEPT ![t] = @ + 1]
                /\ uncovered' = {u \in uncovered : u.tenant # t}
<1>1. CASE CreateTenant(s)
  BY <1>1 DEF CreateTenant
<1>2. CASE IncrementPolicyVersion(s)
  <2>1. UNCHANGED tenants
    BY <1>2 DEF IncrementPolicyVersion
  <2>2. call[s] \in AllCalls /\ pc[s] # "idle" /\ pc[s] = "bump"
    BY <1>2, CallTypes DEF IncrementPolicyVersion
  <2>3. HasTenant(call[s].tenant) => call[s].tenant \in TenantIds
    BY DEF TypeInv, TypeOK, HasTenant, TenantRow
  <2> QED
    BY <1>2, <2>1, <2>3, PolicyVersionCases
<1> QED
  BY <1>1, <1>2 DEF Step, RequireTenant, CreatePrincipal, CreateModelRow, Lookup,
     RecheckRole, LinkPermission, LinkRole, IncrementPrincipalVersion, StatementFails,
     dbVars

LEMMA NextVersionsKnown ==
    ASSUME TypeInv, VersionsKnown, NEW s \in Slots, Step(s)
    PROVE  VersionsKnown'
<1> SUFFICES ASSUME NEW z \in TenantIds PROVE HasTenant(z)' <=> policyVersion'[z] > 0
  BY DEF VersionsKnown
<1>1. HasTenant(z) <=> policyVersion[z] > 0
  BY DEF VersionsKnown
<1>2. policyVersion \in [TenantIds -> Nat]
  BY ParametersAssumption DEF TypeInv, TypeOK
<1>3. CASE UNCHANGED <<policyVersion, tenants>>
  BY <1>1, <1>3 DEF HasTenant
<1>4. ASSUME NEW t \in TenantIds,
             tenants' = tenants \cup {[id |-> t, slug |-> call[s].key]},
             policyVersion' = [policyVersion EXCEPT ![t] = 1]
      PROVE  HasTenant(z)' <=> policyVersion'[z] > 0
  <2>1. HasTenant(z)' <=> HasTenant(z) \/ z = t
    <3> DEFINE new == [id |-> t, slug |-> call[s].key]
    <3>1. new.id = t
      OBVIOUS
    <3>2. tenants' = tenants \cup {new}
      BY <1>4
    <3> HIDE DEF new
    <3> QED
      BY <3>1, <3>2 DEF HasTenant
  <2>2. policyVersion'[z] = IF z = t THEN 1 ELSE policyVersion[z]
    BY <1>2, <1>4
  <2> QED
    BY <1>1, <2>1, <2>2
<1>5. ASSUME NEW t \in TenantIds, HasTenant(t), UNCHANGED tenants,
             policyVersion' = [policyVersion EXCEPT ![t] = @ + 1]
      PROVE  HasTenant(z)' <=> policyVersion'[z] > 0
  <2>1. HasTenant(z)' <=> HasTenant(z)
    BY <1>5 DEF HasTenant
  <2>2. policyVersion'[z] = IF z = t THEN policyVersion[z] + 1 ELSE policyVersion[z]
    BY <1>2, <1>5
  <2> QED
    BY <1>1, <1>2, <1>5, <2>1, <2>2
<1> QED
  BY <1>3, <1>4, <1>5, VersionCases

LEMMA NextTables ==
    ASSUME TablesInv, NEW s \in Slots, (\E c \in Calls : Receive(s, c)) \/ Step(s)
    PROVE  TablesInv'
<1>1. [Next]_vars
  BY DEF Next
<1>2. TypeInv' /\ IsolationInv' /\ AckInv'
  BY <1>1, NextTypes, NextIsolation, NextAckInv DEF TablesInv
<1>3. \A z \in Slots : TenantKnown(z)'
  BY <1>1, NextTenantKnown DEF TablesInv
<1>4. CallAnswered'
  BY NextCallAnswered DEF TablesInv
<1>5. VersionsKnown'
  <2>1. CASE Step(s)
    BY <2>1, NextVersionsKnown DEF TablesInv
  <2>2. CASE \E c \in Calls : Receive(s, c)
    BY <2>2 DEF Receive, dbVars, TablesInv, VersionsKnown, HasTenant
  <2> QED
    BY <2>1, <2>2
<1> QED
  BY <1>2, <1>3, <1>4, <1>5 DEF TablesInv

LEMMA StutterTables == TablesInv /\ UNCHANGED vars => TablesInv'
<1> SUFFICES ASSUME TablesInv, UNCHANGED vars PROVE TablesInv'
  OBVIOUS
<1>1. [Next]_vars
  OBVIOUS
<1>2. TypeInv' /\ IsolationInv' /\ AckInv'
  BY <1>1, NextTypes, NextIsolation, NextAckInv DEF TablesInv
<1>3. \A z \in Slots : TenantKnown(z)'
  BY <1>1, NextTenantKnown DEF TablesInv
<1> QED
  BY <1>2, <1>3 DEF TablesInv, CallAnswered, VersionsKnown, HasTenant, vars, dbVars, slotVars

LEMMA ProcessTables == TablesInv /\ [ProcessNext]_allVars => TablesInv'
<1> SUFFICES ASSUME TablesInv, [ProcessNext]_allVars PROVE TablesInv'
  OBVIOUS
<1>1. ASSUME NEW s \in Slots, NEW c \in Calls, Arrive(s, c) PROVE TablesInv'
  BY <1>1, NextTables DEF Arrive
<1>2. ASSUME NEW s \in Slots, Step(s) PROVE TablesInv'
  BY <1>2, NextTables
<1>3. ASSUME NEW S \in SUBSET Slots, NEW B \in SUBSET Slots, Loses(S, B) PROVE TablesInv'
  BY <1>3, LosesTables
<1> QED
  BY <1>1, <1>2, <1>3, StepKinds, StutterTables DEF TablesInv

LEMMA InitTables == ProcessInit => TablesInv
<1> SUFFICES ASSUME ProcessInit PROVE TablesInv
  OBVIOUS
<1>1. Init
  BY DEF ProcessInit
<1>2. TypeInv /\ IsolationInv /\ AckInv
  BY <1>1, InitTypes, InitIsolation, InitAck
<1>3. \A s \in Slots : TenantKnown(s)
  BY <1>1 DEF Init, TenantKnown
<1>4. CallAnswered /\ VersionsKnown
  BY <1>1 DEF Init, CallAnswered, VersionsKnown, HasTenant
<1> QED
  BY <1>2, <1>3, <1>4 DEF TablesInv

----------------------------------------------------------------------------
(* The process: what is at work, what an ending pool waits for. *)

\* A step of a slot leaves the pc and the status of the others alone.
LEMMA OtherSlots ==
    ASSUME TypeInv, NEW s \in Slots, (\E c \in Calls : Receive(s, c)) \/ Step(s)
    PROVE  \A z \in Slots \ {s} : pc'[z] = pc[z] /\ status'[z] = status[z]
  BY OthersUntouched DEF Untouched

LEMMA GiveUpSlots ==
    ASSUME NEW S, GiveUp(S)
    PROVE  \A z \in Slots : /\ pc'[z] = IF z \in S THEN "idle" ELSE pc[z]
                            /\ z \notin S => status'[z] = status[z]
  BY DEF GiveUp, Break

\* An orphan that goes on or goes away makes no slot of the process busy.
LEMMA OrphanSlots ==
    ASSUME TypeInv, ProcessTypeOK, NEW s \in Slots, Orphan(s)
    PROVE  /\ s \in orphans /\ orphans' \subseteq orphans
           /\ s \in orphans' => pc'[s] # "idle"
           /\ s \notin orphans' => pc'[s] = "idle"
           /\ \A z \in Slots \ {s} : /\ pc'[z] = pc[z] /\ status'[z] = status[z]
                                     /\ z \in orphans' <=> z \in orphans
           /\ UNCHANGED <<process, shutdown, sent, kills>>
<1>1. CASE OrphanRuns(s)
  <2>1. \A z \in Slots \ {s} : pc'[z] = pc[z] /\ status'[z] = status[z]
    BY <1>1, OtherSlots DEF OrphanRuns
  <2> QED
    BY <1>1, <2>1 DEF OrphanRuns
<1>2. CASE OrphanVanishes(s)
  <2>1. \A z \in Slots : /\ pc'[z] = IF z \in {s} THEN "idle" ELSE pc[z]
                         /\ z \notin {s} => status'[z] = status[z]
    BY <1>2, GiveUpSlots DEF OrphanVanishes
  <2> QED
    BY <1>2, <2>1 DEF OrphanVanishes
<1> QED
  BY <1>1, <1>2 DEF Orphan

LEMMA ProcessTypes ==
    TypeInv /\ ProcessTypeOK /\ [ProcessNext]_allVars => ProcessTypeOK'
<1> SUFFICES ASSUME TypeInv, ProcessTypeOK, [ProcessNext]_allVars PROVE ProcessTypeOK'
  OBVIOUS
<1> USE DEF ProcessTypeOK, Busy
<1>1. ASSUME NEW s \in Slots, NEW c \in Calls, Arrive(s, c) PROVE ProcessTypeOK'
  <2>1. Receive(s, c) /\ UNCHANGED processVars /\ pc[s] = "idle"
    BY <1>1 DEF Arrive, Receive
  <2>2. \A z \in Slots \ {s} : pc'[z] = pc[z]
    BY <2>1, OtherSlots
  <2> QED
    BY <2>1, <2>2 DEF processVars
<1>2. ASSUME NEW s \in Slots, Work(s) PROVE ProcessTypeOK'
  <2>1. \A z \in Slots \ {s} : pc'[z] = pc[z]
    BY <1>2, OtherSlots DEF Work
  <2>2. /\ s \notin orphans /\ UNCHANGED <<process, shutdown, orphans, kills>>
        /\ sent' = IF pc'[s] = pc[s] THEN sent ELSE sent \ {s}
    BY <1>2 DEF Work
  <2> QED
    BY <2>1, <2>2
<1>3. ASSUME NEW s \in Slots, Orphan(s) PROVE ProcessTypeOK'
  BY <1>3, OrphanSlots
<1>4. ASSUME NEW sig \in Signals, Signal(sig) PROVE ProcessTypeOK'
  BY <1>4 DEF Signal, vars, slotVars
<1>5. ASSUME NEW sig \in Signals, CloseServer(sig) PROVE ProcessTypeOK'
  <2>1. process = "serving"
    BY <1>5 DEF CloseServer, NoShutdown
  <2> QED
    BY <1>5, <2>1 DEF CloseServer, vars, slotVars
<1>6. ASSUME NEW sig \in Signals, Exit(sig) PROVE ProcessTypeOK'
  <2>1. \A z \in Slots : pc'[z] = IF z \in Busy THEN "idle" ELSE pc[z]
    BY <1>6, GiveUpSlots DEF Exit
  <2> QED
    BY <1>6, <2>1 DEF Exit, NoShutdown
<1>7. CASE Start
  BY <1>7 DEF Start, vars, slotVars
<1>8. CASE Kill
  BY <1>8, KillsAssumption DEF Kill, NoShutdown
<1>9. CASE UNCHANGED allVars
  BY <1>9 DEF allVars, vars, slotVars, processVars
<1> QED
  BY <1>1, <1>2, <1>3, <1>4, <1>5, <1>6, <1>7, <1>8, <1>9 DEF ProcessNext

\* A slot that has its answer and is still at work has an increment in flight.
LEMMA BumpSteps ==
    ASSUME TypeInv, AckInv, NEW s \in Slots, Step(s), status[s] \notin {0, Broken},
           pc[s] # "idle"
    PROVE  status'[s] \notin {0, Broken} /\ pc'[s] \in {"idle", pc[s]}
<1>1. pc[s] = "bump"
  BY DEF AckInv, Accounted, Early, TypeInv, TypeOK
<1>2. \E part, ok : Settle(s, part, ok)
  <2>1. CASE IncrementPolicyVersion(s) \/ IncrementPrincipalVersion(s)
    BY <2>1, SettlePolicy, SettlePrincipal
  <2>2. CASE StatementFails(s)
    BY <1>1, <2>2 DEF StatementFails
  <2> QED
    BY <1>1, <2>1, <2>2 DEF Step, RequireTenant, CreateTenant, CreatePrincipal,
       CreateModelRow, Lookup, RecheckRole, LinkPermission, LinkRole
<1> QED
  BY <1>1, <1>2 DEF Settle, TypeInv, TypeOK

LEMMA NextPool ==
    TablesInv /\ ProcessTypeOK /\ PoolInv /\ [ProcessNext]_allVars => PoolInv'
<1> SUFFICES ASSUME TablesInv, ProcessTypeOK, PoolInv, [ProcessNext]_allVars
             PROVE  PoolInv'
  OBVIOUS
<1>0. TypeInv /\ AckInv
  BY DEF TablesInv
<1> USE DEF PoolInv, PoolEnding, Busy
<1>1. ASSUME NEW s \in Slots, NEW c \in Calls, Arrive(s, c) PROVE PoolInv'
  <2>1. /\ process' = "serving" /\ \A sig \in Signals : shutdown'[sig] = "none"
        /\ UNCHANGED orphans /\ Receive(s, c)
    BY <1>1 DEF Arrive, ShuttingDown, processVars
  <2>2. \A z \in Slots \ {s} : pc'[z] = pc[z] /\ status'[z] = status[z]
    BY <1>0, <2>1, OtherSlots
  <2>3. status'[s] # Broken
    BY <1>0, <2>1 DEF Receive, Broken, TypeInv, TypeOK
  <2> QED
    BY <2>1, <2>2, <2>3
<1>2. ASSUME NEW s \in Slots, Work(s) PROVE PoolInv'
  <2>1. \A z \in Slots \ {s} : pc'[z] = pc[z] /\ status'[z] = status[z]
    BY <1>0, <1>2, OtherSlots DEF Work
  <2>2. /\ process' = "serving" /\ UNCHANGED <<shutdown, orphans>> /\ Step(s)
        /\ s \notin orphans
        /\ sent' = IF pc'[s] = pc[s] THEN sent ELSE sent \ {s}
    BY <1>2 DEF Work
  <2>a. pc[s] # "idle"
    BY <2>2 DEF Step, RequireTenant, CreateTenant, CreatePrincipal, CreateModelRow, Lookup,
       RecheckRole, LinkPermission, LinkRole, IncrementPolicyVersion,
       IncrementPrincipalVersion, StatementFails
  <2>b. \A z \in Busy' : status'[z] # Broken
    <3>1. status'[s] # Broken
      BY <1>0, <2>2, <2>a, StepAnswers
    <3> QED
      BY <2>1, <2>2, <3>1
  <2>3. CASE PoolEnding
    <3>1. s \in sent
      BY <1>2, <2>3 DEF Work
    <3>2. pc[s] # "idle" /\ status[s] \notin {0, Broken}
      BY <2>3, <3>1 DEF ProcessTypeOK
    <3>3. status'[s] # 0 /\ pc'[s] \in {"idle", pc[s]}
      BY <1>0, <2>2, <3>2, BumpSteps
    <3>4. ASSUME NEW z \in Busy' PROVE z \in sent' /\ status'[z] # 0
      <4>1. z \in Slots \ orphans /\ pc'[z] # "idle"
        BY <2>2, <3>4
      <4>2. CASE z = s
        BY <2>2, <3>1, <3>3, <4>1, <4>2
      <4>3. CASE z # s
        BY <2>1, <2>2, <2>3, <4>1, <4>3
      <4> QED
        BY <4>2, <4>3
    <3> QED
      BY <2>2, <2>b, <3>4
  <2>4. CASE ~PoolEnding
    BY <2>2, <2>4, <2>b
  <2> QED
    BY <2>3, <2>4
<1>3. ASSUME NEW s \in Slots, Orphan(s) PROVE PoolInv'
  <2>1. \A z \in Busy' : z \in Busy /\ status'[z] = status[z]
    BY <1>0, <1>3, OrphanSlots
  <2>2. UNCHANGED <<process, shutdown, sent>>
    BY <1>0, <1>3, OrphanSlots
  <2> QED
    BY <2>1, <2>2
<1>4. ASSUME NEW sig \in Signals, Signal(sig) PROVE PoolInv'
  <2>1. PoolEnding' => PoolEnding
    BY <1>4 DEF Signal, ProcessTypeOK
  <2>2. process' = "serving" /\ UNCHANGED <<sent, orphans, pc, status>>
    BY <1>4 DEF Signal, vars, slotVars
  <2> QED
    BY <2>1, <2>2
<1>5. ASSUME NEW sig \in Signals, CloseServer(sig) PROVE PoolInv'
  <2>1. /\ UNCHANGED <<process, orphans, pc, status>>
        /\ sent' = IF PoolEnding THEN sent ELSE Busy
        /\ \A s \in Busy : status[s] # 0
        /\ \A s \in Busy : status[s] # Broken
    BY <1>5 DEF CloseServer, vars, slotVars
  <2>2. Busy' = Busy
    BY <2>1
  <2> HIDE DEF PoolEnding, Busy
  <2> QED
    BY <2>1, <2>2
<1>6. ASSUME NEW sig \in Signals, Exit(sig) PROVE PoolInv'
  <2>1. \A z \in Slots : pc'[z] = IF z \in Busy THEN "idle" ELSE pc[z]
    BY <1>6, GiveUpSlots DEF Exit
  <2> QED
    BY <1>6, <2>1 DEF Exit, NoShutdown
<1>7. CASE Start
  BY <1>7 DEF Start, ProcessTypeOK, NoShutdown, vars, slotVars
<1>8. CASE Kill
  BY <1>8 DEF Kill, NoShutdown
<1>9. CASE UNCHANGED allVars
  BY <1>9 DEF allVars, vars, slotVars, processVars
<1> QED
  BY <1>1, <1>2, <1>3, <1>4, <1>5, <1>6, <1>7, <1>8, <1>9 DEF ProcessNext

\* Without a kill, giving up is left to an exit that finds nothing to give up.
LEMMA NextProcessOwed ==
    ProcessInv /\ [ProcessNext]_allVars => (kills' = 0 => OwedInv')
<1> SUFFICES ASSUME ProcessInv, [ProcessNext]_allVars, kills' = 0 PROVE OwedInv'
  OBVIOUS
<1>1. TypeInv
  BY DEF ProcessInv, TablesInv
<1>2. kills = 0
  <2>1. kills' = kills \/ kills' = kills + 1
    BY DEF ProcessNext, Arrive, Work, Orphan, OrphanRuns, OrphanVanishes, Signal,
       CloseServer, Exit, Start, Kill, allVars, processVars
  <2>2. kills \in Nat
    BY KillsAssumption DEF ProcessInv, ProcessTypeOK
  <2> QED
    BY <2>1, <2>2
<1>3. OwedInv /\ orphans = {}
  BY <1>2 DEF ProcessInv, ProcessTypeOK
<1>4. [Next]_vars => OwedInv'
  BY <1>1, <1>3, NextOwed
<1>5. ASSUME NEW s \in Slots, NEW c \in Calls, Arrive(s, c) PROVE OwedInv'
  BY <1>4, <1>5 DEF Arrive, Next
<1>6. ASSUME NEW s \in Slots, Work(s) PROVE OwedInv'
  BY <1>4, <1>6 DEF Work, Next
<1>7. ASSUME NEW sig \in Signals, Exit(sig) PROVE OwedInv'
  <2>1. Busy = {}
    BY <1>7 DEF Exit, ProcessInv, PoolInv, PoolEnding
  <2>2. UNCHANGED vars
    <3>1. GiveUp({})
      BY <1>7, <2>1 DEF Exit
    <3>2. /\ pc = [s \in Slots |-> pc[s]] /\ status = [s \in Slots |-> status[s]]
          /\ awaiting = [s \in Slots |-> awaiting[s]]
      BY <1>1 DEF TypeInv, TypeOK
    <3> QED
      BY <3>1, <3>2 DEF GiveUp, Break, vars, slotVars
  <2> QED
    BY <1>4, <2>2
<1>8. ASSUME NEW s \in Slots PROVE ~Orphan(s)
  BY <1>3 DEF Orphan, OrphanRuns, OrphanVanishes
<1>a. ~Kill
  BY <1>2 DEF Kill
<1>9. \/ UNCHANGED vars
      \/ \E s \in Slots : (\E c \in Calls : Arrive(s, c)) \/ Work(s)
      \/ \E sig \in Signals : Exit(sig)
  BY <1>8, <1>a DEF ProcessNext, Signal, CloseServer, Start, allVars
<1> QED
  BY <1>4, <1>5, <1>6, <1>7, <1>9

LEMMA InitProcess == ProcessInit => ProcessInv
<1> SUFFICES ASSUME ProcessInit PROVE ProcessInv
  OBVIOUS
<1>1. OwedInv
  BY InitOwed DEF ProcessInit
<1>2. ProcessTypeOK /\ PoolInv
  BY KillsAssumption DEF ProcessInit, Init, ProcessTypeOK, PoolInv, PoolEnding, Busy, NoShutdown
<1> QED
  BY <1>1, <1>2, InitTables DEF ProcessInv

LEMMA NextProcess == ProcessInv /\ [ProcessNext]_allVars => ProcessInv'
<1> SUFFICES ASSUME ProcessInv, [ProcessNext]_allVars PROVE ProcessInv'
  OBVIOUS
<1>1. TablesInv' /\ ProcessTypeOK' /\ PoolInv'
  BY ProcessTables, ProcessTypes, NextPool DEF ProcessInv, TablesInv
<1> QED
  BY <1>1, NextProcessOwed DEF ProcessInv

\* Whatever signals, kills and starts do: orphans are statements of a killed
\* process, and nothing but a serving process shuts down.
THEOREM ProcessTypeCorrect == ProcessSpec => []ProcessTypeOK
<1>1. ProcessInv => ProcessTypeOK
  BY DEF ProcessInv
<1> QED
  BY InitProcess, NextProcess, <1>1, PTL DEF ProcessSpec

\* A process that ends by shutdown() leaves no row whose counter is still to be
\* incremented, unless a statement failed, a process was killed before or a
\* counter is at its limit.
THEOREM ShutdownLeavesNothing == ProcessSpec => []NothingLeftBehind
<1>1. ASSUME ProcessInv, process = "exited", failures = 0, kills = 0, NEW u \in uncovered
      PROVE  policyVersion[u.tenant] = IntMax
  <2>1. orphans = {} /\ ChangesOwed
    BY <1>1 DEF ProcessInv, ProcessTypeOK, OwedInv
  <2>2. \A s \in Slots : pc[s] = "idle"
    BY <1>1, <2>1 DEF ProcessInv, PoolInv, Busy
  <2> QED
    BY <1>1, <2>1, <2>2 DEF ChangesOwed
<1>2. ProcessInv => NothingLeftBehind
  BY <1>1 DEF NothingLeftBehind
<1> QED
  BY InitProcess, NextProcess, <1>2, PTL DEF ProcessSpec

\* When process.exit(0) comes, no client waits for its answer: server.close() has
\* waited for all of them, nobody came after it, and sql.end() has let the
\* statements in flight of those that were answered finish.
THEOREM ShutdownBreaksNothing == ProcessSpec => ExitBreaksNothing
<1>1. ASSUME ProcessInv, [ProcessNext]_allVars, process = "serving", process' = "exited"
      PROVE  \A s \in Slots : status'[s] = Broken => status[s] = Broken
  <2>1. PICK sig \in Signals : Exit(sig)
    BY <1>1 DEF ProcessNext, Arrive, Work, Orphan, OrphanRuns, OrphanVanishes, Signal,
       CloseServer, Start, Kill, allVars, processVars
  <2>2. PoolEnding /\ sent = {}
    BY <2>1 DEF Exit, PoolEnding
  <2>3. Busy = {}
    BY <1>1, <2>2 DEF ProcessInv, PoolInv
  <2>4. \A s \in Slots : status'[s] = status[s]
    BY <2>1, <2>3, GiveUpSlots DEF Exit
  <2> QED
    BY <2>4
<1>2. ProcessInv /\ [ProcessNext]_allVars =>
        [process = "serving" /\ process' = "exited" =>
           \A s \in Slots : status'[s] = Broken => status[s] = Broken]_allVars
  BY <1>1
<1> QED
  BY InitProcess, NextProcess, <1>2, PTL DEF ProcessSpec, ExitBreaksNothing

----------------------------------------------------------------------------
(* The refinement.  A statement changes the model of one tenant at most:   *)
(* ids are unique, and the ends of a link were found in its tenant.        *)

PoliciesOf(t) == {x \in rows["policies"] : x.tenant = t}
PermissionsOf(t) == {x \in rows["permissions"] : x.tenant = t}
HoldsRole(p, i) == \E pr \in principalRoles : pr.of = p /\ pr.to = i
Grants(i, j) == \E rp \in rolePermissions : rp.of = i /\ rp.to = j

\* What the model of t reads.
ReadsSame(t) ==
    /\ PoliciesOf(t)' = PoliciesOf(t) /\ PermissionsOf(t)' = PermissionsOf(t)
    /\ \A i : FindById("roles", t, i)' <=> FindById("roles", t, i)
    /\ \A p, i : FindById("roles", t, i) => (HoldsRole(p, i)' <=> HoldsRole(p, i))
    /\ \A i : FindById("roles", t, i) =>
         \A y \in PermissionsOf(t) : Grants(i, y.id)' <=> Grants(i, y.id)

LEMMA ModelSame == ASSUME NEW t, ReadsSame(t) PROVE Model(t)' = Model(t)
<1>1. ASSUME NEW p PROVE FlatPermissionSlugs(t, p)' = FlatPermissionSlugs(t, p)
  <2> DEFINE Given(y) == \E i : HoldsRole(p, i) /\ FindById("roles", t, i) /\ Grants(i, y.id)
  <2>1. FlatPermissionSlugs(t, p) = {x.key : x \in {y \in PermissionsOf(t) : Given(y)}}
    BY DEF FlatPermissionSlugs, PermissionsOf, HoldsRole, Grants
  <2>2. FlatPermissionSlugs(t, p)' = {x.key : x \in {y \in PermissionsOf(t)' : Given(y)'}}
    BY DEF FlatPermissionSlugs, PermissionsOf, HoldsRole, Grants
  <2>3. \A y \in PermissionsOf(t) : Given(y)' <=> Given(y)
    BY DEF ReadsSame
  <2> HIDE DEF Given
  <2>4. PermissionsOf(t)' = PermissionsOf(t)
    BY DEF ReadsSame
  <2> QED
    BY <2>1, <2>2, <2>3, <2>4
<1>2. Model(t)' = [policies |-> PoliciesOf(t)',
                   flat |-> [p \in Ids |-> FlatPermissionSlugs(t, p)']]
  BY DEF Model, PoliciesOf
<1>3. Model(t) = [policies |-> PoliciesOf(t), flat |-> [p \in Ids |-> FlatPermissionSlugs(t, p)]]
  BY DEF Model, PoliciesOf
<1>4. [p \in Ids |-> FlatPermissionSlugs(t, p)'] = [p \in Ids |-> FlatPermissionSlugs(t, p)]
  BY <1>1
<1> QED
  BY <1>2, <1>3, <1>4 DEF ReadsSame

LEMMA ModelUntouched ==
    ASSUME UNCHANGED <<rolePermissions, principalRoles>>,
           \A tb \in {"roles", "permissions", "policies"} : rows'[tb] = rows[tb]
    PROVE  \A t : Model(t)' = Model(t)
<1> SUFFICES ASSUME NEW t PROVE ReadsSame(t)
  BY ModelSame
<1>1. /\ rows'["roles"] = rows["roles"] /\ rows'["permissions"] = rows["permissions"]
      /\ rows'["policies"] = rows["policies"]
  OBVIOUS
<1>2. /\ PoliciesOf(t)' = PoliciesOf(t) /\ PermissionsOf(t)' = PermissionsOf(t)
  BY <1>1 DEF PoliciesOf, PermissionsOf
<1>3. \A i : FindById("roles", t, i)' <=> FindById("roles", t, i)
  BY <1>1 DEF FindById
<1>4. \A i, j : HoldsRole(i, j)' <=> HoldsRole(i, j)
  BY DEF HoldsRole
<1>5. \A i, j : Grants(i, j)' <=> Grants(i, j)
  BY DEF Grants
<1> QED
  BY <1>2, <1>3, <1>4, <1>5 DEF ReadsSame

\* A row inserted for one tenant is read by no other.
LEMMA InsertedModel ==
    ASSUME TypeInv, NEW table \in Tables, NEW x, NEW t, t # x.tenant,
           rows' = [rows EXCEPT ![table] = @ \cup {x}],
           UNCHANGED <<rolePermissions, principalRoles>>
    PROVE  Model(t)' = Model(t)
<1>1. \A tb \in Tables : rows'[tb] = IF tb = table THEN rows[tb] \cup {x} ELSE rows[tb]
  <2>1. rows \in [Tables -> SUBSET Row]
    BY DEF TypeInv, TypeOK
  <2> QED
    BY <2>1
<1>2. \A tb \in Tables : {y \in rows'[tb] : y.tenant = t} = {y \in rows[tb] : y.tenant = t}
  BY <1>1
<1>3. PoliciesOf(t)' = PoliciesOf(t) /\ PermissionsOf(t)' = PermissionsOf(t)
  BY <1>2 DEF PoliciesOf, PermissionsOf, Tables
<1>4. \A i : FindById("roles", t, i)' <=> FindById("roles", t, i)
  BY <1>1 DEF FindById, Tables
<1>5. \A i, j : HoldsRole(i, j)' <=> HoldsRole(i, j)
  BY DEF HoldsRole
<1>6. \A i, j : Grants(i, j)' <=> Grants(i, j)
  BY DEF Grants
<1> QED
  BY <1>3, <1>4, <1>5, <1>6, ModelSame DEF ReadsSame

\* A link whose far end is a row of tenant v is read by no other.
LEMMA LinkedModel ==
    ASSUME UniqueIds, UNCHANGED rows, NEW row, NEW v, NEW t, t # v,
           \/ /\ rolePermissions' = rolePermissions \cup {row} /\ UNCHANGED principalRoles
              /\ FindById("permissions", v, row.to)
           \/ /\ principalRoles' = principalRoles \cup {row} /\ UNCHANGED rolePermissions
              /\ FindById("roles", v, row.to)
    PROVE  Model(t)' = Model(t)
<1>1. \A tb \in Tables : FindById(tb, v, row.to) => \A y \in rows[tb] : y.id = row.to => y.tenant # t
  BY DEF UniqueIds, FindById
<1>2. PoliciesOf(t)' = PoliciesOf(t) /\ PermissionsOf(t)' = PermissionsOf(t)
  BY DEF PoliciesOf, PermissionsOf
<1>3. \A i : FindById("roles", t, i)' <=> FindById("roles", t, i)
  BY DEF FindById
<1>4. \A p, i : FindById("roles", t, i) => (HoldsRole(p, i)' <=> HoldsRole(p, i))
  BY <1>1 DEF HoldsRole, FindById, Tables
<1>5. \A i : \A y \in PermissionsOf(t) : Grants(i, y.id)' <=> Grants(i, y.id)
  BY <1>1 DEF Grants, PermissionsOf, Tables
<1> QED
  BY <1>2, <1>3, <1>4, <1>5, ModelSame DEF ReadsSame

\* Told answers are covered, and what they tell of is in its table.
LEMMA ToldCovered ==
    TypeInv /\ AckInv => Told \subseteq Change /\ Told \cap uncovered = {}
<1> SUFFICES ASSUME TypeInv, AckInv, NEW s \in Slots, status[s] \in {201, 204}
             PROVE  change[s] \subseteq Change /\ change[s] \cap uncovered = {}
  BY DEF Told
<1>1. change[s] \subseteq Change
  BY DEF TypeInv, TypeOK
<1> QED
  BY <1>1, AckInvCovers DEF AckCovered

LEMMA ToldWritten == AckInv => \A u \in Told : Written(u)
  BY DEF AckInv, Accounted, Told

\* A slot that was not and is not answered with success tells nothing.
LEMMA ToldSame ==
    ASSUME NEW s \in Slots, \A z \in Slots \ {s} : Untouched(z),
           status[s] \notin {201, 204}, status'[s] \notin {201, 204}
    PROVE  Told' = Told
<1> DEFINE T == {z \in Slots : status[z] \in {201, 204}}
<1>1. T' = T /\ \A z \in T : change'[z] = change[z]
  BY DEF Untouched
<1>2. Told = UNION {change[z] : z \in T} /\ Told' = UNION {change'[z] : z \in T'}
  BY DEF Told
<1> HIDE DEF T
<1> QED
  BY <1>1, <1>2

\* The steps of a slot, as the promise sees them.
Keeps == UNCHANGED <<policyVersion, uncovered>> /\ \A t : Model(t)' = Model(t)

Stores(u) ==
    /\ uncovered' = uncovered \cup {u} /\ UNCHANGED policyVersion
    /\ policyVersion[u.tenant] > 0 /\ u \notin Told /\ Told' = Told
    /\ \A t : t # u.tenant => Model(t)' = Model(t)

LEMMA CreateCases ==
    ASSUME TablesInv, NEW s \in Slots, CreateModelRow(s)
    PROVE  Keeps \/ \E u \in Change : Stores(u)
<1> DEFINE taken == KeyTaken(TableOf(call[s].op), call[s].tenant, call[s].key)
<1>1. CASE taken
  <2>1. UNCHANGED <<rows, uncovered, policyVersion, rolePermissions, principalRoles>>
    BY <1>1 DEF CreateModelRow
  <2> QED
    BY <2>1, ModelUntouched DEF Keeps
<1>2. CASE ~taken
  <2>1. PICK i \in Ids \ UsedIds, lost \in BOOLEAN :
          LET u == [op |-> call[s].op, tenant |-> call[s].tenant, of |-> i, to |-> None]
          IN  /\ rows' = [rows EXCEPT ![TableOf(call[s].op)] = @ \cup
                            {[id |-> i, tenant |-> call[s].tenant, key |-> call[s].key]}]
              /\ uncovered' = uncovered \cup {u}
              /\ IF lost THEN Answer(s, 500) ELSE GoTo(s, "bump")
    BY <1>2 DEF CreateModelRow
  <2> DEFINE u == [op |-> call[s].op, tenant |-> call[s].tenant, of |-> i, to |-> None]
             x == [id |-> i, tenant |-> call[s].tenant, key |-> call[s].key]
  <2>2. /\ pc[s] = "insert" /\ call[s].op \in {"createRole", "createPermission", "createPolicy"}
        /\ UNCHANGED <<policyVersion, rolePermissions, principalRoles>>
    BY DEF CreateModelRow
  <2>3. call[s].op \in Ops /\ call[s].tenant \in TenantIds /\ TableOf(call[s].op) \in Tables
    BY <2>2, CallTypes DEF TablesInv, TableOf, Tables
  <2>4. u \in Change /\ u.tenant = call[s].tenant /\ u.of = i /\ u.op = call[s].op
    BY <2>3 DEF Change
  <2>5. x.tenant = call[s].tenant
    OBVIOUS
  <2>6. uncovered' = uncovered \cup {u} /\ rows' = [rows EXCEPT ![TableOf(call[s].op)] = @ \cup {x}]
    BY <2>1
  <2> HIDE DEF u, x
  <2>7. \A t : t # u.tenant => Model(t)' = Model(t)
    BY <2>2, <2>3, <2>4, <2>5, <2>6, InsertedModel DEF TablesInv
  <2>8. policyVersion[u.tenant] > 0
    BY <2>2, <2>3, <2>4 DEF TablesInv, TenantKnown, VersionsKnown
  <2>9. u \notin Told
    BY <2>1, <2>2, <2>4, ToldWritten DEF TablesInv, Written, Assigns
  <2>10. /\ status[s] \in {0, Broken}
         /\ status \in [Slots -> {0, Broken, 201, 204, 400, 404, 409, 500}]
    BY <2>2 DEF TablesInv, AckInv, Accounted, Early, TypeInv, TypeOK
  <2>11. status'[s] \in {0, Broken, 500}
    BY <2>1, <2>10 DEF Answer, GoTo
  <2>12. Told' = Told
    BY <2>10, <2>11, OthersUntouched, ToldSame DEF TablesInv, Step, Broken
  <2> QED
    BY <2>2, <2>4, <2>6, <2>7, <2>8, <2>9, <2>12 DEF Stores
<1> QED
  BY <1>1, <1>2

LEMMA LinkCases ==
    ASSUME TablesInv, NEW s \in Slots, LinkPermission(s) \/ LinkRole(s)
    PROVE  Keeps \/ \E u \in Change : Stores(u)
<1> DEFINE u == AssignedChange(call[s])
           row == [of |-> call[s].of, to |-> call[s].to]
           v == call[s].tenant
<1>1. PICK lost \in BOOLEAN : LinkReturns(s, lost)
  BY LinkReturnsLemma
<1>2. pc[s] = "link" /\ call[s].op \in Assigns /\ UNCHANGED <<rows, policyVersion>>
  BY <1>1 DEF LinkReturns, LinkPermission, LinkRole
<1>3. v \in TenantIds /\ call[s].of \in Ids /\ call[s].to \in Ids /\ call[s].op \in Ops
  BY <1>2, CallTypes DEF TablesInv, Assigns
<1>4. u \in Change /\ u.tenant = v /\ u.of = row.of /\ u.to = row.to /\ u.op = call[s].op
  BY <1>3 DEF AssignedChange, Change
<1>5. FindById(ToTable(call[s].op), v, row.to)
  BY <1>2 DEF TablesInv, IsolationInv, EndsChecked, EndFound
<1>6. \/ /\ uncovered' = uncovered \cup {u} /\ ~Written(u)
         /\ \/ /\ rolePermissions' = rolePermissions \cup {row} /\ UNCHANGED principalRoles
               /\ FindById("permissions", v, row.to)
            \/ /\ principalRoles' = principalRoles \cup {row} /\ UNCHANGED rolePermissions
               /\ FindById("roles", v, row.to)
      \/ UNCHANGED <<uncovered, rolePermissions, principalRoles>>
  <2>1. CASE LinkPermission(s)
    <3>1. /\ rolePermissions' = rolePermissions \cup {row} /\ UNCHANGED principalRoles
          /\ call[s].op = "assignPermission"
          /\ uncovered' = IF row \notin rolePermissions THEN uncovered \cup {u} ELSE uncovered
      BY <2>1 DEF LinkPermission, Linked
    <3>2. FindById("permissions", v, row.to)
      BY <1>5, <3>1 DEF ToTable
    <3>3. row \notin rolePermissions => ~Written(u)
      BY <1>4, <3>1 DEF Written
    <3> QED
      BY <3>1, <3>2, <3>3
  <2>2. CASE LinkRole(s)
    <3>1. PICK joined \in {{row}, {}} :
            /\ principalRoles' = principalRoles \cup joined /\ UNCHANGED rolePermissions
            /\ call[s].op = "assignRole"
            /\ uncovered' = IF joined \subseteq principalRoles THEN uncovered ELSE uncovered \cup {u}
      BY <2>2 DEF LinkRole, Linked
    <3>2. FindById("roles", v, row.to)
      BY <1>5, <3>1 DEF ToTable
    <3>3. row \notin principalRoles => ~Written(u)
      BY <1>4, <3>1 DEF Written
    <3> QED
      BY <3>1, <3>2, <3>3
  <2> QED
    BY <2>1, <2>2
<1>7. /\ status[s] \in {0, Broken}
      /\ status \in [Slots -> {0, Broken, 201, 204, 400, 404, 409, 500}]
  BY <1>2 DEF TablesInv, AckInv, Accounted, Early, TypeInv, TypeOK
<1>8. status'[s] \in {0, Broken, 500}
  BY <1>1, <1>7 DEF LinkReturns, Answer, GoTo
<1>9. Told' = Told
  BY <1>7, <1>8, OthersUntouched, ToldSame DEF TablesInv, Step, Broken
<1>10. policyVersion[v] > 0
  BY <1>2, <1>3 DEF TablesInv, TenantKnown, VersionsKnown, Assigns
<1> HIDE DEF u, row, v
<1>11. CASE UNCHANGED <<uncovered, rolePermissions, principalRoles>>
  BY <1>2, <1>11, ModelUntouched DEF Keeps
<1>12. CASE ~UNCHANGED <<uncovered, rolePermissions, principalRoles>>
  <2>1. \A t : t # v => Model(t)' = Model(t)
    BY <1>2, <1>6, <1>12, LinkedModel DEF TablesInv, IsolationInv
  <2>2. u \notin Told
    BY <1>6, <1>12, ToldWritten DEF TablesInv
  <2> QED
    BY <1>2, <1>4, <1>6, <1>9, <1>10, <1>12, <2>1, <2>2 DEF Stores
<1> QED
  BY <1>11, <1>12

Registers(t) ==
    /\ policyVersion[t] = 0 /\ policyVersion' = [policyVersion EXCEPT ![t] = 1]
    /\ UNCHANGED uncovered /\ \A v : Model(v)' = Model(v)

Invalidates(t) ==
    /\ policyVersion[t] > 0 /\ policyVersion' = [policyVersion EXCEPT ![t] = @ + 1]
    /\ uncovered' = {u \in uncovered : u.tenant # t} /\ \A v : Model(v)' = Model(v)

LEMMA OtherCases ==
    ASSUME TypeInv, NEW s \in Slots, Step(s),
           ~CreateModelRow(s), ~LinkPermission(s), ~LinkRole(s)
    PROVE  /\ \A t : Model(t)' = Model(t)
           /\ UNCHANGED uncovered \/ IncrementPolicyVersion(s)
           /\ CreateTenant(s) => UNCHANGED uncovered
<1>1. UNCHANGED <<rolePermissions, principalRoles>>
  BY OnlyLinksLink
<1>2. \A tb \in {"roles", "permissions", "policies"} : rows'[tb] = rows[tb]
  <2>1. CASE CreatePrincipal(s)
    <3>1. rows \in [Tables -> SUBSET Row]
      BY DEF TypeInv, TypeOK
    <3>2. \/ UNCHANGED rows
          \/ \E X : rows' = [rows EXCEPT !["principals"] = X]
      <4> DEFINE taken == KeyTaken("principals", call[s].tenant, call[s].key)
      <4>1. CASE taken
        BY <2>1, <4>1 DEF CreatePrincipal
      <4>2. CASE ~taken
        BY <2>1, <4>2 DEF CreatePrincipal
      <4> QED
        BY <4>1, <4>2
    <3> QED
      BY <3>1, <3>2 DEF Tables
  <2>2. CASE ~CreatePrincipal(s)
    BY <2>2 DEF Step, RequireTenant, CreateTenant, Lookup, RecheckRole,
       IncrementPolicyVersion, IncrementPrincipalVersion, StatementFails, dbVars
  <2> QED
    BY <2>1, <2>2
<1>3. \A t : Model(t)' = Model(t)
  BY <1>1, <1>2, ModelUntouched
<1> QED
  BY <1>3 DEF Step, RequireTenant, CreateTenant, CreatePrincipal, Lookup, RecheckRole,
     IncrementPrincipalVersion, StatementFails

LEMMA StepCases ==
    ASSUME TablesInv, NEW s \in Slots, Step(s)
    PROVE  \/ Keeps
           \/ \E u \in Change : Stores(u)
           \/ \E t \in TenantIds : Registers(t) \/ Invalidates(t)
<1>1. CASE CreateModelRow(s) \/ LinkPermission(s) \/ LinkRole(s)
  BY <1>1, CreateCases, LinkCases
<1>2. CASE ~(CreateModelRow(s) \/ LinkPermission(s) \/ LinkRole(s))
  <2>1. /\ \A t : Model(t)' = Model(t)
        /\ UNCHANGED uncovered \/ IncrementPolicyVersion(s)
        /\ CreateTenant(s) => UNCHANGED uncovered
    BY <1>2, OtherCases DEF TablesInv
  <2>2. policyVersion \in [TenantIds -> Nat]
    BY ParametersAssumption DEF TablesInv, TypeInv, TypeOK
  <2>3. CASE UNCHANGED <<policyVersion, tenants>>
    <3>1. UNCHANGED uncovered
      <4>1. ASSUME IncrementPolicyVersion(s), HasTenant(call[s].tenant),
                   policyVersion' = [policyVersion EXCEPT ![call[s].tenant] = @ + 1]
            PROVE  FALSE
        <5>1. call[s].tenant \in TenantIds
          BY <4>1 DEF HasTenant, TablesInv, TypeInv, TypeOK, TenantRow
        <5> QED
          BY <2>2, <2>3, <4>1, <5>1
      <4> QED
        BY <2>1, <4>1, PolicyVersionCases
    <3> QED
      BY <2>1, <2>3, <3>1 DEF Keeps
  <2>4. ASSUME NEW t \in TenantIds, CreateTenant(s), ~HasTenant(t),
               policyVersion' = [policyVersion EXCEPT ![t] = 1]
        PROVE  Registers(t)
    BY <2>1, <2>2, <2>4 DEF Registers, TablesInv, VersionsKnown
  <2>5. ASSUME NEW t \in TenantIds, HasTenant(t),
               policyVersion' = [policyVersion EXCEPT ![t] = @ + 1],
               uncovered' = {u \in uncovered : u.tenant # t}
        PROVE  Invalidates(t)
    BY <2>1, <2>2, <2>5 DEF Invalidates, TablesInv, VersionsKnown
  <2> QED
    BY <2>3, <2>4, <2>5, VersionCases DEF TablesInv
<1> QED
  BY <1>1, <1>2

\* base records a model for every tenant id.
BaseKept == base = [t \in TenantIds |-> base[t]]

RefinementInv == TablesInv /\ BaseKept

LEMMA NextBase == ASSUME RefinementInv, [ProcessNext]_allVars PROVE BaseKept'
<1>1. ASSUME RememberBase PROVE BaseKept'
  BY <1>1 DEF RememberBase, BaseKept
<1>2. ASSUME UNCHANGED base PROVE BaseKept'
  BY <1>2 DEF RefinementInv, BaseKept
<1> QED
  BY <1>1, <1>2, StepKinds DEF Arrive, RefinementInv, TablesInv

LEMMA InitMaps == ASSUME ProcessInit PROVE Promise!Init
<1>1. policyVersion \in [TenantIds -> {0, 1}] /\ uncovered = {}
  BY DEF ProcessInit, Init
<1>2. base = [t \in TenantIds |-> Model(t)]
  BY DEF ProcessInit
<1>3. Told = {}
  BY DEF ProcessInit, Init, Told
<1> QED
  BY <1>1, <1>2, <1>3 DEF Promise!Init

LEMMA AnswersMap == ASSUME TablesInv' PROVE Promise!Answers
<1>1. Told' \subseteq Change /\ Told' \cap uncovered' = {}
  <2>1. TypeInv' /\ AckInv'
    BY DEF TablesInv
  <2>2. (Told \subseteq Change /\ Told \cap uncovered = {})'
    BY <2>1, ToldCovered, PTL
  <2> QED
    BY <2>2
<1> QED
  BY <1>1 DEF Promise!Answers

LEMMA KeepsMaps ==
    ASSUME TablesInv', Keeps, base' = base
    PROVE  Promise!Answer
<1>1. [t \in TenantIds |-> Model(t)'] = [t \in TenantIds |-> Model(t)]
  BY DEF Keeps
<1> QED
  BY <1>1, AnswersMap DEF Keeps, Promise!Answer

LEMMA StepMaps ==
    ASSUME RefinementInv, TablesInv', NEW s \in Slots, Step(s), RememberBase
    PROVE  Promise!Next
<1>1. policyVersion \in [TenantIds -> Nat]
  BY ParametersAssumption DEF RefinementInv, TablesInv, TypeInv, TypeOK
<1>2. ASSUME UNCHANGED policyVersion PROVE base' = base
  BY <1>2 DEF RememberBase, RefinementInv, BaseKept
<1>3. CASE Keeps
  BY <1>2, <1>3, KeepsMaps DEF Keeps, Promise!Next
<1>4. ASSUME NEW u \in Change, Stores(u) PROVE Promise!Store(u)
  <2>1. u.tenant \in TenantIds
    BY DEF Change
  <2>2. \A t \in TenantIds \ {u.tenant} : Model(t)' = Model(t)
    BY <1>4 DEF Stores
  <2> QED
    BY <1>2, <1>4, <2>1, <2>2 DEF Stores, Promise!Store
<1>5. ASSUME NEW t \in TenantIds, Registers(t) \/ Invalidates(t)
      PROVE  Promise!Register(t) \/ Promise!Invalidate(t)
  <2>1. \A v \in TenantIds : Model(v)' = Model(v)
    BY <1>5 DEF Registers, Invalidates
  <2>2. [v \in TenantIds |-> Model(v)'] = [v \in TenantIds |-> Model(v)]
    BY <2>1
  <2>3. \A v \in TenantIds : policyVersion'[v] = policyVersion[v] <=> v # t
    BY <1>1, <1>5 DEF Registers, Invalidates
  <2>4. base' = [base EXCEPT ![t] = Model(t)]
    <3>1. base' = [v \in TenantIds |-> IF v # t THEN base[v] ELSE Model(v)']
      BY <2>3 DEF RememberBase
    <3>2. base = [v \in TenantIds |-> base[v]]
      BY DEF RefinementInv, BaseKept
    <3> QED
      BY <2>1, <3>1, <3>2
  <2>5. CASE Registers(t)
    BY <2>2, <2>4, <2>5, AnswersMap DEF Registers, Promise!Register
  <2>6. CASE Invalidates(t)
    BY <2>2, <2>4, <2>6, AnswersMap DEF Invalidates, Promise!Invalidate
  <2> QED
    BY <1>5, <2>5, <2>6
<1> QED
  BY <1>3, <1>4, <1>5, StepCases DEF RefinementInv, Promise!Next

LEMMA NextMaps ==
    ASSUME RefinementInv, [ProcessNext]_allVars, TablesInv'
    PROVE  [Promise!Next]_(Promise!vars)
<1>1. ASSUME NEW s \in Slots, Step(s), RememberBase PROVE Promise!Next
  BY <1>1, StepMaps
<1>2. ASSUME UNCHANGED <<dbVars, uncovered, base>> PROVE Promise!Next
  <2>1. Keeps
    BY <1>2, ModelUntouched DEF Keeps, dbVars
  <2> QED
    BY <1>2, <2>1, KeepsMaps DEF Promise!Next
<1>3. \/ UNCHANGED <<dbVars, uncovered, base>>
      \/ \E s \in Slots : Step(s) /\ RememberBase
  BY StepKinds DEF Arrive, Receive, Loses, vars, RefinementInv, TablesInv
<1> QED
  BY <1>1, <1>2, <1>3

\* The tables, the handlers and the processes implement the promise of
\* policy_version, whatever fails, is killed, shut down or started.
THEOREM PromiseKept == ProcessSpec => KeepsThePromise
<1>1. ProcessInit => RefinementInv
  BY InitTables DEF ProcessInit, RefinementInv, BaseKept
<1>2. RefinementInv /\ [ProcessNext]_allVars => RefinementInv'
  BY ProcessTables, NextBase DEF RefinementInv
<1>3. ProcessInit => Promise!Init
  BY InitMaps
<1>4. RefinementInv /\ RefinementInv' /\ [ProcessNext]_allVars => [Promise!Next]_(Promise!vars)
  BY NextMaps DEF RefinementInv
<1> QED
  BY <1>1, <1>2, <1>3, <1>4, PTL DEF ProcessSpec, KeepsThePromise, Promise!Spec

\* What is stored waits for an increment, and only an increment or a tenant's
\* registration renews the base: caching by policy_version is right whenever no
\* change waits.
THEOREM VersionsIdentify == ProcessSpec => []VersionIdentifies
<1>1. Promise!Init => Promise!VersionIdentifies
  BY DEF Promise!Init, Promise!VersionIdentifies, Promise!Settled
<1>2. ASSUME RefinementInv, Promise!VersionIdentifies, [Promise!Next]_(Promise!vars)
      PROVE  Promise!VersionIdentifies'
  <2> SUFFICES ASSUME NEW t \in TenantIds, \A u \in uncovered' : u.tenant # t
               PROVE  Model(t)' = base'[t]
    BY DEF Promise!VersionIdentifies, Promise!Settled
  <2>1. (\A u \in uncovered : u.tenant # t) => Model(t) = base[t]
    BY <1>2 DEF Promise!VersionIdentifies, Promise!Settled
  <2>2. base = [z \in TenantIds |-> base[z]]
    BY <1>2 DEF RefinementInv, BaseKept
  <2> DEFINE modelOf == [z \in TenantIds |-> Model(z)]
  <2>3. modelOf' = modelOf => Model(t)' = Model(t)
    <3>1. modelOf[t] = Model(t) /\ modelOf'[t] = Model(t)'
      OBVIOUS
    <3> HIDE DEF modelOf
    <3> QED
      BY <3>1
  <2>4. CASE Promise!Answer \/ UNCHANGED Promise!vars
    BY <2>1, <2>3, <2>4 DEF Promise!Answer, Promise!vars
  <2>5. ASSUME NEW v \in TenantIds, Promise!Register(v) \/ Promise!Invalidate(v)
        PROVE  Model(t)' = base'[t]
    <3>1. /\ modelOf' = modelOf /\ base' = [base EXCEPT ![v] = modelOf[v]]
          /\ uncovered' = uncovered \/ uncovered' = {u \in uncovered : u.tenant # v}
      BY <2>5 DEF Promise!Register, Promise!Invalidate
    <3>2. modelOf[v] = Model(v)
      OBVIOUS
    <3>3. Model(t)' = Model(t)
      BY <2>3, <3>1
    <3> HIDE DEF modelOf
    <3>4. CASE v = t
      BY <2>2, <3>1, <3>2, <3>3, <3>4
    <3>5. CASE v # t
      BY <2>1, <2>2, <3>1, <3>3, <3>5
    <3> QED
      BY <3>4, <3>5
  <2>6. ASSUME NEW u \in Change, Promise!Store(u) PROVE Model(t)' = base'[t]
    <3>1. /\ uncovered' = uncovered \cup {u} /\ base' = base
          /\ \A z \in TenantIds \ {u.tenant} : modelOf'[z] = modelOf[z]
      BY <2>6 DEF Promise!Store
    <3>2. u.tenant # t
      BY <3>1
    <3>3. Model(t)' = Model(t)
      BY <3>1, <3>2
    <3> QED
      BY <2>1, <3>1, <3>3
  <2> QED
    BY <1>2, <2>4, <2>5, <2>6 DEF Promise!Next
<1>3. ProcessInit => RefinementInv
  BY InitTables DEF ProcessInit, RefinementInv, BaseKept
<1>4. RefinementInv /\ [ProcessNext]_allVars => RefinementInv'
  BY ProcessTables, NextBase DEF RefinementInv
<1>5. ProcessInit => Promise!Init
  BY InitMaps
<1>6. RefinementInv /\ RefinementInv' /\ [ProcessNext]_allVars => [Promise!Next]_(Promise!vars)
  BY NextMaps DEF RefinementInv
<1> QED
  BY <1>1, <1>2, <1>3, <1>4, <1>5, <1>6, PTL DEF ProcessSpec, VersionIdentifies

----------------------------------------------------------------------------
(* What AccessControl guarantees survives the processes.  Losing requests  *)
(* takes nothing from the tables and turns no answer into a success.       *)

LEMMA LosesAnswerInv ==
    ASSUME AnswerInv, NEW S \in SUBSET Slots, NEW B \in SUBSET Slots, Loses(S, B)
    PROVE  AnswerInv'
<1> SUFFICES ASSUME NEW s \in Slots PROVE Fulfilled(s)'
  BY DEF AnswerInv
<1>1. PICK c : c = call[s]
  OBVIOUS
<1>2. Present(c) => Present(c)'
  BY DEF Loses, dbVars, Present, KeyTaken, FindById
<1>3. call'[s] = c
  BY <1>1 DEF Loses
<1>4. /\ pc'[s] = "bump" => pc[s] = "bump"
      /\ status'[s] \in {201, 204, 409} => status[s] \in {201, 204, 409}
  BY DEF Loses, Break, Broken
<1> QED
  BY <1>1, <1>2, <1>3, <1>4 DEF AnswerInv, Fulfilled

LEMMA ProcessAnswers == TablesInv /\ AnswerInv /\ [ProcessNext]_allVars => AnswerInv'
<1> SUFFICES ASSUME TablesInv, AnswerInv, [ProcessNext]_allVars PROVE AnswerInv'
  OBVIOUS
<1>1. ASSUME [Next]_vars PROVE AnswerInv'
  BY <1>1, NextAnswerInv DEF TablesInv
<1>2. ASSUME NEW s \in Slots, NEW c \in Calls, Arrive(s, c) PROVE Next
  BY <1>2 DEF Arrive, Next
<1>3. ASSUME NEW s \in Slots, Step(s) PROVE Next
  BY <1>3 DEF Next
<1> QED
  BY <1>1, <1>2, <1>3, StepKinds, LosesAnswerInv DEF TablesInv

\* What keeps tenants apart, what a success answers for and what an answer says
\* outlive every kill, shutdown and restart, statements of dead processes
\* included: none of it was kept in a process.
THEOREM SafeThroughRestarts ==
    ProcessSpec => [](TenantIsolation /\ FlatConfined /\ AckCovered /\ AnswersHold)
<1>1. TablesInv => TenantIsolation /\ FlatConfined /\ AckCovered
  BY IsolationConfines, AckInvCovers DEF TablesInv, IsolationInv
<1>2. AnswerInv => AnswersHold
  BY DEF AnswerInv, Fulfilled, AnswersHold
<1>3. ProcessInit => AnswerInv
  BY InitAnswers DEF ProcessInit
<1> QED
  BY InitTables, ProcessTables, ProcessAnswers, <1>1, <1>2, <1>3, PTL DEF ProcessSpec

\* Kills are counted and never forgotten.
LEMMA KillsCount ==
    ASSUME ProcessInv, [ProcessNext]_allVars, kills' = 0
    PROVE  kills = 0
<1>1. kills \in Nat
  BY KillsAssumption DEF ProcessInv, ProcessTypeOK
<1>2. kills' = kills \/ kills' = kills + 1
  BY DEF ProcessNext, Arrive, Work, Orphan, OrphanRuns, OrphanVanishes, Signal,
     CloseServer, Exit, Start, Kill, allVars, processVars
<1> QED
  BY <1>1, <1>2

\* As long as no process has been killed, the processes only do what the
\* handlers do: when process.exit(0) comes there is nothing left to give up.
LEMMA GracefulSteps ==
    ASSUME ProcessInv, [ProcessNext]_allVars, kills' = 0
    PROVE  [Next]_vars
<1>1. kills = 0
  BY KillsCount
<1>2. orphans = {}
  BY <1>1 DEF ProcessInv, ProcessTypeOK
<1>3. ASSUME NEW sig \in Signals, Exit(sig) PROVE UNCHANGED vars
  <2>1. Busy = {}
    BY <1>3 DEF Exit, PoolEnding, ProcessInv, PoolInv
  <2>2. GiveUp({})
    BY <1>3, <2>1 DEF Exit
  <2>3. /\ pc = [s \in Slots |-> pc[s]] /\ status = [s \in Slots |-> status[s]]
        /\ awaiting = [s \in Slots |-> awaiting[s]]
    BY DEF ProcessInv, TablesInv, TypeInv, TypeOK
  <2>4. pc' = pc /\ status' = status /\ awaiting' = awaiting
    BY <2>2, <2>3 DEF GiveUp, Break
  <2> QED
    BY <2>2, <2>4 DEF GiveUp, vars, slotVars
<1>4. ASSUME NEW s \in Slots, NEW c \in Calls, Arrive(s, c) PROVE Next
  BY <1>4 DEF Arrive, Next
<1>5. ASSUME NEW s \in Slots, Work(s) PROVE Next
  BY <1>5 DEF Work, Next
<1>6. ASSUME NEW s \in Slots PROVE ~Orphan(s)
  BY <1>2 DEF Orphan, OrphanRuns, OrphanVanishes
<1>7. (\E sig \in Signals : Signal(sig) \/ CloseServer(sig)) \/ Start
        \/ UNCHANGED allVars => UNCHANGED vars
  BY DEF Signal, CloseServer, Start, allVars
<1>8. ~Kill
  BY <1>1 DEF Kill
<1> QED
  BY <1>8, <1>3, <1>4, <1>5, <1>6, <1>7 DEF ProcessNext

GracefulInv == kills = 0 => CleanInv

LEMMA NextGraceful ==
    ProcessInv /\ AnswerInv /\ GracefulInv /\ [ProcessNext]_allVars => GracefulInv'
<1> SUFFICES ASSUME ProcessInv, AnswerInv, GracefulInv, [ProcessNext]_allVars, kills' = 0
             PROVE  CleanInv'
  BY DEF GracefulInv
<1>1. kills = 0
  BY KillsCount
<1>2. [Next]_vars
  BY GracefulSteps
<1> QED
  BY <1>1, <1>2, NextCleanInv DEF ProcessInv, TablesInv, GracefulInv

\* A shutdown is no trouble: the two documented rules, which a failed statement
\* or a kill can break, hold through every graceful end and every restart.
THEOREM ShutdownKeepsRules ==
    ProcessSpec => [](kills = 0 /\ Untroubled => BothOrNeither /\ AnyChangeInvalidates)
<1>1. ProcessInit => AnswerInv /\ GracefulInv
  BY InitAnswers, InitClean DEF ProcessInit, GracefulInv
<1>2. ProcessInv => TablesInv
  BY DEF ProcessInv
<1>3. ProcessInv /\ GracefulInv =>
        (kills = 0 /\ Untroubled => BothOrNeither /\ AnyChangeInvalidates)
  BY CleanKeepsRules DEF ProcessInv, TablesInv, GracefulInv
<1> QED
  BY InitProcess, NextProcess, ProcessAnswers, NextGraceful, <1>1, <1>2, <1>3,
     PTL DEF ProcessSpec

----------------------------------------------------------------------------
(* What is left to do when a signal has come.                              *)

LEMMA LosesLeft ==
    ASSUME TypeInv, AwaitInv, NEW S \in SUBSET Slots, NEW B \in SUBSET Slots, Loses(S, B),
           NEW z \in Slots
    PROVE  /\ Awaits(z)' /\ Left(z)' <= Left(z)
           /\ z \in S => Left(z)' = 0
           /\ z \notin S => Left(z)' = Left(z)
<1>1. Left(z) \in 0..7
  BY LeftRange DEF AwaitInv
<1>2. CASE z \in S
  <2>1. pc'[z] = "idle"
    BY <1>2 DEF Loses
  <2>2. Left(z)' = 0 /\ Awaits(z)'
    BY <2>1 DEF Left, Awaits
  <2> QED
    BY <1>1, <1>2, <2>2
<1>3. CASE z \notin S
  <2>1. pc'[z] = pc[z] /\ awaiting'[z] = awaiting[z]
    BY <1>3 DEF Loses
  <2>2. Left(z)' = Left(z) /\ Awaits(z)'
    BY <2>1 DEF Left, InFlight, AwaitInv, Awaits
  <2> QED
    BY <1>1, <1>3, <2>2
<1> QED
  BY <1>2, <1>3

LEMMA ProcessAwait == TablesInv /\ AwaitInv /\ [ProcessNext]_allVars => AwaitInv'
<1> SUFFICES ASSUME TablesInv, AwaitInv, [ProcessNext]_allVars PROVE AwaitInv'
  OBVIOUS
<1>1. ASSUME [Next]_vars PROVE AwaitInv'
  BY <1>1, NextAwait DEF TablesInv
<1>2. ASSUME NEW s \in Slots, NEW c \in Calls, Arrive(s, c) PROVE Next
  BY <1>2 DEF Arrive, Next
<1>3. ASSUME NEW s \in Slots, Step(s) PROVE Next
  BY <1>3 DEF Next
<1>4. ASSUME NEW S \in SUBSET Slots, NEW B \in SUBSET Slots, Loses(S, B) PROVE AwaitInv'
  BY <1>4, LosesLeft DEF TablesInv, AwaitInv
<1> QED
  BY <1>1, <1>2, <1>3, <1>4, StepKinds DEF TablesInv

\* A statement that goes on, in whatever process, or vanishes brings its request
\* nearer to the end, and what a process does besides gives no request more to
\* do: only an arriving request does, and none arrives after a signal.
ProcessStepsRunOut ==
    /\ \A s \in Slots : Work(s) \/ Orphan(s) => Left(s)' < Left(s)
    /\ \A z \in Slots : Left(z)' > Left(z) => ~ShuttingDown

LEMMA ProcessRunsOut ==
    ASSUME ProcessInv, AwaitInv, [ProcessNext]_allVars
    PROVE  ProcessStepsRunOut
<1> USE DEF ProcessInv, TablesInv
<1>0. \A z \in Slots : Left(z) \in 0..7 /\ (Left(z) = 0 <=> pc[z] = "idle")
  BY LeftRange DEF AwaitInv
<1>1. ASSUME NEW s \in Slots, Work(s) \/ Orphan(s) PROVE Left(s)' < Left(s)
  <2>1. CASE Step(s)
    BY <2>1, StepLeft DEF AwaitInv
  <2>2. CASE OrphanVanishes(s)
    <3>1. {s} \in SUBSET Slots /\ Loses({s}, {s})
      BY <2>2 DEF OrphanVanishes, GiveUp, Loses
    <3>a. Left(s)' = 0
      BY <3>1, LosesLeft
    <3>2. pc[s] # "idle"
      BY <2>2 DEF OrphanVanishes, ProcessTypeOK
    <3> QED
      BY <1>0, <3>a, <3>2
  <2> QED
    BY <1>1, <2>1, <2>2 DEF Work, Orphan, OrphanRuns
<1>2. ASSUME NEW z \in Slots, ShuttingDown PROVE ~(Left(z)' > Left(z))
  <2>1. ASSUME NEW s \in Slots, Step(s) PROVE ~(Left(z)' > Left(z))
    <3>1. CASE z = s
      <4>1. Left(s)' < Left(s)
        BY <2>1, StepLeft DEF AwaitInv
      <4>2. AwaitInv' /\ TypeInv'
        BY ProcessAwait, ProcessTables
      <4>3. Left(s)' \in 0..7
        <5>1. (TypeInv /\ Awaits(s) => Left(s) \in 0..7)'
          BY LeftRange, PTL
        <5> QED
          BY <4>2, <5>1 DEF AwaitInv
      <4> QED
        BY <1>0, <3>1, <4>1, <4>3
    <3>2. CASE z # s
      <4>1. Left(z)' = Left(z)
        BY <2>1, <3>2, OthersUntouched DEF Untouched, Left, InFlight
      <4> QED
        BY <1>0, <4>1
    <3> QED
      BY <3>1, <3>2
  <2>2. ASSUME NEW S \in SUBSET Slots, NEW B \in SUBSET Slots, Loses(S, B)
        PROVE  ~(Left(z)' > Left(z))
    <3>1. Left(z)' = 0 \/ Left(z)' = Left(z)
      BY <2>2, LosesLeft
    <3> QED
      BY <1>0, <3>1
  <2>3. ASSUME UNCHANGED vars PROVE ~(Left(z)' > Left(z))
    <3>1. Left(z)' = Left(z)
      BY <2>3 DEF vars, slotVars, Left, InFlight
    <3> QED
      BY <1>0, <3>1
  <2>4. ASSUME NEW s \in Slots, NEW c \in Calls PROVE ~Arrive(s, c)
    BY <1>2 DEF Arrive
  <2> QED
    BY <2>1, <2>2, <2>3, <2>4, StepKinds
<1> QED
  BY <1>1, <1>2 DEF ProcessStepsRunOut

\* After a signal there is less and less to do: nothing adds to it, the pool that
\* ends lets every request that is still at work go on, and once none is at
\* work sql.end() has nothing to wait for.
THEOREM ShutdownRunsOut ==
    ProcessSpec =>
      /\ [](/\ PoolEnding => Busy \subseteq sent
            /\ Busy = {} => sent = {})
      /\ [][ProcessStepsRunOut]_allVars
<1>1. ProcessInv => /\ PoolEnding => Busy \subseteq sent
                    /\ Busy = {} => sent = {}
  BY DEF ProcessInv, PoolInv, ProcessTypeOK
<1>2. ProcessInit => AwaitInv
  BY InitAwait DEF ProcessInit
<1>3. ProcessInv => TablesInv
  BY DEF ProcessInv
<1>4. ProcessInv /\ AwaitInv /\ [ProcessNext]_allVars => [ProcessStepsRunOut]_allVars
  BY ProcessRunsOut
<1> QED
  BY InitProcess, NextProcess, ProcessAwait, <1>1, <1>2, <1>3, <1>4, PTL DEF ProcessSpec
====
