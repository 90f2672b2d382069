----------------------------- MODULE Deployments -----------------------------
(***************************************************************************)
(* The deployments of one validator backend: the rows that describe the    *)
(* Cloud Run Service and Job of every release for every semantic           *)
(* Validator, the routing slots that decide where new attempts go, and the *)
(* commands that import, certify, route, block, clean up and retire them   *)
(* (validations/services/execution/deployments.py, the GCP importers, the  *)
(* Service dispatch, the management commands and                           *)
(* ops/gcp/validator_release_control.py), beside workers that allocate and *)
(* dispatch attempts all the time.                                         *)
(*                                                                         *)
(* A command's transaction is one action; a command of several is several. *)
(* One operator's recipe may be cut off between any two, and a route, a    *)
(* block or a cleanup may be run beside it.  A release is deployed once,   *)
(* so that it has one row for each Validator and kind; releases are        *)
(* numbered in the order of their versions.  A cleanup plan of several     *)
(* releases is one plan for each.                                          *)
(*                                                                         *)
(* Left out: the immutable identity of a row (digests, images, specs,      *)
(* capabilities: a pair either verifies or was never imported), capacity   *)
(* (the deployment tool keeps minimum instances at zero), the retained     *)
(* release records and images, audit entries, deactivation causes (which   *)
(* only bar a release from being the automatic rollback target), other     *)
(* backends, Validators that are enabled or disabled meanwhile, and the    *)
(* activation of a single deployment, which the sync commands leave off.   *)
(***************************************************************************)
EXTENDS Integers, Sequences

CONSTANTS
    Validators,     \* published semantic Validators that declare the backend
    NumReleases,    \* releases of the backend, in version order
    Installed,      \* releases that are accepted already
    Attempts,       \* places for unfinished execution attempts
    NoRow,
    MaxMishaps      \* bound on emergency blocks, commands cut off, and
                    \* routes to a release that is being cleaned up

ASSUME NumReleasesAssumption == NumReleases \in Nat
ASSUME ValidatorsAssumption == Validators # {}
ASSUME InstalledAssumption == Installed \subseteq 1 .. NumReleases
ASSUME MaxMishapsAssumption == MaxMishaps \in Nat

Releases == 1 .. NumReleases
NoRelease == 0
DeploymentKinds == {"SERVICE", "JOB"}
Rows == Validators \X DeploymentKinds \X Releases

ASSUME NoRowAssumption == NoRow \notin Rows

ValidatorOf(x) == x[1]
KindOf(x) == x[2]
ReleaseOf(x) == x[3]

VARIABLES
    provider,       \* external: the Cloud Run resource of every pair member
    readiness,      \* readiness_state; ABSENT when the row does not exist
    role,           \* routing_role
    accepted,       \* accepted_at is set
    blocked,        \* emergency_blocked
    quiet,          \* deactivated_at: none, recent, or past the drain period
    deleted,        \* provider_deleted_at is set
    attempt,        \* state of the attempt in every place, none if ended
    pinned,         \* its deployment, or NoRow
    certifier,      \* certify_validator_backend_release
    cleaner,        \* validator-cleanup and validator-latest-only
    mishaps,        \* counter for the bound
    exposed,        \* history: releases routed while their provider pair was
                    \* incomplete or being cleaned up
    unparked        \* history: candidates left routed by a certification

rowVars == <<readiness, role, accepted, blocked, quiet, deleted>>
attemptVars == <<attempt, pinned>>
operatorVars == <<certifier, cleaner, mishaps>>
historyVars == <<exposed, unparked>>
vars == <<provider, readiness, role, accepted, blocked, quiet, deleted,
          attempt, pinned, certifier, cleaner, mishaps,
          exposed, unparked>>

Idle == [pc |-> "idle", release |-> NoRelease]
NoCleanup == [mode |-> "none", release |-> NoRelease, todo |-> <<>>]

(* The installed releases were certified with the final mode INACTIVE *)
Init ==
    /\ provider = [m \in DeploymentKinds \X Releases |->
                     IF m[2] \in Installed THEN "present" ELSE "new"]
    /\ readiness = [x \in Rows |->
                      IF ReleaseOf(x) \in Installed THEN "READY" ELSE "ABSENT"]
    /\ role = [x \in Rows |-> "INACTIVE"]
    /\ accepted = [x \in Rows |-> ReleaseOf(x) \in Installed]
    /\ blocked = [x \in Rows |-> FALSE]
    /\ quiet = [x \in Rows |->
                  IF ReleaseOf(x) \in Installed THEN "recent" ELSE "none"]
    /\ deleted = [x \in Rows |-> FALSE]
    /\ attempt = [a \in Attempts |-> "none"]
    /\ pinned = [a \in Attempts |-> NoRow]
    /\ certifier = Idle /\ cleaner = NoCleanup
    /\ mishaps = 0
    /\ exposed = {} /\ unparked = {}

Routed(x) == role[x] # "INACTIVE"
RowsOf(r) == {x \in Rows : ReleaseOf(x) = r /\ readiness[x] # "ABSENT"}
Unfinished(a) == attempt[a] \in {"PENDING", "CLAIMED"}
InUse(x) == \E a \in Attempts : Unfinished(a) /\ pinned[a] = x
Gone(r) == \E k \in DeploymentKinds : provider[<<k, r>>] = "gone"
Risky == {cleaner.release} \cup {r \in Releases : Gone(r)}

-----------------------------------------------------------------------------
(* Import *)

(* external: the deployment tool creates the Job and Service of a release *)
Deploy(r) ==
    /\ \A k \in DeploymentKinds : provider[<<k, r>>] = "new"
    /\ provider' = [m \in DOMAIN provider |-> IF m[2] = r THEN "present"
                                                        ELSE provider[m]]
    /\ UNCHANGED <<rowVars, attemptVars, operatorVars, historyVars>>

(* The sync commands observe a live resource and register it for one        *)
(* Validator after the other.  Importing a READY row again only renews its  *)
(* verification, and any other row is refused.                              *)
Import(k, r, registered) ==
    /\ provider[<<k, r>>] = "present"
    /\ \E v \in registered : readiness[<<v, k, r>>] = "ABSENT"
    /\ readiness' = [x \in Rows |->
                        IF readiness[x] = "ABSENT" /\ KindOf(x) = k
                           /\ ReleaseOf(x) = r /\ ValidatorOf(x) \in registered
                        THEN "READY" ELSE readiness[x]]
    /\ \/ registered = Validators /\ mishaps' = mishaps
       \/ registered # Validators /\ mishaps < MaxMishaps
          /\ mishaps' = mishaps + 1
    /\ UNCHANGED <<provider, role, accepted, blocked, quiet, deleted,
                   attemptVars, certifier, cleaner, historyVars>>

-----------------------------------------------------------------------------
(* Routing *)

Pair(v, r) == {<<v, "SERVICE", r>>, <<v, "JOB", r>>}

(* verify_execution_deployment_pair of the release's candidate rows *)
Verifies(v, r, requireAccepted) ==
    \A x \in Pair(v, r) :
        /\ readiness[x] = "READY" /\ ~blocked[x]
        /\ requireAccepted => accepted[x]

(* routing_mode_for_pair *)
RoutingMode(v, r) ==
    LET roles == <<role[<<v, "SERVICE", r>>], role[<<v, "JOB", r>>]>>
    IN  CASE roles = <<"PRIMARY", "LONG_RUNNING">> -> "NORMAL"
          [] roles = <<"INACTIVE", "PRIMARY">> -> "JOB_ONLY"
          [] roles = <<"INACTIVE", "INACTIVE">> -> "INACTIVE"
          [] OTHER -> "INCONSISTENT"

(* Faulty: other releases keep their slots *)
TargetRoleKeepingOthers(x, r, mode) ==
    CASE ReleaseOf(x) # r -> role[x]
      [] mode = "NORMAL" ->
            IF KindOf(x) = "SERVICE" THEN "PRIMARY" ELSE "LONG_RUNNING"
      [] mode = "JOB_ONLY" /\ KindOf(x) = "JOB" -> "PRIMARY"
      [] OTHER -> "INACTIVE"

(* target_roles of _route_locked_pair *)
TargetRole(x, r, mode) ==
    CASE ReleaseOf(x) = r /\ mode = "NORMAL" ->
            IF KindOf(x) = "SERVICE" THEN "PRIMARY" ELSE "LONG_RUNNING"
      [] ReleaseOf(x) = r /\ mode = "JOB_ONLY" /\ KindOf(x) = "JOB" ->
            "PRIMARY"
      [] OTHER -> "INACTIVE"

(* Inactivity starts when a row loses its slot; a pair member that never    *)
(* had one starts its period with the first explicit transition             *)
QuietAfter(x, r, mode) ==
    IF TargetRole(x, r, mode) # "INACTIVE" THEN "none"
    ELSE IF Routed(x) THEN "recent"
    ELSE IF ReleaseOf(x) = r /\ quiet[x] = "none" THEN "recent"
    ELSE quiet[x]

(* A release is routed although it is being cleaned up, or was: a mishap *)
Expose(r, mode) ==
    IF mode # "INACTIVE" /\ r \in Risky
    THEN /\ mishaps < MaxMishaps
         /\ mishaps' = mishaps + 1
         /\ exposed' = exposed \cup {r}
    ELSE UNCHANGED <<mishaps, exposed>>

(* Faulty: every Validator is routed on its own *)
ActivateOneByOne(r, mode, requireAccepted) ==
    LET Ready == {v \in Validators : Verifies(v, r, requireAccepted)}
        Locked == {x \in Rows :
                      readiness[x] = "READY" /\ ValidatorOf(x) \in Ready}
    IN  /\ Ready # {}
        /\ role' = [x \in Rows |-> IF x \in Locked
                                   THEN TargetRole(x, r, mode) ELSE role[x]]
        /\ quiet' = [x \in Rows |-> IF x \in Locked
                                    THEN QuietAfter(x, r, mode) ELSE quiet[x]]
        /\ Expose(r, mode)

(* activate_backend_release: the pairs of all Validators, or nothing.  Only *)
(* READY rows are read; the provider is not contacted.                      *)
Activate(r, mode, requireAccepted) ==
    LET Locked == {x \in Rows : readiness[x] = "READY"}
    IN  /\ \A v \in Validators : Verifies(v, r, requireAccepted)
        /\ role' = [x \in Rows |-> IF x \in Locked
                                   THEN TargetRole(x, r, mode) ELSE role[x]]
        /\ quiet' = [x \in Rows |-> IF x \in Locked
                                    THEN QuietAfter(x, r, mode) ELSE quiet[x]]
        /\ Expose(r, mode)

(* activate_validator_backend_release without --allow-unaccepted *)
Route(r, mode) ==
    /\ Activate(r, mode, TRUE)
    /\ UNCHANGED <<provider, readiness, accepted, blocked, deleted,
                   attemptVars, certifier, cleaner, unparked>>

SetBlock(x, value) ==
    /\ readiness[x] # "ABSENT" /\ blocked[x] # value
    /\ value => mishaps < MaxMishaps
    /\ mishaps' = IF value THEN mishaps + 1 ELSE mishaps
    /\ blocked' = [blocked EXCEPT ![x] = value]
    /\ UNCHANGED <<provider, readiness, role, accepted, quiet, deleted,
                   attemptVars, certifier, cleaner, historyVars>>

-----------------------------------------------------------------------------
(* certify_validator_backend_release: private acceptance in MAINTENANCE,    *)
(* with the queues resumed for the canaries                                 *)

(* The recipes that certify a release or keep only the latest one take the  *)
(* stage out of traffic and pause its queues; only canaries are served then *)
Live == certifier = Idle /\ cleaner.mode # "immediate"
Serving == Live \/ certifier.pc \in {"service canary", "job canary"}

CertifierAt(pc, r) == certifier' = [pc |-> pc, release |-> r]

(* Routing by the certifier, with what it leaves to the other variables *)
CertifierRoutes(r, mode, requireAccepted) ==
    /\ Activate(r, mode, requireAccepted)
    /\ UNCHANGED <<provider, readiness, accepted, blocked, deleted,
                   attemptVars, cleaner, unparked>>

CertifyService(r) ==
    /\ Live
    /\ CertifierRoutes(r, "NORMAL", FALSE)
    /\ CertifierAt("service canary", r)

CertifyJob ==
    /\ certifier.pc = "service canary"
    /\ CertifierRoutes(certifier.release, "JOB_ONLY", FALSE)
    /\ CertifierAt("job canary", certifier.release)

(* _record_pair_acceptance: the pairs of all Validators, which must still   *)
(* verify and have the role the canaries ran under (read just before the    *)
(* transaction; nothing that is modelled depends on it later)               *)
Accept ==
    LET r == certifier.release
    IN  /\ certifier.pc = "job canary"
        /\ \A v \in Validators : Verifies(v, r, FALSE)
        /\ \A v \in Validators : RoutingMode(v, r) = "JOB_ONLY"
        /\ accepted' = [x \in Rows |-> accepted[x] \/ x \in RowsOf(r)]
        /\ CertifierAt("accepted", r)
        /\ UNCHANGED <<provider, readiness, role, blocked, quiet, deleted,
                       attemptVars, cleaner, mishaps, historyVars>>

(* The outgoing pair is routed once more, to prove that it still can be *)
RoundTrip(outgoing) ==
    /\ certifier.pc = "accepted" /\ outgoing # certifier.release
    /\ CertifierRoutes(outgoing, "NORMAL", TRUE)
    /\ CertifierAt("returning", certifier.release)

Return ==
    /\ certifier.pc = "returning"
    /\ CertifierRoutes(certifier.release, "NORMAL", TRUE)
    /\ CertifierAt("certified", certifier.release)

Settle(mode) ==
    /\ certifier.pc \in {"accepted", "certified"}
    /\ CertifierRoutes(certifier.release, mode, TRUE)
    /\ certifier' = Idle

(* Any step may raise: a canary fails or the pair does not verify any more *)
FailCertification ==
    /\ certifier.pc \notin {"idle", "failed"}
    /\ CertifierAt("failed", certifier.release)
    /\ UNCHANGED <<provider, rowVars, attemptVars, cleaner, mishaps,
                   historyVars>>

(* Faulty: the candidate is left as it is *)
ParkNothing ==
    /\ certifier.pc = "failed"
    /\ certifier' = Idle
    /\ UNCHANGED <<provider, rowVars, attemptVars, cleaner, mishaps,
                   historyVars>>

(* Parking uses the same activation, which refuses a blocked pair; the      *)
(* recipe's second attempt is refused for the same reason                   *)
Park ==
    LET r == certifier.release
    IN  /\ certifier.pc = "failed"
        /\ certifier' = Idle
        /\ \/ Activate(r, "INACTIVE", FALSE) /\ UNCHANGED unparked
           \/ /\ \E v \in Validators : ~Verifies(v, r, FALSE)
              /\ unparked' = unparked \cup {r}
              /\ UNCHANGED <<role, quiet, mishaps, exposed>>
        /\ UNCHANGED <<provider, readiness, accepted, blocked, deleted,
                       attemptVars, cleaner>>

(* The recipe is cut off, its trap included *)
CertifierDies ==
    /\ certifier # Idle /\ mishaps < MaxMishaps
    /\ certifier' = Idle
    /\ mishaps' = mishaps + 1
    /\ unparked' = unparked \cup {certifier.release}
    /\ UNCHANGED <<provider, rowVars, attemptVars, cleaner, exposed>>

-----------------------------------------------------------------------------
(* Managed attempts *)

RowIn(v, slot) == {x \in Rows : ValidatorOf(x) = v /\ role[x] = slot}

(* Long-running work takes a primary Job when its own slot is empty *)
RouteOf(v, profile) ==
    IF profile = "FAST_RESPONSE" THEN RowIn(v, "PRIMARY")
    ELSE IF RowIn(v, "LONG_RUNNING") # {} THEN RowIn(v, "LONG_RUNNING")
    ELSE {x \in RowIn(v, "PRIMARY") : KindOf(x) = "JOB"}

(* resolve_execution_deployment inside the creation of an attempt, which    *)
(* locks the rows of the Validator                                          *)
Allocate(a, v, profile) ==
    /\ Serving
    /\ attempt[a] = "none"
    /\ \E x \in RouteOf(v, profile) :
          /\ readiness[x] = "READY" /\ ~blocked[x]
          /\ pinned' = [pinned EXCEPT ![a] = x]
    /\ attempt' = [attempt EXCEPT ![a] = "PENDING"]
    /\ UNCHANGED <<provider, rowVars, operatorVars, historyVars>>

(* Faulty: the route was checked when the attempt was created *)
ClaimUnchecked(a) ==
    /\ attempt[a] = "PENDING"
    /\ attempt' = [attempt EXCEPT ![a] = "CLAIMED"]
    /\ UNCHANGED <<provider, rowVars, pinned, operatorVars, historyVars>>

(* A Service dispatch locks and checks the row once more; a Job does not *)
Claim(a) ==
    /\ attempt[a] = "PENDING"
    /\ KindOf(pinned[a]) = "SERVICE" =>
          readiness[pinned[a]] = "READY" /\ ~blocked[pinned[a]]
    /\ attempt' = [attempt EXCEPT ![a] = "CLAIMED"]
    /\ UNCHANGED <<provider, rowVars, pinned, operatorVars, historyVars>>

(* Completed, failed, timed out or cancelled *)
End(a) ==
    /\ Unfinished(a)
    /\ attempt' = [attempt EXCEPT ![a] = "none"]
    /\ pinned' = [pinned EXCEPT ![a] = NoRow]
    /\ UNCHANGED <<provider, rowVars, operatorVars, historyVars>>

-----------------------------------------------------------------------------
(* Cleanup: a plan from a snapshot, then one step after the other *)

(* A row that was displaced seven days ago *)
Drain ==
    /\ \E x \in Rows : quiet[x] = "recent"
    /\ quiet' = [x \in Rows |-> IF quiet[x] = "recent" THEN "drained"
                                                       ELSE quiet[x]]
    /\ UNCHANGED <<provider, readiness, role, accepted, blocked, deleted,
                   attemptVars, operatorVars, historyVars>>

ActiveReleases == {ReleaseOf(x) : x \in {y \in Rows : Routed(y)}}
CompletePairs(r) == \A v \in Validators : Pair(v, r) \subseteq RowsOf(r)
AllAccepted(r) == CompletePairs(r) /\ \A x \in RowsOf(r) : accepted[x]
Retired(r) == \E x \in RowsOf(r) : readiness[x] = "RETIRED"
Accounted(r) ==
    \A x \in RowsOf(r) :
        deleted[x] \/ provider[<<KindOf(x), r>>] = "present"

(* _rollback_release: the newest accepted release older than the active one *)
RollbackReleases ==
    {r \in Releases :
        \E active \in ActiveReleases :
            LET Older == {q \in Releases :
                              q < active /\ AllAccepted(q) /\ ~Retired(q)}
            IN  r \in Older /\ \A q \in Older : q <= r}

(* Faulty: only routed rows count as in use *)
UnusedIfInactive(r) ==
    \A x \in RowsOf(r) : ~Routed(x)

Unused(r) == \A x \in RowsOf(r) : ~InUse(x)

(* calculate_cleanup_plan *)
Eligible(r) ==
    /\ r \notin ActiveReleases /\ r \notin RollbackReleases
    /\ Unused(r)
    /\ AllAccepted(r) /\ ~Retired(r)
    /\ Accounted(r)
    /\ \A x \in RowsOf(r) : quiet[x] = "drained"

RoutineSteps == << <<"delete", {"JOB"}>>, <<"record", {"JOB"}>>,
                   <<"delete", {"SERVICE"}>>, <<"record", {"SERVICE"}>>,
                   <<"retire", {}>> >>
ImmediateSteps == << <<"delete", {"SERVICE"}>>, <<"delete", {"JOB"}>>,
                     <<"record", DeploymentKinds>>, <<"retire", {}>> >>

StartCleanup(mode, r, steps) ==
    /\ cleaner = NoCleanup
    /\ cleaner' = [mode |-> mode, release |-> r, todo |-> steps]
    /\ UNCHANGED <<provider, rowVars, attemptVars, certifier, mishaps,
                   historyVars>>

(* validator-cleanup; the plan is calculated again after the confirmation *)
PlanCleanup(r) == Eligible(r) /\ StartCleanup("routine", r, RoutineSteps)

(* validator-latest-only *)
PlanLatestOnly(r) ==
    /\ Live
    /\ RowsOf(r) # {}
    /\ \E active \in Releases \ {r} :
          /\ ActiveReleases = {active}
          /\ \A v \in Validators : RoutingMode(v, active) = "NORMAL"
          /\ \A x \in RowsOf(active) :
                /\ ~blocked[x]
                /\ provider[<<KindOf(x), active>>] = "present"
    /\ \A a \in Attempts : ~Unfinished(a)
    /\ StartCleanup("immediate", r, ImmediateSteps)

Doing(op) == cleaner.todo # <<>> /\ Head(cleaner.todo)[1] = op
Targets ==
    {x \in RowsOf(cleaner.release) : KindOf(x) \in Head(cleaner.todo)[2]}
StepDone == cleaner' = [cleaner EXCEPT !.todo = Tail(@)]

DeleteProvider ==
    /\ Doing("delete")
    /\ provider' = [m \in DeploymentKinds \X Releases |->
                        IF /\ m[2] = cleaner.release
                           /\ m[1] \in Head(cleaner.todo)[2]
                        THEN "gone" ELSE provider[m]]
    /\ StepDone
    /\ UNCHANGED <<rowVars, attemptVars, certifier, mishaps, historyVars>>

(* record_validator_provider_deletion: one transaction per row; the first   *)
(* routed row ends the recipe                                               *)
RecordDeleted(x) ==
    /\ Doing("record") /\ x \in Targets /\ ~deleted[x]
    /\ ~Routed(x)
    /\ deleted' = [deleted EXCEPT ![x] = TRUE]
    /\ UNCHANGED <<provider, readiness, role, accepted, blocked, quiet,
                   attemptVars, operatorVars, historyVars>>

RecordingEnds ==
    /\ Doing("record")
    /\ \/ (\A x \in Targets : deleted[x]) /\ StepDone
       \/ (\E x \in Targets : ~deleted[x] /\ Routed(x)) /\ cleaner' = NoCleanup
    /\ UNCHANGED <<provider, rowVars, attemptVars, certifier, mishaps,
                   historyVars>>

AcceptedOrNone(r) ==
    \A v \in Validators :
        LET rows == RowsOf(r) \cap Pair(v, r)
        IN  \/ rows = {}
            \/ /\ rows = Pair(v, r)
               /\ \A x, y \in rows : accepted[x] = accepted[y]

(* Faulty: the plan has shown that the release is not in use *)
MayRetireAsPlanned(r, mode) ==
    /\ RowsOf(r) # {}
    /\ IF mode = "immediate" THEN AcceptedOrNone(r) ELSE AllAccepted(r)
    /\ \A x \in RowsOf(r) : deleted[x]

(* ensure_backend_release_can_retire, and every deletion recorded *)
MayRetire(r, mode) ==
    /\ RowsOf(r) # {}
    /\ IF mode = "immediate" THEN AcceptedOrNone(r)
       ELSE AcceptedOrNone(r) /\ \A x \in RowsOf(r) : accepted[x]
    /\ \A x \in RowsOf(r) :
          /\ ~Routed(x) /\ ~InUse(x) /\ deleted[x]
          /\ quiet[x] \in IF mode = "immediate" THEN {"recent", "drained"}
                                                 ELSE {"drained"}

(* retire_backend_release_deployments: all rows, or an error *)
Retire ==
    LET r == cleaner.release
    IN  /\ Doing("retire")
        /\ cleaner' = NoCleanup
        /\ readiness' = IF MayRetire(r, cleaner.mode)
                        THEN [x \in Rows |->
                                IF x \in RowsOf(r) THEN "RETIRED"
                                                   ELSE readiness[x]]
                        ELSE readiness
        /\ UNCHANGED <<provider, role, accepted, blocked, quiet, deleted,
                       attemptVars, certifier, mishaps, historyVars>>

CleanerDies ==
    /\ cleaner # NoCleanup /\ mishaps < MaxMishaps
    /\ cleaner' = NoCleanup
    /\ mishaps' = mishaps + 1
    /\ UNCHANGED <<provider, rowVars, attemptVars, certifier, historyVars>>

-----------------------------------------------------------------------------
Operate ==
    \/ \E r \in Releases : Deploy(r)
    \/ \E k \in DeploymentKinds, r \in Releases,
          registered \in SUBSET Validators :
          Import(k, r, registered)
    \/ \E r \in Releases, mode \in {"NORMAL", "JOB_ONLY", "INACTIVE"} :
          Route(r, mode)
    \/ \E x \in Rows, value \in BOOLEAN : SetBlock(x, value)

Certify ==
    \/ \E r \in Releases : CertifyService(r) \/ RoundTrip(r)
    \/ CertifyJob
    \/ Accept
    \/ Return
    \/ \E mode \in {"NORMAL", "INACTIVE"} : Settle(mode)
    \/ FailCertification
    \/ Park
    \/ CertifierDies

Work ==
    \E a \in Attempts :
        \/ \E v \in Validators, p \in {"FAST_RESPONSE", "LONG_RUNNING"} :
              Allocate(a, v, p)
        \/ Claim(a)
        \/ End(a)

CleanUp ==
    \/ \E r \in Releases : PlanCleanup(r) \/ PlanLatestOnly(r)
    \/ DeleteProvider
    \/ \E x \in Rows : RecordDeleted(x)
    \/ RecordingEnds
    \/ Retire
    \/ CleanerDies

Next == Operate \/ Certify \/ Work \/ CleanUp \/ Drain

Spec == Init /\ [][Next]_vars

-----------------------------------------------------------------------------
TypeOK ==
    /\ provider \in [DeploymentKinds \X Releases -> {"new", "present", "gone"}]
    /\ readiness \in [Rows -> {"ABSENT", "READY", "RETIRED"}]
    /\ role \in [Rows -> {"INACTIVE", "PRIMARY", "LONG_RUNNING"}]
    /\ accepted \in [Rows -> BOOLEAN]
    /\ blocked \in [Rows -> BOOLEAN]
    /\ quiet \in [Rows -> {"none", "recent", "drained"}]
    /\ deleted \in [Rows -> BOOLEAN]
    /\ attempt \in [Attempts -> {"none", "PENDING", "CLAIMED"}]
    /\ pinned \in [Attempts -> Rows \cup {NoRow}]
    /\ \A a \in Attempts : attempt[a] = "none" <=> pinned[a] = NoRow
    /\ \A x, y \in Rows :
          ValidatorOf(x) = ValidatorOf(y) /\ role[x] = role[y] /\ Routed(x) =>
              x = y
    /\ certifier.release \in Releases \cup {NoRelease}
    /\ cleaner.release \in Releases \cup {NoRelease}
    /\ mishaps \in 0 .. MaxMishaps
    /\ exposed \subseteq Releases
    /\ unparked \subseteq Releases

(* Whoever routes, certifies, parks or retires, and whichever of them is    *)
(* cut off: at every moment all Validators run the same release in the same *)
(* mode, which is one of the three, so that a result never depends on which *)
(* of them was routed first.                                                *)
RoutesUniform ==
    /\ \A x, y \in Rows :
          /\ KindOf(x) = KindOf(y) /\ ReleaseOf(x) = ReleaseOf(y) =>
                role[x] = role[y]
          /\ Routed(x) /\ Routed(y) => ReleaseOf(x) = ReleaseOf(y)
    /\ \A v \in Validators, r \in Releases : RoutingMode(v, r) # "INCONSISTENT"

(* A retired row is out of every use: it has no slot, its provider resource *)
(* was recorded as deleted, and no attempt that may still be dispatched or  *)
(* answered is pinned to it, although retiring, routing and allocating are  *)
(* three commands.                                                          *)
RetiredIsUnused ==
    \A x \in Rows : readiness[x] = "RETIRED" =>
        ~Routed(x) /\ deleted[x] /\ ~InUse(x)

(* The provider resource behind every row that is routed, or that an        *)
(* unfinished attempt is pinned to, exists.  A release that was routed      *)
(* while it was being cleaned up is exempt: activation does not look at the *)
(* provider and the cleanup does not look at the plan again.                *)
ServedIsPresent ==
    \A x \in Rows : Routed(x) \/ InUse(x) =>
        \/ provider[<<KindOf(x), ReleaseOf(x)>>] = "present"
        \/ ReleaseOf(x) \in exposed

(* Work of a live stage goes to releases that passed the private acceptance.*)
(* Exempt are candidates whose certification was cut off, or could not park *)
(* them because a member of the pair was blocked.                           *)
LiveWorkIsAccepted ==
    [][\A a \in Attempts :
          attempt[a] = "none" /\ attempt'[a] = "PENDING" /\ Live =>
             \/ accepted[pinned'[a]]
             \/ ReleaseOf(pinned'[a]) \in unparked]_vars

(* After an emergency block no new contact is made with the Service: a      *)
(* pending attempt stays unclaimed.  (Of a Job nothing is checked again.)   *)
NoContactAfterBlock ==
    [][\A a \in Attempts :
          attempt[a] = "PENDING" /\ attempt'[a] = "CLAIMED"
          /\ KindOf(pinned[a]) = "SERVICE" => ~blocked[pinned[a]]]_vars
=============================================================================
