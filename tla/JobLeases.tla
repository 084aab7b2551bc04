------------------------------ MODULE JobLeases ------------------------------
(***************************************************************************)
(* Calls that hold a slot of an upstream account: plain streamed calls,    *)
(* which take a lease when they are accepted, and video jobs, which take   *)
(* theirs then or when a worker claims them from the queue.  One call has  *)
(* up to five rows in the database (request, reservation, lease, job,      *)
(* attempt) and every operation is one immediate transaction over them.    *)
(* Owners, workers, the sweep of expired leases and administrators call in *)
(* any order.  A call that fails rolls back, so it is not a step here.     *)
(***************************************************************************)
EXTENDS Integers, FiniteSets

CONSTANTS
  Requests,            \* the calls: the ids of their rows, in id order
  Videos,              \* those of them that are video jobs
  Users,               \* user ids, in id order and above NoUser
  OwnerOf,             \* the user of each call
  Suspendable,         \* the users an administrator may disable and enable
  Workers, NoWorker,
  Accounts, NoAccount,
  Unsteady,            \* the accounts that may stop being usable, and recover
  Fits,                \* the accounts that satisfy the constraints of each call
  MaxConcurrency,      \* the slots of each account
  GrantTtls,           \* the lifetimes a call may ask for its new lease
  JobTtls,             \* those a worker may ask for in a heartbeat of its job
  LeaseTtls,           \* those an owner may ask for in a heartbeat of its lease
  ReconcileTtl,        \* reconciliation window counted from the grant
  RecoveryTtl,         \* reconciliation window counted from a recovery
  MaxTime              \* bound on the clock

ASSUME RequestsAssumption ==
  /\ Requests \subseteq Nat
  /\ Videos \subseteq Requests
  /\ Users \subseteq Nat \ {0}
  /\ OwnerOf \in [Requests -> Users]
  /\ Suspendable \subseteq Users
  /\ NoWorker \notin Workers

ASSUME AccountsAssumption ==
  /\ IsFiniteSet(Requests)
  /\ NoAccount \notin Accounts
  /\ Unsteady \subseteq Accounts
  /\ Fits \in [Requests -> SUBSET Accounts]
  /\ MaxConcurrency \in [Accounts -> Nat \ {0}]

\* Every caller names a lifetime of its own; the code demands only that it is positive.
ASSUME TimesAssumption ==
  /\ GrantTtls \subseteq Nat \ {0}
  /\ JobTtls \subseteq Nat \ {0}
  /\ LeaseTtls \subseteq Nat \ {0}
  /\ ReconcileTtl \in Nat \ {0}
  /\ RecoveryTtl \in Nat \ {0}
  /\ MaxTime \in Nat

VARIABLES
  request,      \* requests.state
  reservation,  \* quota_reservations.state of the call's hold
  lease,        \* the row of upstream_leases
  job,          \* jobs.state
  attempt,      \* job_attempts.state of attempt number 1, the only one
  claim,        \* jobs.queue_claim_owner and queue_claim_expires_at_ms
  created,      \* jobs.created_at_ms
  cursor,       \* dispatch_queue_cursors.last_user_id
  active,       \* the users whose status is active
  ready,        \* the accounts that are usable and freshly observed with units left
  now

rows == <<request, reservation, lease, job, attempt, claim>>
vars == <<rows, created, cursor, active, ready, now>>

NoUser == 0
NoLease == [state |-> "none", account |-> NoAccount, until |-> 0, window |-> 0]
NoClaim == [owner |-> NoWorker, until |-> 0]

RequestStates == {"none", "reserved", "queued", "dispatched", "cancel_requested",
                  "unknown", "settled"}
ReservationStates == {"none", "held", "unknown", "committed", "released"}
LeaseStates == {"none", "held", "active", "unknown", "succeeded", "failed"}
JobStates == {"none", "queued", "running", "cancel_requested", "canceled",
              "succeeded", "failed", "unknown"}

Live == {"held", "active"}
Ended == {"succeeded", "failed", "canceled"}

\* Every row holds one of its states; only videos have a job.
TypeOK ==
  /\ request \in [Requests -> RequestStates]
  /\ reservation \in [Requests -> ReservationStates]
  /\ lease \in [Requests -> [state : LeaseStates, account : Accounts \cup {NoAccount},
                             until : Nat, window : Nat]]
  /\ job \in [Requests -> JobStates]
  /\ attempt \in [Requests -> JobStates]
  /\ claim \in [Requests -> [owner : Workers \cup {NoWorker}, until : Nat]]
  /\ created \in [Requests -> Nat]
  /\ cursor \in Users \cup {NoUser}
  /\ active \in SUBSET Users
  /\ ready \in SUBSET Accounts
  /\ now \in Nat

Init ==
  /\ request = [r \in Requests |-> "none"]
  /\ reservation = [r \in Requests |-> "none"]
  /\ lease = [r \in Requests |-> NoLease]
  /\ job = [r \in Requests |-> "none"]
  /\ attempt = [r \in Requests |-> "none"]
  /\ claim = [r \in Requests |-> NoClaim]
  /\ created = [r \in Requests |-> 0]
  /\ cursor = NoUser
  /\ active = Users
  /\ ready = Accounts
  /\ now = 0
-----------------------------------------------------------------------------
\* Slots.  A lease in doubt still takes its slot.

TakesSlot(r, a) == lease[r].account = a /\ lease[r].state \in Live \cup {"unknown"}

SlotsTaken(a) == {r \in Requests : TakesSlot(r, a)}

\* A slip in Candidates: a lease in doubt frees its slot.
CandidatesByLive(r) ==
  {a \in Fits[r] \cap ready :
     Cardinality({s \in SlotsTaken(a) : lease[s].state \in Live}) < MaxConcurrency[a]}

\* Which of several candidates is chosen follows their observed units, which are
\* not modelled: any of them may be.
Candidates(r) ==
  {a \in Fits[r] \cap ready : Cardinality(SlotsTaken(a)) < MaxConcurrency[a]}

NewLease(a, state, ttl) ==
  [state |-> state, account |-> a, until |-> now + ttl, window |-> now + ReconcileTtl]

\* Acceptance of a call.

Enqueue(r) ==
  /\ r \in Videos
  /\ request[r] = "none"
  /\ request' = [request EXCEPT ![r] = "queued"]
  /\ reservation' = [reservation EXCEPT ![r] = "held"]
  /\ job' = [job EXCEPT ![r] = "queued"]
  /\ created' = [created EXCEPT ![r] = now]
  /\ UNCHANGED <<lease, attempt, claim, cursor, active, ready, now>>

\* insert_video_job_and_attempt: the job of a call that already has its lease.
InsertJobAndAttempt(r) ==
  /\ job' = [job EXCEPT ![r] = "queued"]
  /\ attempt' = [attempt EXCEPT ![r] = "queued"]
  /\ created' = [created EXCEPT ![r] = now]

Preflight(r) ==
  /\ request[r] = "none"
  /\ \E a \in Candidates(r), ttl \in GrantTtls :
       lease' = [lease EXCEPT ![r] = NewLease(a, "held", ttl)]
  /\ reservation' = [reservation EXCEPT ![r] = "held"]
  /\ \/ /\ r \in Videos
        /\ request' = [request EXCEPT ![r] = "queued"]
        /\ InsertJobAndAttempt(r)
     \/ /\ r \notin Videos
        /\ request' = [request EXCEPT ![r] = "reserved"]
        /\ UNCHANGED <<job, attempt, created>>
  /\ UNCHANGED <<claim, cursor, active, ready, now>>
-----------------------------------------------------------------------------
\* The queue.

Waiting(r) == r \in Videos /\ job[r] = "queued" /\ request[r] = "queued"

WaitingOf(u) == {r \in Requests : OwnerOf[r] = u /\ Waiting(r)}

Before(r, s) == created[r] < created[s] \/ (created[r] = created[s] /\ r < s)

OldestJob(u) == CHOOSE r \in WaitingOf(u) : \A s \in WaitingOf(u) \ {r} : Before(r, s)

QueuedUsers == {u \in active : WaitingOf(u) # {}}

WaitsLonger(u, v) ==
  LET c == created[OldestJob(u)]
      d == created[OldestJob(v)]
  IN c < d \/ (c = d /\ u < v)

FirstUser(U) == CHOOSE u \in U : \A v \in U \ {u} : WaitsLonger(u, v)

\* next_video_queue_user, and its second call without a lower bound.
NextUser ==
  LET later == {u \in QueuedUsers : u > cursor}
  IN FirstUser(IF later # {} THEN later ELSE QueuedUsers)

\* The rest of a claim, once the lease is l.
StartJob(w, r, l) ==
  /\ request' = [request EXCEPT ![r] = "dispatched"]
  /\ job' = [job EXCEPT ![r] = "running"]
  /\ attempt' = [attempt EXCEPT ![r] = "running"]
  /\ lease' = [lease EXCEPT ![r] = l]
  /\ claim' = [claim EXCEPT ![r] = [owner |-> w, until |-> l.until]]
  /\ cursor' = OwnerOf[r]
  /\ UNCHANGED <<reservation, created, active, ready, now>>

\* A job without an attempt needs its credits held and a free slot; one that has
\* an attempt needs the lease still held, expired or not.
ClaimJob(w, r) ==
  /\ job[r] = "queued"
  /\ request[r] = "queued"
  /\ \/ /\ attempt[r] = "none"
        /\ reservation[r] = "held"
        /\ \E a \in Candidates(r), ttl \in GrantTtls :
             StartJob(w, r, NewLease(a, "active", ttl))
     \/ /\ attempt[r] = "queued"
        /\ lease[r].state = "held"
        /\ StartJob(w, r, [lease[r] EXCEPT !.state = "active"])

\* The job at the head of the queue is the only one tried: when it cannot be
\* claimed, the call fails and nothing changes.
ClaimNext(w) ==
  /\ QueuedUsers # {}
  /\ \E r \in WaitingOf(NextUser) : r = OldestJob(NextUser) /\ ClaimJob(w, r)

ClaimById(w, r) ==
  /\ Waiting(r)
  /\ OwnerOf[r] \in active
  /\ ClaimJob(w, r)
-----------------------------------------------------------------------------
\* A call under way.

\* The owner of the call starts its job without a claim.
MarkRunning(r) ==
  /\ OwnerOf[r] \in active
  /\ job[r] = "queued"
  /\ attempt[r] # "none"
  /\ request[r] \in {"queued", "dispatched"}
  /\ request' = [request EXCEPT ![r] = "dispatched"]
  /\ job' = [job EXCEPT ![r] = "running"]
  /\ attempt' = [attempt EXCEPT ![r] = IF @ = "queued" THEN "running" ELSE @]
  /\ lease' = [lease EXCEPT ![r].state = IF @ = "held" THEN "active" ELSE @]
  /\ UNCHANGED <<reservation, claim, created, cursor, active, ready, now>>

\* A slip in HeartbeatJob: only the claim is extended.
HeartbeatClaim(w, r) ==
  /\ job[r] \in {"running", "cancel_requested"}
  /\ attempt[r] \in {"running", "cancel_requested"}
  /\ claim[r].owner = w
  /\ claim[r].until > now
  /\ \E ttl \in JobTtls : claim' = [claim EXCEPT ![r].until = now + ttl]
  /\ UNCHANGED <<request, reservation, lease, job, attempt, created, cursor, active, ready,
                 now>>

HeartbeatJob(w, r) ==
  /\ job[r] \in {"running", "cancel_requested"}
  /\ attempt[r] \in {"running", "cancel_requested"}
  /\ claim[r].owner = w
  /\ claim[r].until > now
  /\ lease[r].state = "active"
  /\ lease[r].until > now
  /\ \E ttl \in JobTtls :
       /\ claim' = [claim EXCEPT ![r].until = now + ttl]
       /\ lease' = [lease EXCEPT ![r].until = now + ttl]
  /\ UNCHANGED <<request, reservation, job, attempt, created, cursor, active, ready, now>>

\* A slip in HeartbeatLease: a late heartbeat revives a lease that has been settled.
HeartbeatAnyLease(r) ==
  /\ lease[r].state # "none"
  /\ \E ttl \in LeaseTtls :
       lease' = [lease EXCEPT ![r].state = "active", ![r].until = now + ttl]
  /\ UNCHANGED <<request, reservation, job, attempt, claim, created, cursor, active,
                 ready, now>>

\* Also revives a lease that has expired and was not swept yet.  The new expiry
\* replaces the old one, later or earlier, whatever a claim on the job says.
HeartbeatLease(r) ==
  /\ lease[r].state \in Live
  /\ \E ttl \in LeaseTtls :
       lease' = [lease EXCEPT ![r].state = "active", ![r].until = now + ttl]
  /\ UNCHANGED <<request, reservation, job, attempt, claim, created, cursor, active,
                 ready, now>>

\* A slip in CancelUnstarted: the transition to settled is forgotten.
CancelUnsettled(r) ==
  /\ attempt[r] = "none"
  /\ request' = [request EXCEPT ![r] = "canceled"]
  /\ job' = [job EXCEPT ![r] = "canceled"]
  /\ reservation' = [reservation EXCEPT ![r] = IF @ = "held" THEN "released" ELSE @]
  /\ UNCHANGED attempt

\* With no attempt there is nothing upstream, and the call ends here.
CancelUnstarted(r) ==
  /\ attempt[r] = "none"
  /\ request' = [request EXCEPT ![r] = "settled"]
  /\ job' = [job EXCEPT ![r] = "canceled"]
  /\ reservation' = [reservation EXCEPT ![r] = IF @ = "held" THEN "released" ELSE @]
  /\ UNCHANGED attempt

CancelStarted(r) ==
  /\ attempt[r] # "none"
  /\ request' = [request EXCEPT ![r] = "cancel_requested"]
  /\ job' = [job EXCEPT ![r] = "cancel_requested"]
  /\ attempt' = [attempt EXCEPT ![r] =
                   IF @ \in {"queued", "running"} THEN "cancel_requested" ELSE @]
  /\ UNCHANGED reservation

RequestVideoCancel(r) ==
  /\ OwnerOf[r] \in active
  /\ job[r] \in {"queued", "running"}
  /\ request[r] \in {"queued", "dispatched"}
  /\ CancelUnstarted(r) \/ CancelStarted(r)
  /\ UNCHANGED <<lease, claim, created, cursor, active, ready, now>>

\* The cancellation of a streamed call.  It takes any lease; of a video it leaves
\* the job alone.
RequestUpstreamCancel(r) ==
  /\ lease[r].state \in Live
  /\ request[r] \in {"reserved", "queued", "dispatched"}
  /\ request' = [request EXCEPT ![r] = "cancel_requested"]
  /\ UNCHANGED <<reservation, lease, job, attempt, claim, created, cursor, active,
                 ready, now>>
-----------------------------------------------------------------------------
\* The end of a call.

\* RequestState::can_transition_to and settle_request_state, for each outcome.
RequestMayEnd(state, outcome) ==
  CASE outcome = "canceled" -> state \in {"cancel_requested", "unknown"}
    [] outcome = "unclear" -> state \notin {"none", "settled"}
    [] OTHER -> state \in {"reserved", "queued", "dispatched", "unknown"}

\* JobState::can_transition_to.
JobNext ==
  [s \in JobStates |->
     CASE s = "queued" -> {"running", "cancel_requested", "failed", "unknown"}
       [] s = "running" -> {"succeeded", "failed", "cancel_requested", "unknown"}
       [] s = "cancel_requested" -> {"canceled", "unknown"}
       [] s = "unknown" -> {"canceled", "succeeded", "failed"}
       [] OTHER -> {}]

JobMayBecome(s, t) == s = t \/ t \in JobNext[s]

\* What each outcome makes of the rows.  A success whose units are not known
\* leaves the credits in doubt and ends the rest; an acceptance that failed
\* later and a lost connection leave everything in doubt.
Rows(l, q, j, s) == [lease |-> l, reservation |-> q, job |-> j, request |-> s]

EndOf ==
  [success   |-> Rows("succeeded", "committed", "succeeded", "settled"),
   unmetered |-> Rows("succeeded", "unknown", "succeeded", "settled"),
   rejected  |-> Rows("failed", "released", "failed", "settled"),
   canceled  |-> Rows("failed", "released", "canceled", "settled"),
   unclear   |-> Rows("unknown", "unknown", "unknown", "unknown")]

Outcomes == DOMAIN EndOf

\* A slip in SyncJobs: the claim survives the end of its job.
SyncKeepingClaim(R, state) ==
  /\ \A r \in R \cap Videos : JobMayBecome(job[r], state)
  /\ job' = [r \in Requests |-> IF r \in R \cap Videos THEN state ELSE job[r]]
  /\ attempt' = [r \in Requests |-> IF r \in R \cap Videos THEN state ELSE attempt[r]]
  /\ UNCHANGED claim

\* sync_video_job_settlement: the job, the attempt and the claim of the calls in R.
SyncJobs(R, state) ==
  /\ \A r \in R \cap Videos : JobMayBecome(job[r], state)
  /\ job' = [r \in Requests |-> IF r \in R \cap Videos THEN state ELSE job[r]]
  /\ attempt' = [r \in Requests |-> IF r \in R \cap Videos THEN state ELSE attempt[r]]
  /\ claim' = [r \in Requests |-> IF r \in R \cap Videos THEN NoClaim ELSE claim[r]]

Close(r, outcome) ==
  /\ RequestMayEnd(request[r], outcome)
  /\ request' = [request EXCEPT ![r] = EndOf[outcome].request]
  /\ reservation' = [reservation EXCEPT ![r] = EndOf[outcome].reservation]
  /\ lease' = [lease EXCEPT ![r].state = EndOf[outcome].lease,
                            ![r].window = IF outcome = "unclear" THEN @ ELSE 0]
  /\ SyncJobs({r}, EndOf[outcome].job)
  /\ UNCHANGED <<created, cursor, active, ready, now>>

\* A lease that is settled already, or in doubt, answers "not applied".
Settle(r, outcome) ==
  /\ lease[r].state \in Live
  /\ Close(r, outcome)

\* Only with evidence of an outcome, and while the window is open.
Reconcile(r, outcome) ==
  /\ outcome # "unclear"
  /\ lease[r].state = "unknown"
  /\ now <= lease[r].window
  /\ Close(r, outcome)

Expired == {r \in Requests : lease[r].state \in Live /\ lease[r].until <= now}

\* A slip in Recover: the sweep gives the credits back.
RecoverReleasing ==
  /\ Expired # {}
  /\ \A r \in Expired : RequestMayEnd(request[r], "unclear")
  /\ request' = [r \in Requests |-> IF r \in Expired THEN "unknown" ELSE request[r]]
  /\ reservation' = [r \in Requests |-> IF r \in Expired THEN "released" ELSE reservation[r]]
  /\ lease' = [r \in Requests |->
                 IF r \in Expired
                   THEN [lease[r] EXCEPT !.state = "unknown", !.window = now + RecoveryTtl]
                   ELSE lease[r]]
  /\ SyncJobs(Expired, "unknown")
  /\ UNCHANGED <<created, cursor, active, ready, now>>

\* A slip in Recover: the sweep puts expired jobs back into the queue.
RecoverRequeueing ==
  /\ Expired # {}
  /\ request' = [r \in Requests |-> IF r \in Expired THEN "queued" ELSE request[r]]
  /\ job' = [r \in Requests |-> IF r \in Expired \cap Videos THEN "queued" ELSE job[r]]
  /\ attempt' = [r \in Requests |-> IF r \in Expired \cap Videos THEN "queued" ELSE attempt[r]]
  /\ claim' = [r \in Requests |-> IF r \in Expired THEN NoClaim ELSE claim[r]]
  /\ lease' = [r \in Requests |->
                 IF r \in Expired THEN [lease[r] EXCEPT !.state = "held"] ELSE lease[r]]
  /\ UNCHANGED <<reservation, created, cursor, active, ready, now>>

\* One transaction for all expired leases.
Recover ==
  /\ Expired # {}
  /\ \A r \in Expired : RequestMayEnd(request[r], "unclear")
  /\ request' = [r \in Requests |-> IF r \in Expired THEN "unknown" ELSE request[r]]
  /\ reservation' = [r \in Requests |-> IF r \in Expired THEN "unknown" ELSE reservation[r]]
  /\ lease' = [r \in Requests |->
                 IF r \in Expired
                   THEN [lease[r] EXCEPT !.state = "unknown", !.window = now + RecoveryTtl]
                   ELSE lease[r]]
  /\ SyncJobs(Expired, "unknown")
  /\ UNCHANGED <<created, cursor, active, ready, now>>
-----------------------------------------------------------------------------
\* The surroundings: health reports and observations of the accounts, the
\* administrator, and time.

AccountsChange ==
  /\ \E U \in SUBSET Unsteady : ready' = Accounts \ U
  /\ UNCHANGED <<rows, created, cursor, active, now>>

SetUserStatus(u) ==
  /\ active' = IF u \in active THEN active \ {u} ELSE active \cup {u}
  /\ UNCHANGED <<rows, created, cursor, ready, now>>

Tick ==
  /\ now < MaxTime
  /\ now' = now + 1
  /\ UNCHANGED <<rows, created, cursor, active, ready>>

Next ==
  \/ \E r \in Requests :
       \/ Enqueue(r) \/ Preflight(r) \/ MarkRunning(r) \/ HeartbeatLease(r)
       \/ RequestVideoCancel(r) \/ RequestUpstreamCancel(r)
       \/ \E o \in Outcomes : Settle(r, o) \/ Reconcile(r, o)
       \/ \E w \in Workers : ClaimById(w, r) \/ HeartbeatJob(w, r)
  \/ \E w \in Workers : ClaimNext(w)
  \/ Recover
  \/ AccountsChange
  \/ \E u \in Suspendable : SetUserStatus(u)
  \/ Tick

Spec == Init /\ [][Next]_vars
-----------------------------------------------------------------------------
\* Safety.

\* No account ever carries more calls than it has slots, counting those whose
\* outcome is in doubt, whichever way they came (select_upstream_candidate from
\* a preflight or from a claim) and however late they are swept or reconciled.
SlotsBounded == \A a \in Accounts : Cardinality(SlotsTaken(a)) <= MaxConcurrency[a]

\* The rows of one call tell one story, though five operations write different
\* subsets of them: job, attempt and lease end together and are in doubt
\* together, the request is settled exactly when they have ended, and a worker
\* owns only a job that is under way on an active lease.
RowsAgree ==
  \A r \in Requests :
    /\ lease[r].state = "unknown" <=> request[r] = "unknown"
    /\ request[r] = "settled" <=> lease[r].state \in {"succeeded", "failed"}
                                  \/ (job[r] = "canceled" /\ attempt[r] = "none")
    /\ job[r] \in Ended \cup {"unknown"} /\ attempt[r] # "none" => attempt[r] = job[r]
    /\ r \in Videos /\ lease[r].state \in {"succeeded", "unknown"} => job[r] = lease[r].state
    /\ r \in Videos /\ lease[r].state = "failed" => job[r] \in {"failed", "canceled"}
    /\ r \in Videos => (lease[r].state = "none" <=> attempt[r] = "none")
    /\ claim[r].owner # NoWorker =>
         job[r] \in {"running", "cancel_requested"} /\ lease[r].state = "active"

\* Credits go back only for a call that upstream refused, confirmed as canceled
\* or never saw; they are taken only for one that succeeded; and whatever is
\* under way or in doubt keeps them held (settlement, recovery, cancellation).
CreditsFollowOutcome ==
  \A r \in Requests :
    /\ reservation[r] = "released" <=>
         lease[r].state = "failed" \/ (job[r] = "canceled" /\ lease[r].state = "none")
    /\ reservation[r] = "committed" => lease[r].state = "succeeded"
    /\ reservation[r] = "unknown" => lease[r].state \in {"unknown", "succeeded"}
    /\ lease[r].state \in Live => reservation[r] = "held"
    /\ job[r] = "queued" => reservation[r] = "held"

\* A worker's claim of r that still runs is covered: the sweep of expired leases
\* cannot take the job before the claim ends.
Covered(r) ==
  claim[r].owner # NoWorker /\ claim[r].until > now =>
    lease[r].state = "active" /\ lease[r].until >= claim[r].until

\* Claims (claim_video_job_in_transaction) and heartbeats of the job move claim
\* and lease together, so whatever sets a claim leaves it covered.  Nothing but
\* the owner's own heartbeat of an active lease, with less time than the claim
\* has, uncovers one: no sweep, settlement, cancellation or passing of time does.
OnlyLeaseHeartbeatUncovers ==
  [][\A r \in Requests :
       /\ claim'[r] # claim[r] => Covered(r)'
       /\ Covered(r) /\ ~Covered(r)' =>
            /\ lease[r].state = "active" /\ lease'[r].state = "active"
            /\ now' < lease'[r].until /\ lease'[r].until < lease[r].until]_vars

\* Every heartbeat of a lease gives at least what any grant or heartbeat of a job
\* gives.  The code does not demand it of its callers.
LeaseHeartbeatsLast == \A t \in LeaseTtls : \A g \in GrantTtls \cup JobTtls : g <= t

\* Under LeaseHeartbeatsLast, and only then: while a worker's claim runs, no sweep
\* can take its job (recover_expired_upstream_leases), whatever heartbeats of job
\* and lease came in which order.
ClaimCovered == \A r \in Requests : Covered(r)

\* The outcome of a call is decided once: a late settlement, heartbeat, sweep or
\* reconciliation changes no row of a call that has ended.
OutcomeIsFinal ==
  [][\A r \in Requests :
       request[r] = "settled" =>
         /\ request'[r] = "settled"
         /\ reservation'[r] = reservation[r]
         /\ lease'[r] = lease[r]
         /\ job'[r] = job[r]
         /\ attempt'[r] = attempt[r]]_vars

\* Work starts once: a job that leaves the queue never comes back to it, and a
\* worker becomes the owner only of a job that was waiting, paid for and not
\* canceled, so that no two workers ever carry out one job.
StartedOnce ==
  [][\A r \in Requests :
       /\ job[r] \notin {"none", "queued"} => job'[r] \notin {"none", "queued"}
       /\ claim'[r].owner \notin {NoWorker, claim[r].owner} =>
            /\ claim[r].owner = NoWorker
            /\ job[r] = "queued" /\ request[r] = "queued" /\ reservation[r] = "held"]_vars
=============================================================================
