--------------------------- MODULE JobLeasesProofs ---------------------------
(***************************************************************************)
(* What holds of the leases and the video queue for any number of calls,   *)
(* workers and accounts and any lifetimes.  The inductive invariant lists  *)
(* the stages a call goes through, with the rows it has in each.           *)
(***************************************************************************)
EXTENDS JobLeases, FiniteSetTheorems, TLAPS

\* The rows of r: request, job and attempt, credits and lease.
Is(r, req, j, at, res, l) ==
  /\ request[r] \in req
  /\ job[r] = j
  /\ attempt[r] = at
  /\ reservation[r] \in res
  /\ lease[r].state \in l

Unused(r) == Is(r, {"none"}, "none", "none", {"none"}, {"none"})

\* A streamed call, from its acceptance to its end.
Streaming(r) == Is(r, {"reserved", "cancel_requested"}, "none", "none", {"held"}, Live)
StreamInDoubt(r) == Is(r, {"unknown"}, "none", "none", {"unknown"}, {"unknown"})
StreamEnded(r) ==
  \/ Is(r, {"settled"}, "none", "none", {"committed", "unknown"}, {"succeeded"})
  \/ Is(r, {"settled"}, "none", "none", {"released"}, {"failed"})

\* A video.
InQueue(r) == Is(r, {"queued"}, "queued", "none", {"held"}, {"none"})
Dropped(r) == Is(r, {"settled"}, "canceled", "none", {"released"}, {"none"})
InQueueLeased(r) == Is(r, {"queued", "cancel_requested"}, "queued", "queued", {"held"}, Live)
UnderWay(r) == Is(r, {"dispatched", "cancel_requested"}, "running", "running", {"held"}, {"active"})
Stopping(r) == Is(r, {"cancel_requested"}, "cancel_requested", "cancel_requested", {"held"}, Live)
InDoubt(r) == Is(r, {"unknown"}, "unknown", "unknown", {"unknown"}, {"unknown"})
VideoEnded(r) ==
  \/ Is(r, {"settled"}, "succeeded", "succeeded", {"committed", "unknown"}, {"succeeded"})
  \/ Is(r, {"settled"}, "failed", "failed", {"released"}, {"failed"})
  \/ Is(r, {"settled"}, "canceled", "canceled", {"released"}, {"failed"})

Stage(r) ==
  \/ Unused(r)
  \/ r \notin Videos /\ (Streaming(r) \/ StreamInDoubt(r) \/ StreamEnded(r))
  \/ r \in Videos /\ (\/ InQueue(r) \/ Dropped(r) \/ InQueueLeased(r) \/ UnderWay(r)
                      \/ Stopping(r) \/ InDoubt(r) \/ VideoEnded(r))

\* Only a call under way on an active lease has an owner.
Owned(r) ==
  \/ claim[r] = NoClaim
  \/ claim[r].owner \in Workers /\ (UnderWay(r) \/ Stopping(r)) /\ lease[r].state = "active"

CallOK(r) == Stage(r) /\ Owned(r)

Inv == TypeOK /\ \A r \in Requests : CallOK(r)
-----------------------------------------------------------------------------
(* One call at a time.                                                     *)

\* The step leaves the rows of s alone.
Same(s) ==
  /\ request'[s] = request[s]
  /\ job'[s] = job[s]
  /\ attempt'[s] = attempt[s]
  /\ reservation'[s] = reservation[s]
  /\ lease'[s] = lease[s]
  /\ claim'[s] = claim[s]

\* The rows of upstream_leases.
LeaseRow ==
  [state : LeaseStates, account : Accounts \cup {NoAccount}, until : Nat, window : Nat]

\* A call whose rows a step leaves alone is as it was.
LEMMA SameCall ==
  ASSUME Inv, NEW s \in Requests, Same(s), now' = now
  PROVE  CallOK(s)'
BY DEF Inv, Same, CallOK, Stage, Owned, Is, Unused, Streaming, StreamInDoubt,
   StreamEnded, InQueue, Dropped, InQueueLeased, UnderWay, Stopping, InDoubt, VideoEnded

\* A step that changes one call is judged by what it makes of that call.
LEMMA OneCall ==
  ASSUME Inv, NEW r \in Requests, TypeOK', now' = now, CallOK(r)',
         \A s \in Requests \ {r} : Same(s)
  PROVE  Inv'
BY SameCall DEF Inv

USE DEF Is, Unused, Streaming, StreamInDoubt, StreamEnded, InQueue, Dropped, InQueueLeased,
        UnderWay, Stopping, InDoubt, VideoEnded

\* Before any call, every call is unused.
LEMMA InitInv ==
  ASSUME Init
  PROVE  Inv
<1>1. TypeOK
  BY RequestsAssumption DEF Init, TypeOK, NoLease, NoClaim, NoUser, RequestStates,
     ReservationStates, LeaseStates, JobStates
<1>2. \A r \in Requests : CallOK(r)
  BY DEF Init, CallOK, Stage, Owned, NoLease, NoClaim
<1> QED
  BY <1>1, <1>2 DEF Inv

\* A new lease is a row of its table.
LEMMA NewLeaseType ==
  ASSUME TypeOK, NEW a \in Accounts, NEW state \in Live, NEW ttl \in GrantTtls
  PROVE  /\ NewLease(a, state, ttl) \in LeaseRow
         /\ NewLease(a, state, ttl).state = state
         /\ NewLease(a, state, ttl).account = a
         /\ NewLease(a, state, ttl).until = now + ttl
BY TimesAssumption DEF TypeOK, NewLease, LeaseRow, LeaseStates, Live

\* Enqueue puts the call into the queue with its credits held.
LEMMA EnqueueInv ==
  ASSUME Inv, NEW r \in Requests, Enqueue(r)
  PROVE  Inv'
<1> TypeOK /\ CallOK(r)
  BY DEF Inv
<1>1. TypeOK'
  BY DEF TypeOK, Enqueue, RequestStates, ReservationStates, JobStates
<1>2. CallOK(r)'
  BY DEF TypeOK, CallOK, Stage, Owned, Enqueue, Live
<1>3. \A s \in Requests \ {r} : Same(s)
  BY DEF TypeOK, Enqueue, Same
<1> QED
  BY <1>1, <1>2, <1>3, OneCall DEF Enqueue

\* A lease is only taken on an account.
LEMMA CandidatesAreAccounts ==
  ASSUME NEW r \in Requests
  PROVE  Candidates(r) \subseteq Accounts
BY AccountsAssumption DEF Candidates

\* Preflight starts a streamed call, or queues a video that has its lease.
LEMMA PreflightInv ==
  ASSUME Inv, NEW r \in Requests, Preflight(r)
  PROVE  Inv'
<1> TypeOK /\ CallOK(r)
  BY DEF Inv
<1> PICK a \in Candidates(r), ttl \in GrantTtls :
       lease' = [lease EXCEPT ![r] = NewLease(a, "held", ttl)]
  BY DEF Preflight
<1>1. a \in Accounts
  BY CandidatesAreAccounts
<1> DEFINE l == NewLease(a, "held", ttl)
<1>2. l \in LeaseRow /\ l.state = "held"
  BY <1>1, NewLeaseType DEF Live
<1>3. lease' = [lease EXCEPT ![r] = l]
  OBVIOUS
<1> HIDE DEF l
<1>4. TypeOK'
  <2>1. lease' \in [Requests -> LeaseRow]
    BY <1>2, <1>3 DEF TypeOK, LeaseRow
  <2>2. /\ request' \in [Requests -> RequestStates]
        /\ reservation' \in [Requests -> ReservationStates]
        /\ job' \in [Requests -> JobStates]
        /\ attempt' \in [Requests -> JobStates]
        /\ created' \in [Requests -> Nat]
    <3>1. CASE request' = [request EXCEPT ![r] = "queued"] /\ InsertJobAndAttempt(r)
      BY <3>1 DEF TypeOK, Preflight, InsertJobAndAttempt, RequestStates, ReservationStates,
         JobStates
    <3>2. CASE /\ request' = [request EXCEPT ![r] = "reserved"]
               /\ UNCHANGED <<job, attempt, created>>
      BY <3>2 DEF TypeOK, Preflight, RequestStates, ReservationStates
    <3> QED
      BY <3>1, <3>2 DEF Preflight
  <2> QED
    BY <2>1, <2>2 DEF TypeOK, LeaseRow, Preflight
<1>5. CallOK(r)'
  <2>1. lease'[r] = l
    BY <1>3 DEF TypeOK
  <2>2. claim[r] = NoClaim
    BY DEF CallOK, Owned, Stage, Preflight
  <2>3. claim' = claim /\ now' = now
    BY DEF Preflight
  <2>4. Owned(r)'
    BY <2>2, <2>3 DEF Owned, NoClaim
  <2>5. Stage(r)'
    BY <1>2, <2>1 DEF TypeOK, CallOK, Stage, Preflight, InsertJobAndAttempt, Live
  <2> QED
    BY <2>4, <2>5 DEF CallOK
<1>6. \A s \in Requests \ {r} : Same(s)
  BY DEF TypeOK, Preflight, InsertJobAndAttempt, Same
<1> QED
  BY <1>4, <1>5, <1>6, OneCall DEF Preflight
-----------------------------------------------------------------------------
(* The queue.                                                              *)

\* Only a video is ever in the queue.
LEMMA QueuedIsVideo ==
  ASSUME Inv, NEW r \in Requests, job[r] = "queued"
  PROVE  r \in Videos
BY DEF Inv, CallOK, Stage

\* A claim puts the video under way, with an owner, on an active lease.
LEMMA StartJobInv ==
  ASSUME Inv, NEW r \in Requests, r \in Videos, NEW w \in Workers,
         NEW l \in LeaseRow,
         l.state = "active", reservation[r] = "held",
         StartJob(w, r, l)
  PROVE  Inv'
<1> TypeOK /\ CallOK(r)
  BY DEF Inv
<1>1. TypeOK'
  BY RequestsAssumption DEF TypeOK, StartJob, RequestStates, JobStates, LeaseRow
<1>2. CallOK(r)'
  <2>1. lease'[r] = l /\ claim'[r] = [owner |-> w, until |-> l.until]
    BY DEF TypeOK, StartJob
  <2>2. UnderWay(r)'
    BY <2>1 DEF TypeOK, StartJob
  <2> QED
    BY <2>1, <2>2 DEF CallOK, Stage, Owned, StartJob, TypeOK, LeaseRow
<1>3. \A s \in Requests \ {r} : Same(s)
  BY DEF TypeOK, StartJob, Same
<1> QED
  BY <1>1, <1>2, <1>3, OneCall DEF StartJob

\* Both ways to claim a job lead there.
LEMMA ClaimJobInv ==
  ASSUME Inv, NEW r \in Requests, NEW w \in Workers, ClaimJob(w, r)
  PROVE  Inv'
<1> TypeOK /\ CallOK(r)
  BY DEF Inv
<1>1. r \in Videos
  BY QueuedIsVideo DEF ClaimJob
<1>2. CASE attempt[r] = "none" /\ reservation[r] = "held"
           /\ \E a \in Candidates(r), ttl \in GrantTtls : StartJob(w, r, NewLease(a, "active", ttl))
  <2> PICK a \in Candidates(r), ttl \in GrantTtls : StartJob(w, r, NewLease(a, "active", ttl))
    BY <1>2
  <2>1. a \in Accounts
    BY CandidatesAreAccounts
  <2> QED
    BY <1>1, <1>2, <2>1, NewLeaseType, StartJobInv DEF Live
<1>3. CASE attempt[r] = "queued" /\ lease[r].state = "held"
           /\ StartJob(w, r, [lease[r] EXCEPT !.state = "active"])
  <2> DEFINE l == [lease[r] EXCEPT !.state = "active"]
  <2>1. l \in LeaseRow /\ l.state = "active"
    BY DEF TypeOK, LeaseStates, LeaseRow
  <2>2. reservation[r] = "held"
    BY DEF CallOK, Stage, ClaimJob
  <2>3. StartJob(w, r, l)
    BY <1>3
  <2> HIDE DEF l
  <2> QED
    BY <1>1, <2>1, <2>2, <2>3, StartJobInv
<1> QED
  BY <1>2, <1>3 DEF ClaimJob

\* The job at the head of the queue is one of the calls.
LEMMA HeadOfQueue ==
  ASSUME Inv, NEW w \in Workers, ClaimNext(w)
  PROVE  \E r \in Requests : ClaimJob(w, r)
BY DEF ClaimNext, WaitingOf
-----------------------------------------------------------------------------
(* A call under way.                                                       *)

\* MarkRunning puts the video under way without an owner.
LEMMA MarkRunningInv ==
  ASSUME Inv, NEW r \in Requests, MarkRunning(r)
  PROVE  Inv'
<1> TypeOK /\ CallOK(r)
  BY DEF Inv
<1> DEFINE l == [lease[r] EXCEPT !.state = IF @ = "held" THEN "active" ELSE @]
<1>0. /\ l \in LeaseRow /\ l.until = lease[r].until
      /\ lease[r].state \in Live => l.state = "active"
      /\ lease' = [lease EXCEPT ![r] = l]
  BY DEF TypeOK, MarkRunning, LeaseRow, LeaseStates, Live
<1> HIDE DEF l
<1>1. TypeOK'
  <2>1. lease' \in [Requests -> LeaseRow]
    BY <1>0 DEF TypeOK, LeaseRow
  <2>2. /\ request' \in [Requests -> RequestStates]
        /\ job' \in [Requests -> JobStates]
        /\ attempt' \in [Requests -> JobStates]
    BY DEF TypeOK, MarkRunning, RequestStates, JobStates
  <2>3. UNCHANGED <<reservation, claim, created, cursor, active, ready, now>>
    BY DEF MarkRunning
  <2> QED
    BY <2>1, <2>2, <2>3 DEF TypeOK, LeaseRow
<1>2. CallOK(r)'
  <2>1. lease'[r] = l
    BY <1>0 DEF TypeOK
  <2>2. UnderWay(r)'
    BY <1>0, <2>1 DEF TypeOK, CallOK, Stage, MarkRunning
  <2>3. claim[r] = NoClaim
    BY DEF CallOK, Owned, MarkRunning
  <2> QED
    BY <1>0, <2>1, <2>2, <2>3, QueuedIsVideo DEF CallOK, Stage, Owned, MarkRunning
<1>3. \A s \in Requests \ {r} : Same(s)
  BY DEF TypeOK, MarkRunning, Same
<1> QED
  BY <1>1, <1>2, <1>3, OneCall DEF MarkRunning

\* A heartbeat of the job moves the claim and the lease together.
LEMMA HeartbeatJobInv ==
  ASSUME Inv, NEW r \in Requests, NEW w \in Workers, HeartbeatJob(w, r)
  PROVE  Inv'
<1> TypeOK /\ CallOK(r)
  BY DEF Inv
<1>1. PICK ttl \in JobTtls : /\ claim' = [claim EXCEPT ![r].until = now + ttl]
                             /\ lease' = [lease EXCEPT ![r].until = now + ttl]
  BY DEF HeartbeatJob
<1>2. now + ttl \in Nat
  BY TimesAssumption DEF TypeOK
<1>3. TypeOK'
  <2> DEFINE c == [claim[r] EXCEPT !.until = now + ttl]
             l == [lease[r] EXCEPT !.until = now + ttl]
  <2>1. /\ c \in [owner : Workers \cup {NoWorker}, until : Nat]
        /\ l \in LeaseRow
    BY <1>2 DEF TypeOK, LeaseRow
  <2>2. /\ claim' = [claim EXCEPT ![r] = c]
        /\ lease' = [lease EXCEPT ![r] = l]
    BY <1>1 DEF TypeOK
  <2> HIDE DEF c, l
  <2>3. UNCHANGED <<request, reservation, job, attempt, created, cursor, active, ready, now>>
    BY DEF HeartbeatJob
  <2> QED
    BY <2>1, <2>2, <2>3 DEF TypeOK, LeaseRow
<1>4. CallOK(r)'
  <2>1. /\ claim'[r].owner = claim[r].owner
        /\ lease[r].state = "active" /\ lease'[r].state = "active"
    BY <1>1 DEF TypeOK, HeartbeatJob
  <2>2. Stage(r)' /\ (UnderWay(r) \/ Stopping(r))'
    BY <2>1 DEF CallOK, Stage, HeartbeatJob, Live
  <2>3. claim[r].owner \in Workers
    BY RequestsAssumption DEF HeartbeatJob
  <2> QED
    BY <2>1, <2>2, <2>3 DEF CallOK, Owned
<1>5. \A s \in Requests \ {r} : Same(s)
  BY <1>1 DEF TypeOK, HeartbeatJob, Same
<1> QED
  BY <1>3, <1>4, <1>5, OneCall DEF HeartbeatJob

\* A heartbeat of the lease makes it active and leaves the claim alone.
LEMMA HeartbeatLeaseInv ==
  ASSUME Inv, NEW r \in Requests, HeartbeatLease(r)
  PROVE  Inv'
<1> TypeOK /\ CallOK(r)
  BY DEF Inv
<1> PICK ttl \in LeaseTtls :
       lease' = [lease EXCEPT ![r].state = "active", ![r].until = now + ttl]
  BY DEF HeartbeatLease
<1>1. TypeOK'
  <2> DEFINE l == [lease[r] EXCEPT !.state = "active", !.until = now + ttl]
  <2>0. lease[r] \in LeaseRow /\ now + ttl \in Nat
    BY TimesAssumption DEF TypeOK, LeaseRow
  <2>1. l \in LeaseRow
    BY <2>0 DEF LeaseRow, LeaseStates
  <2>2. lease' = [lease EXCEPT ![r] = l]
    BY DEF TypeOK
  <2> HIDE DEF l
  <2>3. UNCHANGED <<request, reservation, job, attempt, claim, created, cursor, active,
                    ready, now>>
    BY DEF HeartbeatLease
  <2> QED
    BY <2>1, <2>2, <2>3 DEF TypeOK, LeaseRow
<1>2. CallOK(r)'
  <2>1. lease'[r].state = "active"
    BY DEF TypeOK
  <2> QED
    BY <2>1 DEF CallOK, Stage, Owned, HeartbeatLease, Live
<1>3. \A s \in Requests \ {r} : Same(s)
  BY DEF TypeOK, HeartbeatLease, Same
<1> QED
  BY <1>1, <1>2, <1>3, OneCall DEF HeartbeatLease

\* A canceled video is dropped, or waits for word from upstream.
LEMMA VideoCancelInv ==
  ASSUME Inv, NEW r \in Requests, RequestVideoCancel(r)
  PROVE  Inv'
<1> TypeOK /\ CallOK(r)
  BY DEF Inv
<1>1. TypeOK'
  BY DEF TypeOK, RequestVideoCancel, CancelUnstarted, CancelStarted, RequestStates,
     ReservationStates, JobStates
<1>2. Stage(r)' /\ Owned(r)'
  <2>1. CASE CancelUnstarted(r)
    BY <2>1 DEF TypeOK, CallOK, Stage, Owned, RequestVideoCancel, CancelUnstarted, Live
  <2>2. CASE CancelStarted(r)
    BY <2>2 DEF TypeOK, CallOK, Stage, Owned, RequestVideoCancel, CancelStarted, Live
  <2> QED
    BY <2>1, <2>2 DEF RequestVideoCancel
<1>3. \A s \in Requests \ {r} : Same(s)
  BY DEF TypeOK, RequestVideoCancel, CancelUnstarted, CancelStarted, Same
<1> QED
  BY <1>1, <1>2, <1>3, OneCall DEF RequestVideoCancel, CallOK

\* RequestUpstreamCancel marks the request and leaves the stage otherwise.
LEMMA UpstreamCancelInv ==
  ASSUME Inv, NEW r \in Requests, RequestUpstreamCancel(r)
  PROVE  Inv'
<1> TypeOK /\ CallOK(r)
  BY DEF Inv
<1>1. TypeOK'
  BY DEF TypeOK, RequestUpstreamCancel, RequestStates
<1>2. CallOK(r)'
  BY DEF TypeOK, CallOK, Stage, Owned, RequestUpstreamCancel, Live
<1>3. \A s \in Requests \ {r} : Same(s)
  BY DEF TypeOK, RequestUpstreamCancel, Same
<1> QED
  BY <1>1, <1>2, <1>3, OneCall DEF RequestUpstreamCancel
-----------------------------------------------------------------------------
(* The end of a call.                                                      *)

\* Settle and Reconcile end a call, or leave all its rows in doubt.
LEMMA CloseInv ==
  ASSUME Inv, NEW r \in Requests, NEW outcome \in Outcomes, Close(r, outcome),
         lease[r].state \in Live \cup {"unknown"}
  PROVE  Inv'
<1> TypeOK /\ CallOK(r)
  BY DEF Inv
<1> DEFINE e == EndOf[outcome]
           l == [lease[r] EXCEPT !.state = e.lease,
                                 !.window = IF outcome = "unclear" THEN @ ELSE 0]
<1>1. \/ e = Rows("succeeded", "committed", "succeeded", "settled")
      \/ e = Rows("succeeded", "unknown", "succeeded", "settled")
      \/ e = Rows("failed", "released", "failed", "settled")
      \/ e = Rows("failed", "released", "canceled", "settled")
      \/ e = Rows("unknown", "unknown", "unknown", "unknown")
  BY DEF Outcomes, EndOf
<1>2. /\ lease' = [lease EXCEPT ![r] = l]
      /\ request' = [request EXCEPT ![r] = e.request]
      /\ reservation' = [reservation EXCEPT ![r] = e.reservation]
      /\ SyncJobs({r}, e.job)
      /\ UNCHANGED <<created, cursor, active, ready, now>>
  BY DEF Close, TypeOK
<1> HIDE DEF e
<1>3. l \in LeaseRow /\ l.state = e.lease /\ l.until = lease[r].until
  <2>1. lease[r] \in LeaseRow
    BY DEF TypeOK, LeaseRow
  <2>2. e.lease \in LeaseStates
    BY <1>1 DEF Rows, LeaseStates
  <2> QED
    BY <2>1, <2>2 DEF LeaseRow
<1> HIDE DEF l
<1>4. TypeOK'
  <2>1. lease' \in [Requests -> LeaseRow]
    BY <1>2, <1>3 DEF TypeOK, LeaseRow
  <2>2. /\ e.request \in RequestStates
        /\ e.reservation \in ReservationStates
        /\ e.job \in JobStates
    BY <1>1 DEF Rows, RequestStates, ReservationStates, JobStates
  <2>3. /\ request' \in [Requests -> RequestStates]
        /\ reservation' \in [Requests -> ReservationStates]
        /\ job' \in [Requests -> JobStates]
        /\ attempt' \in [Requests -> JobStates]
        /\ claim' \in [Requests -> [owner : Workers \cup {NoWorker}, until : Nat]]
    BY <1>2, <2>2 DEF TypeOK, SyncJobs, NoClaim
  <2> QED
    BY <1>2, <2>1, <2>3 DEF TypeOK, LeaseRow
<1>5. CallOK(r)'
  <2>1. /\ lease'[r] = l /\ request'[r] = e.request /\ reservation'[r] = e.reservation
        /\ now' = now
    BY <1>2 DEF TypeOK
  <2>2. CASE r \in Videos
    <3>1. job'[r] = e.job /\ attempt'[r] = e.job /\ claim'[r] = NoClaim
      BY <1>2, <2>2 DEF SyncJobs
    <3>2. Stage(r)'
      BY <1>1, <1>3, <2>1, <2>2, <3>1 DEF Rows, Stage
    <3> QED
      BY <1>3, <2>1, <3>1, <3>2 DEF CallOK, Owned, TypeOK, NoClaim
  <2>3. CASE r \notin Videos
    <3>1. job[r] = "none" /\ attempt[r] = "none" /\ claim[r] = NoClaim
      BY <2>3 DEF CallOK, Stage, Owned, Live
    <3>2. job'[r] = "none" /\ attempt'[r] = "none" /\ claim'[r] = NoClaim
      BY <1>2, <2>3, <3>1 DEF SyncJobs
    <3>3. Stage(r)'
      BY <1>1, <1>3, <2>1, <2>3, <3>2 DEF Rows, Stage
    <3> QED
      BY <1>3, <2>1, <3>2, <3>3 DEF CallOK, Owned, TypeOK, NoClaim
  <2> QED
    BY <2>2, <2>3
<1>6. \A s \in Requests \ {r} : Same(s)
  BY <1>2 DEF TypeOK, SyncJobs, Same
<1> QED
  BY <1>2, <1>4, <1>5, <1>6, OneCall

\* The sweep puts every expired call in doubt and no other.
LEMMA RecoverInv ==
  ASSUME Inv, Recover
  PROVE  Inv'
<1> TypeOK
  BY DEF Inv
<1> DEFINE l(r) == [lease[r] EXCEPT !.state = "unknown", !.window = now + RecoveryTtl]
<1>1. \A r \in Requests : l(r) \in LeaseRow /\ l(r).state = "unknown" /\ l(r).until = lease[r].until
  <2>1. \A r \in Requests : lease[r] \in LeaseRow
    BY DEF TypeOK, LeaseRow
  <2>2. now + RecoveryTtl \in Nat
    BY TimesAssumption DEF TypeOK
  <2> QED
    BY <2>1, <2>2 DEF LeaseRow, LeaseStates
<1>2. lease' = [r \in Requests |-> IF r \in Expired THEN l(r) ELSE lease[r]]
  BY DEF Recover
<1> HIDE DEF l
<1>3. TypeOK'
  <2>1. lease' \in [Requests -> LeaseRow]
    BY <1>1, <1>2 DEF TypeOK, LeaseRow
  <2>2. /\ request' \in [Requests -> RequestStates]
        /\ reservation' \in [Requests -> ReservationStates]
        /\ job' \in [Requests -> JobStates]
        /\ attempt' \in [Requests -> JobStates]
        /\ claim' \in [Requests -> [owner : Workers \cup {NoWorker}, until : Nat]]
    BY DEF TypeOK, Recover, SyncJobs, NoClaim, RequestStates, ReservationStates, JobStates
  <2>3. UNCHANGED <<created, cursor, active, ready, now>>
    BY DEF Recover
  <2> QED
    BY <2>1, <2>2, <2>3 DEF TypeOK, LeaseRow
<1>4. ASSUME NEW r \in Requests
      PROVE  CallOK(r)'
  <2> CallOK(r) /\ now' = now
    BY DEF Inv, Recover
  <2>1. CASE r \in Expired
    <3>1. /\ request'[r] = "unknown" /\ reservation'[r] = "unknown" /\ lease'[r] = l(r)
      BY <1>2, <2>1 DEF Recover
    <3>2. lease[r].state \in Live
      BY <2>1 DEF Expired
    <3>3. CASE r \in Videos
      <4>1. job'[r] = "unknown" /\ attempt'[r] = "unknown" /\ claim'[r] = NoClaim
        BY <2>1, <3>3 DEF Recover, SyncJobs
      <4> QED
        BY <1>1, <3>1, <3>3, <4>1 DEF CallOK, Stage, Owned, TypeOK, NoClaim
    <3>4. CASE r \notin Videos
      <4>1. job[r] = "none" /\ attempt[r] = "none" /\ claim[r] = NoClaim
        BY <3>2, <3>4 DEF CallOK, Stage, Owned, Live
      <4>2. job'[r] = "none" /\ attempt'[r] = "none" /\ claim'[r] = NoClaim
        BY <3>4, <4>1 DEF Recover, SyncJobs
      <4> QED
        BY <1>1, <3>1, <3>4, <4>2 DEF CallOK, Stage, Owned, TypeOK, NoClaim
    <3> QED
      BY <3>3, <3>4
  <2>2. CASE r \notin Expired
    <3>1. Same(r)
      BY <1>2, <2>2 DEF Recover, SyncJobs, Same
    <3> QED
      BY <3>1, SameCall
  <2> QED
    BY <2>1, <2>2
<1> QED
  BY <1>3, <1>4 DEF Inv
-----------------------------------------------------------------------------
(* The surroundings, and every step.                                       *)

\* What happens around the calls leaves their rows alone.
LEMMA OutsideInv ==
  ASSUME Inv, AccountsChange \/ Tick \/ (\E u \in Suspendable : SetUserStatus(u))
  PROVE  Inv'
<1>1. TypeOK'
  <2> TypeOK
    BY DEF Inv
  <2>1. CASE AccountsChange
    BY <2>1 DEF TypeOK, AccountsChange, rows
  <2>2. CASE Tick
    BY <2>2 DEF TypeOK, Tick, rows
  <2>3. ASSUME NEW u \in Suspendable, SetUserStatus(u)
        PROVE  TypeOK'
    <3>1. active' \in SUBSET Users
      BY <2>3, RequestsAssumption DEF TypeOK, SetUserStatus
    <3> QED
      BY <2>3, <3>1 DEF TypeOK, SetUserStatus, rows
  <2> QED
    BY <2>1, <2>2, <2>3
<1>2. ASSUME NEW r \in Requests
      PROVE  CallOK(r)'
  <2> CallOK(r) /\ TypeOK
    BY DEF Inv
  <2>1. UNCHANGED rows /\ now' \in Nat /\ now <= now'
    BY DEF TypeOK, AccountsChange, Tick, SetUserStatus
  <2> QED
    BY <2>1 DEF CallOK, Stage, Owned, rows
<1> QED
  BY <1>1, <1>2 DEF Inv

\* The invariant is inductive.
LEMMA NextInv ==
  ASSUME Inv, [Next]_vars
  PROVE  Inv'
<1>1. CASE \E r \in Requests :
             Enqueue(r) \/ Preflight(r) \/ MarkRunning(r) \/ HeartbeatLease(r)
             \/ RequestVideoCancel(r) \/ RequestUpstreamCancel(r)
  BY <1>1, EnqueueInv, PreflightInv, MarkRunningInv, HeartbeatLeaseInv, VideoCancelInv,
     UpstreamCancelInv
<1>2. CASE \E r \in Requests : \E o \in Outcomes : Settle(r, o) \/ Reconcile(r, o)
  BY <1>2, CloseInv DEF Settle, Reconcile
<1>3. CASE \E r \in Requests : \E w \in Workers : ClaimById(w, r) \/ HeartbeatJob(w, r)
  BY <1>3, ClaimJobInv, HeartbeatJobInv DEF ClaimById
<1>4. CASE \E w \in Workers : ClaimNext(w)
  BY <1>4, HeadOfQueue, ClaimJobInv
<1>5. CASE Recover
  BY <1>5, RecoverInv
<1>6. CASE AccountsChange \/ Tick \/ (\E u \in Suspendable : SetUserStatus(u))
  BY <1>6, OutsideInv
<1>7. CASE UNCHANGED vars
  <2>1. TypeOK'
    BY <1>7 DEF Inv, TypeOK, vars, rows
  <2>2. \A r \in Requests : Same(r) /\ now' = now
    BY <1>7 DEF vars, rows, Same
  <2> QED
    BY <2>1, <2>2, SameCall DEF Inv
<1> QED
  BY <1>1, <1>2, <1>3, <1>4, <1>5, <1>6, <1>7 DEF Next

\* Every reachable state has each call in one of the stages above.
THEOREM CallsInStages == Spec => []Inv
<1> QED
  BY InitInv, NextInv, PTL DEF Spec

\* TypeOK: the rows hold values of their types at any size of the system.
THEOREM LeaseTypes == Spec => []TypeOK
<1>1. Inv => TypeOK
  BY DEF Inv
<1> QED
  BY <1>1, CallsInStages, PTL
-----------------------------------------------------------------------------
(* What follows from the stages.                                           *)

\* RowsAgree: the five rows of a call never tell different stories, however the
\* operations of owners, workers and the sweep interleave.
THEOREM RowsAlwaysAgree == Spec => []RowsAgree
<1>1. Inv => RowsAgree
  <2> SUFFICES ASSUME Inv, NEW r \in Requests, CallOK(r)
               PROVE  RowsAgree!(r)
    BY DEF Inv, RowsAgree
  <2> QED
    BY DEF CallOK, Stage, Owned, Live, Ended, NoClaim
<1> QED
  BY <1>1, CallsInStages, PTL

\* CreditsFollowOutcome: held credits are given back or taken only as the
\* outcome of the call says.
THEOREM CreditsAlwaysFollow == Spec => []CreditsFollowOutcome
<1>1. Inv => CreditsFollowOutcome
  <2> SUFFICES ASSUME Inv, NEW r \in Requests, CallOK(r)
               PROVE  CreditsFollowOutcome!(r)
    BY DEF Inv, CreditsFollowOutcome
  <2> QED
    BY DEF CallOK, Stage, Live
<1> QED
  BY <1>1, CallsInStages, PTL
-----------------------------------------------------------------------------
(* What a step may do to a call.                                           *)

\* A step of one call leaves every call that is settled alone.
LEMMA SettledUntouched ==
  ASSUME Inv, NEW s \in Requests, request[s] = "settled", [Next]_vars
  PROVE  Same(s)
<1> TypeOK /\ CallOK(s)
  BY DEF Inv
<1>0. lease[s].state \notin Live \cup {"unknown"} /\ job[s] \in {"none"} \cup Ended
  BY DEF CallOK, Stage, Live, Ended
<1>1. ASSUME NEW r \in Requests, Enqueue(r) PROVE Same(s)
  BY <1>1 DEF Enqueue, TypeOK, Same
<1>2. ASSUME NEW r \in Requests, Preflight(r) PROVE Same(s)
  BY <1>2 DEF Preflight, InsertJobAndAttempt, TypeOK, Same
<1>3. ASSUME NEW r \in Requests, MarkRunning(r) PROVE Same(s)
  BY <1>0, <1>3 DEF MarkRunning, TypeOK, Same, Ended
<1>4. ASSUME NEW r \in Requests, HeartbeatLease(r) PROVE Same(s)
  BY <1>0, <1>4 DEF HeartbeatLease, TypeOK, Same
<1>5. ASSUME NEW r \in Requests, RequestVideoCancel(r) PROVE Same(s)
  BY <1>0, <1>5 DEF RequestVideoCancel, CancelUnstarted, CancelStarted, TypeOK, Same, Ended
<1>6. ASSUME NEW r \in Requests, RequestUpstreamCancel(r) PROVE Same(s)
  BY <1>6 DEF RequestUpstreamCancel, TypeOK, Same
<1>7. ASSUME NEW r \in Requests, NEW o \in Outcomes, Settle(r, o) \/ Reconcile(r, o)
      PROVE  Same(s)
  <2>1. r # s
    BY <1>0, <1>7 DEF Settle, Reconcile
  <2> QED
    BY <1>7, <2>1 DEF Settle, Reconcile, Close, SyncJobs, TypeOK, Same
<1>8. ASSUME NEW r \in Requests, NEW w \in Workers, ClaimJob(w, r) PROVE Same(s)
  <2>1. r # s
    BY <1>0, <1>8 DEF ClaimJob, Ended
  <2> QED
    BY <1>8, <2>1 DEF ClaimJob, StartJob, TypeOK, Same
<1>9. ASSUME NEW r \in Requests, NEW w \in Workers, HeartbeatJob(w, r) PROVE Same(s)
  BY <1>0, <1>9 DEF HeartbeatJob, TypeOK, Same, Live
<1>10. CASE Recover
  BY <1>0, <1>10 DEF Recover, Expired, SyncJobs, TypeOK, Same
<1>11. CASE AccountsChange \/ Tick \/ (\E u \in Suspendable : SetUserStatus(u))
  BY <1>11 DEF AccountsChange, Tick, SetUserStatus, rows, Same
<1>12. CASE UNCHANGED vars
  BY <1>12 DEF vars, rows, Same
<1> QED
  BY <1>1, <1>2, <1>3, <1>4, <1>5, <1>6, <1>7, <1>8, <1>9, <1>10, <1>11, <1>12, HeadOfQueue
  DEF Next, ClaimById

\* OutcomeIsFinal: whatever arrives late, a call that has ended keeps its outcome.
THEOREM OutcomesAreFinal == Spec => OutcomeIsFinal
<1> DEFINE Final == \A r \in Requests :
                      request[r] = "settled" =>
                        /\ request'[r] = "settled"
                        /\ reservation'[r] = reservation[r]
                        /\ lease'[r] = lease[r]
                        /\ job'[r] = job[r]
                        /\ attempt'[r] = attempt[r]
<1>1. Inv /\ [Next]_vars => Final
  BY SettledUntouched DEF Same
<1> QED
  BY <1>1, CallsInStages, PTL DEF Spec, OutcomeIsFinal

\* A step takes no job back to the queue and gives only waiting jobs an owner.
MovesOn(r) ==
  /\ job[r] \notin {"none", "queued"} => job'[r] \notin {"none", "queued"}
  /\ claim'[r].owner \notin {NoWorker, claim[r].owner} =>
       /\ claim[r].owner = NoWorker
       /\ job[r] = "queued" /\ request[r] = "queued" /\ reservation[r] = "held"

\* Every step moves every call on.
LEMMA EveryStepMovesOn ==
  ASSUME Inv, NEW s \in Requests, [Next]_vars
  PROVE  MovesOn(s)
<1> TypeOK /\ CallOK(s)
  BY DEF Inv
<1>0. job[s] = "queued" => claim[s] = NoClaim /\ reservation[s] = "held"
  BY DEF CallOK, Stage, Owned
<1>1. ASSUME NEW r \in Requests, Enqueue(r) PROVE MovesOn(s)
  <2>1. r = s => job[s] = "none"
    BY <1>1 DEF CallOK, Stage, Enqueue
  <2> QED
    BY <1>1, <2>1 DEF Enqueue, TypeOK, MovesOn
<1>2. ASSUME NEW r \in Requests, Preflight(r) PROVE MovesOn(s)
  <2>1. r = s => job[s] = "none"
    BY <1>2 DEF CallOK, Stage, Preflight
  <2> QED
    BY <1>2, <2>1 DEF Preflight, InsertJobAndAttempt, TypeOK, MovesOn
<1>3. ASSUME NEW r \in Requests, MarkRunning(r) PROVE MovesOn(s)
  BY <1>3 DEF MarkRunning, TypeOK, MovesOn
<1>4. ASSUME NEW r \in Requests, HeartbeatLease(r) PROVE MovesOn(s)
  BY <1>4 DEF HeartbeatLease, MovesOn
<1>5. ASSUME NEW r \in Requests, RequestVideoCancel(r) PROVE MovesOn(s)
  BY <1>5 DEF RequestVideoCancel, CancelUnstarted, CancelStarted, TypeOK, MovesOn
<1>6. ASSUME NEW r \in Requests, RequestUpstreamCancel(r) PROVE MovesOn(s)
  BY <1>6 DEF RequestUpstreamCancel, MovesOn
<1>7. ASSUME NEW r \in Requests, NEW o \in Outcomes, Settle(r, o) \/ Reconcile(r, o)
      PROVE  MovesOn(s)
  <2>1. EndOf[o].job \notin {"none", "queued"}
    BY DEF Outcomes, EndOf, Rows
  <2>2. SyncJobs({r}, EndOf[o].job)
    BY <1>7 DEF Settle, Reconcile, Close
  <2> QED
    BY <2>1, <2>2 DEF SyncJobs, NoClaim, MovesOn
<1>8. ASSUME NEW r \in Requests, NEW w \in Workers, ClaimJob(w, r) PROVE MovesOn(s)
  <2>1. /\ job[r] = "queued" /\ request[r] = "queued"
        /\ job' = [job EXCEPT ![r] = "running"]
        /\ \A q \in Requests \ {r} : claim'[q] = claim[q]
    BY <1>8 DEF ClaimJob, StartJob, TypeOK
  <2> QED
    BY <1>0, <2>1 DEF TypeOK, MovesOn, NoClaim
<1>9. ASSUME NEW r \in Requests, NEW w \in Workers, HeartbeatJob(w, r) PROVE MovesOn(s)
  <2>1. claim'[s].owner = claim[s].owner
    BY <1>9 DEF HeartbeatJob, TypeOK
  <2> QED
    BY <1>9, <2>1 DEF HeartbeatJob, MovesOn
<1>10. CASE Recover
  BY <1>10 DEF Recover, SyncJobs, NoClaim, MovesOn
<1>11. CASE AccountsChange \/ Tick \/ (\E u \in Suspendable : SetUserStatus(u))
  BY <1>11 DEF AccountsChange, Tick, SetUserStatus, rows, MovesOn
<1>12. CASE UNCHANGED vars
  BY <1>12 DEF vars, rows, MovesOn
<1> QED
  BY <1>1, <1>2, <1>3, <1>4, <1>5, <1>6, <1>7, <1>8, <1>9, <1>10, <1>11, <1>12, HeadOfQueue
  DEF Next, ClaimById

\* StartedOnce: however claims, cancellations and sweeps interleave, no job is
\* handed to a second worker or queued again.
THEOREM JobsStartOnce == Spec => StartedOnce
<1>1. Inv /\ [Next]_vars => \A r \in Requests : MovesOn(r)
  BY EveryStepMovesOn
<1> QED
  BY <1>1, CallsInStages, PTL DEF Spec, StartedOnce, MovesOn
-----------------------------------------------------------------------------
(* Claims and leases.                                                      *)

\* What sets the claim of s covers it, and what uncovers it is a heartbeat of the
\* lease that gives less.
KeepsCover(s) ==
  /\ claim'[s] # claim[s] => Covered(s)'
  /\ Covered(s) /\ ~Covered(s)' =>
       /\ lease[s].state = "active" /\ lease'[s].state = "active"
       /\ now' < lease'[s].until /\ lease'[s].until < lease[s].until

\* A step that leaves claim and lease alone cannot uncover a claim, even if time passes.
LEMMA UntouchedCover ==
  ASSUME TypeOK, NEW s \in Requests, claim'[s] = claim[s], lease'[s] = lease[s],
         now' \in Nat, now <= now'
  PROVE  KeepsCover(s)
BY DEF TypeOK, KeepsCover, Covered

\* A call without a claim is covered.
LEMMA UnclaimedCover ==
  ASSUME NEW s \in Requests, claim'[s] = NoClaim
  PROVE  KeepsCover(s)
BY DEF KeepsCover, Covered, NoClaim

\* Every step keeps every call covered, or is a heartbeat that shortens its lease.
LEMMA EveryStepKeepsCover ==
  ASSUME Inv, NEW s \in Requests, [Next]_vars
  PROVE  KeepsCover(s)
<1> TypeOK /\ CallOK(s)
  BY DEF Inv
<1>0. lease[s].state # "active" => claim[s] = NoClaim
  BY DEF CallOK, Owned
<1>1. ASSUME NEW r \in Requests,
             Enqueue(r) \/ RequestVideoCancel(r) \/ RequestUpstreamCancel(r)
      PROVE  KeepsCover(s)
  <2>1. claim' = claim /\ lease' = lease /\ now' = now
    BY <1>1 DEF Enqueue, RequestVideoCancel, RequestUpstreamCancel
  <2> QED
    BY <2>1, UntouchedCover DEF TypeOK
<1>2. ASSUME NEW r \in Requests, Preflight(r) PROVE KeepsCover(s)
  <2>1. CASE r = s
    <3>1. claim[s] = NoClaim
      BY <1>2, <2>1 DEF CallOK, Stage, Owned, Preflight
    <3> QED
      BY <1>2, <3>1, UnclaimedCover DEF Preflight
  <2>2. CASE r # s
    BY <1>2, <2>2, UntouchedCover DEF Preflight, TypeOK
  <2> QED
    BY <2>1, <2>2
<1>3. ASSUME NEW r \in Requests, MarkRunning(r) PROVE KeepsCover(s)
  <2>1. CASE lease'[s] = lease[s]
    BY <1>3, <2>1, UntouchedCover DEF MarkRunning, TypeOK
  <2>2. CASE lease'[s] # lease[s]
    <3>1. lease[s].state = "held"
      BY <1>3, <2>2 DEF MarkRunning, TypeOK
    <3> QED
      BY <1>0, <1>3, <3>1, UnclaimedCover DEF MarkRunning
  <2> QED
    BY <2>1, <2>2
<1>4. ASSUME NEW r \in Requests, HeartbeatLease(r) PROVE KeepsCover(s)
  <2> PICK ttl \in LeaseTtls :
         lease' = [lease EXCEPT ![r].state = "active", ![r].until = now + ttl]
    BY <1>4 DEF HeartbeatLease
  <2>1. claim' = claim /\ now' = now /\ now + ttl \in Nat /\ now < now + ttl
    BY <1>4, TimesAssumption DEF HeartbeatLease, TypeOK
  <2>2. CASE r = s /\ lease[s].state = "active"
    <3>1. lease'[s].state = "active" /\ lease'[s].until = now + ttl
      BY <2>2 DEF TypeOK
    <3> QED
      BY <2>1, <2>2, <3>1 DEF KeepsCover, Covered, TypeOK
  <2>3. CASE r = s /\ lease[s].state # "active"
    BY <1>0, <2>1, <2>3, UnclaimedCover
  <2>4. CASE r # s
    BY <2>1, <2>4, UntouchedCover DEF TypeOK
  <2> QED
    BY <2>2, <2>3, <2>4
<1>5. ASSUME NEW r \in Requests, NEW w \in Workers, HeartbeatJob(w, r) PROVE KeepsCover(s)
  <2> PICK ttl \in JobTtls : /\ claim' = [claim EXCEPT ![r].until = now + ttl]
                             /\ lease' = [lease EXCEPT ![r].until = now + ttl]
    BY <1>5 DEF HeartbeatJob
  <2>1. now' = now /\ now + ttl \in Nat
    BY <1>5, TimesAssumption DEF HeartbeatJob, TypeOK
  <2>2. CASE r = s
    <3>1. /\ lease'[s].state = "active"
          /\ lease'[s].until = now + ttl /\ claim'[s].until = now + ttl
      BY <1>5, <2>2 DEF HeartbeatJob, TypeOK
    <3> QED
      BY <2>1, <3>1 DEF KeepsCover, Covered
  <2>3. CASE r # s
    BY <2>1, <2>3, UntouchedCover DEF TypeOK
  <2> QED
    BY <2>2, <2>3
<1>6. ASSUME NEW r \in Requests, NEW w \in Workers, NEW l \in LeaseRow,
             l.state = "active", StartJob(w, r, l)
      PROVE  KeepsCover(s)
  <2>1. CASE r = s
    <3>1. lease'[s] = l /\ claim'[s].until = l.until
      BY <1>6, <2>1 DEF StartJob, TypeOK
    <3> QED
      BY <1>6, <3>1 DEF KeepsCover, Covered, LeaseRow
  <2>2. CASE r # s
    BY <1>6, <2>2, UntouchedCover DEF StartJob, TypeOK
  <2> QED
    BY <2>1, <2>2
<1>7. ASSUME NEW r \in Requests, NEW w \in Workers, ClaimJob(w, r) PROVE KeepsCover(s)
  <2>1. CASE \E a \in Candidates(r), ttl \in GrantTtls :
               StartJob(w, r, NewLease(a, "active", ttl))
    BY <1>6, <2>1, CandidatesAreAccounts, NewLeaseType DEF Live
  <2>2. CASE StartJob(w, r, [lease[r] EXCEPT !.state = "active"])
    <3> DEFINE l == [lease[r] EXCEPT !.state = "active"]
    <3>1. l \in LeaseRow /\ l.state = "active"
      BY DEF TypeOK, LeaseRow, LeaseStates
    <3>2. StartJob(w, r, l)
      BY <2>2
    <3> HIDE DEF l
    <3> QED
      BY <1>6, <3>1, <3>2
  <2> QED
    BY <1>7, <2>1, <2>2 DEF ClaimJob
<1>8. ASSUME NEW R \in SUBSET Requests, NEW state, SyncJobs(R, state), now' = now,
             \A r \in Requests \ R : lease'[r] = lease[r]
      PROVE  KeepsCover(s)
  <2>1. CASE s \in R \cap Videos
    BY <1>8, <2>1, UnclaimedCover DEF SyncJobs
  <2>2. CASE s \in R \ Videos
    <3>1. claim[s] = NoClaim
      BY <2>2 DEF CallOK, Stage, Owned
    <3> QED
      BY <1>8, <2>2, <3>1, UnclaimedCover DEF SyncJobs
  <2>3. CASE s \notin R
    BY <1>8, <2>3, UntouchedCover DEF SyncJobs, TypeOK
  <2> QED
    BY <2>1, <2>2, <2>3
<1>9. ASSUME NEW r \in Requests, NEW o \in Outcomes, Settle(r, o) \/ Reconcile(r, o)
      PROVE  KeepsCover(s)
  <2>1. Close(r, o)
    BY <1>9 DEF Settle, Reconcile
  <2>2. /\ {r} \in SUBSET Requests /\ SyncJobs({r}, EndOf[o].job) /\ now' = now
        /\ \A q \in Requests \ {r} : lease'[q] = lease[q]
    BY <2>1 DEF Close, TypeOK
  <2> QED
    BY <1>8, <2>2
<1>10. CASE Recover
  BY <1>8, <1>10 DEF Recover, Expired
<1>11. CASE AccountsChange \/ Tick \/ (\E u \in Suspendable : SetUserStatus(u))
             \/ UNCHANGED vars
  <2>1. UNCHANGED rows /\ now' \in Nat /\ now <= now'
    BY <1>11 DEF AccountsChange, Tick, SetUserStatus, vars, rows, TypeOK
  <2> QED
    BY <2>1, UntouchedCover DEF rows
<1> QED
  BY <1>1, <1>2, <1>3, <1>4, <1>5, <1>7, <1>9, <1>10, <1>11, HeadOfQueue DEF Next, ClaimById

\* OnlyLeaseHeartbeatUncovers: for any lifetimes that callers ask for, claims are
\* covered when they are set, and stay so unless the owner shortens the lease.
THEOREM ClaimsUncoveredByOwner == Spec => OnlyLeaseHeartbeatUncovers
<1>1. Inv /\ [Next]_vars => \A r \in Requests : KeepsCover(r)
  BY EveryStepKeepsCover
<1> QED
  BY <1>1, CallsInStages, PTL DEF Spec, OnlyLeaseHeartbeatUncovers, KeepsCover

\* A claim lasts no longer than its lease, nor than any heartbeat of the lease
\* would make it last; nor does a lease that no heartbeat has made active.
Times(r) ==
  /\ claim[r].until <= lease[r].until
  /\ \A ttl \in LeaseTtls :
       /\ claim[r].until <= now + ttl
       /\ lease[r].state = "held" => lease[r].until <= now + ttl

\* Under LeaseHeartbeatsLast, every step keeps the times of every call.
LEMMA EveryStepKeepsTimes ==
  ASSUME LeaseHeartbeatsLast, Inv, \A r \in Requests : Times(r), NEW s \in Requests,
         [Next]_vars
  PROVE  Times(s)'
<1> TypeOK /\ CallOK(s) /\ Times(s)
  BY DEF Inv
<1>0. /\ claim[s].until \in Nat /\ lease[s].until \in Nat /\ now \in Nat
      /\ LeaseTtls \subseteq Nat
  BY TimesAssumption DEF TypeOK
<1>1. ASSUME claim'[s] = claim[s] \/ claim'[s] = NoClaim,
             lease'[s].until = lease[s].until,
             lease'[s].state = "held" => lease[s].state = "held",
             now' \in Nat, now <= now'
      PROVE  Times(s)'
  BY <1>0, <1>1 DEF Times, NoClaim
<1>2. ASSUME NEW r \in Requests, Preflight(r) PROVE Times(s)'
  <2> PICK a \in Candidates(r), ttl \in GrantTtls :
         lease' = [lease EXCEPT ![r] = NewLease(a, "held", ttl)]
    BY <1>2 DEF Preflight
  <2>1. CASE r = s
    <3>1. claim'[s] = NoClaim /\ now' = now
      BY <1>2, <2>1 DEF CallOK, Stage, Owned, Preflight
    <3>2. lease'[s].until = now + ttl /\ ttl \in Nat
      BY <2>1, TimesAssumption DEF TypeOK, NewLease
    <3>3. \A t \in LeaseTtls : ttl <= t
      BY DEF LeaseHeartbeatsLast
    <3> QED
      BY <1>0, <3>1, <3>2, <3>3 DEF Times, NoClaim
  <2>2. CASE r # s
    BY <1>0, <1>1, <1>2, <2>2 DEF Preflight
  <2> QED
    BY <2>1, <2>2
<1>3. ASSUME NEW r \in Requests, HeartbeatLease(r) PROVE Times(s)'
  <2> PICK ttl \in LeaseTtls :
         lease' = [lease EXCEPT ![r].state = "active", ![r].until = now + ttl]
    BY <1>3 DEF HeartbeatLease
  <2>1. claim' = claim /\ now' = now
    BY <1>3 DEF HeartbeatLease
  <2>2. CASE r = s
    <3>1. lease'[s].state = "active" /\ lease'[s].until = now + ttl
      BY <2>2 DEF TypeOK
    <3> QED
      BY <1>0, <2>1, <3>1 DEF Times
  <2>3. CASE r # s
    <3>1. lease'[s] = lease[s] /\ claim'[s] = claim[s]
      BY <2>1, <2>3 DEF TypeOK
    <3>2. now' \in Nat /\ now <= now'
      BY <1>0, <2>1
    <3> QED
      BY <1>1, <3>1, <3>2
  <2> QED
    BY <2>2, <2>3
<1>4. ASSUME NEW r \in Requests, NEW w \in Workers, HeartbeatJob(w, r) PROVE Times(s)'
  <2> PICK ttl \in JobTtls : /\ claim' = [claim EXCEPT ![r].until = now + ttl]
                             /\ lease' = [lease EXCEPT ![r].until = now + ttl]
    BY <1>4 DEF HeartbeatJob
  <2>1. now' = now
    BY <1>4 DEF HeartbeatJob
  <2>2. CASE r = s
    <3>1. /\ lease'[s].state = "active" /\ lease'[s].until = now + ttl
          /\ claim'[s].until = now + ttl /\ ttl \in Nat
      BY <1>4, <2>2, TimesAssumption DEF HeartbeatJob, TypeOK
    <3>2. \A t \in LeaseTtls : ttl <= t
      BY DEF LeaseHeartbeatsLast
    <3> QED
      BY <1>0, <2>1, <3>1, <3>2 DEF Times
  <2>3. CASE r # s
    <3>1. lease'[s] = lease[s] /\ claim'[s] = claim[s]
      BY <2>3 DEF TypeOK
    <3>2. now' \in Nat /\ now <= now'
      BY <1>0, <2>1
    <3> QED
      BY <1>1, <3>1, <3>2
  <2> QED
    BY <2>2, <2>3
<1>5. ASSUME NEW r \in Requests, NEW w \in Workers, NEW l \in LeaseRow, l.state = "active",
             \A t \in LeaseTtls : l.until <= now + t, StartJob(w, r, l)
      PROVE  Times(s)'
  <2>1. CASE r = s
    <3>1. lease'[s] = l /\ claim'[s].until = l.until /\ now' = now /\ l.until \in Nat
      BY <1>5, <2>1 DEF StartJob, TypeOK, LeaseRow
    <3> QED
      BY <1>5, <3>1 DEF Times
  <2>2. CASE r # s
    BY <1>0, <1>1, <1>5, <2>2 DEF StartJob
  <2> QED
    BY <2>1, <2>2
<1>6. ASSUME NEW r \in Requests, NEW w \in Workers, ClaimJob(w, r)
      PROVE  Times(s)'
  <2>1. ASSUME NEW a \in Candidates(r), NEW ttl \in GrantTtls,
               StartJob(w, r, NewLease(a, "active", ttl))
        PROVE  Times(s)'
    <3>1. /\ NewLease(a, "active", ttl) \in LeaseRow
          /\ NewLease(a, "active", ttl).state = "active"
          /\ NewLease(a, "active", ttl).until = now + ttl
      BY CandidatesAreAccounts, NewLeaseType DEF Live
    <3>2. \A t \in LeaseTtls : now + ttl <= now + t
      BY <1>0, TimesAssumption DEF LeaseHeartbeatsLast
    <3> QED
      BY <1>5, <2>1, <3>1, <3>2
  <2>2. CASE lease[r].state = "held" /\ StartJob(w, r, [lease[r] EXCEPT !.state = "active"])
    <3> DEFINE l == [lease[r] EXCEPT !.state = "active"]
    <3>1. l \in LeaseRow /\ l.state = "active" /\ \A t \in LeaseTtls : l.until <= now + t
      BY <1>6, <2>2 DEF TypeOK, LeaseRow, LeaseStates, Times
    <3>2. StartJob(w, r, l)
      BY <2>2
    <3> HIDE DEF l
    <3> QED
      BY <1>5, <3>1, <3>2
  <2> QED
    BY <1>6, <2>1, <2>2 DEF ClaimJob
<1>7. ASSUME NEW r \in Requests,
             Enqueue(r) \/ RequestVideoCancel(r) \/ RequestUpstreamCancel(r)
      PROVE  Times(s)'
  BY <1>0, <1>1, <1>7 DEF Enqueue, RequestVideoCancel, RequestUpstreamCancel
<1>8. ASSUME NEW r \in Requests, MarkRunning(r) PROVE Times(s)'
  <2>1. /\ lease'[s].until = lease[s].until
        /\ lease'[s].state = "held" => lease[s].state = "held"
    BY <1>8 DEF MarkRunning, TypeOK
  <2> QED
    BY <1>0, <1>1, <1>8, <2>1 DEF MarkRunning
<1>9. ASSUME NEW R \in SUBSET Requests, NEW state, SyncJobs(R, state), now' = now,
             lease'[s].until = lease[s].until,
             lease'[s].state = "held" => lease[s].state = "held"
      PROVE  Times(s)'
  <2>1. claim'[s] = claim[s] \/ claim'[s] = NoClaim
    BY <1>9 DEF SyncJobs
  <2> QED
    BY <1>0, <1>1, <1>9, <2>1
<1>10. ASSUME NEW r \in Requests, NEW o \in Outcomes, Settle(r, o) \/ Reconcile(r, o)
       PROVE  Times(s)'
  <2>1. Close(r, o) /\ {r} \in SUBSET Requests
    BY <1>10 DEF Settle, Reconcile
  <2>2. SyncJobs({r}, EndOf[o].job) /\ now' = now
    BY <2>1 DEF Close
  <2>3. EndOf[o].lease # "held"
    BY DEF Outcomes, EndOf, Rows
  <2>4. /\ lease'[s].until = lease[s].until
        /\ lease'[s].state = "held" => lease[s].state = "held"
    BY <2>1, <2>3 DEF Close, TypeOK
  <2> QED
    BY <1>9, <2>1, <2>2, <2>4
<1>11. CASE Recover
  <2>1. /\ lease'[s].until = lease[s].until
        /\ lease'[s].state = "held" => lease[s].state = "held"
    BY <1>11 DEF Recover, TypeOK
  <2>2. Expired \in SUBSET Requests /\ SyncJobs(Expired, "unknown") /\ now' = now
    BY <1>11 DEF Recover, Expired
  <2> QED
    BY <1>9, <2>1, <2>2
<1>12. CASE AccountsChange \/ Tick \/ (\E u \in Suspendable : SetUserStatus(u))
             \/ UNCHANGED vars
  <2>1. UNCHANGED rows /\ now' \in Nat /\ now <= now'
    BY <1>12 DEF AccountsChange, Tick, SetUserStatus, vars, rows, TypeOK
  <2> QED
    BY <1>1, <2>1 DEF rows
<1> QED
  BY <1>2, <1>3, <1>4, <1>6, <1>7, <1>8, <1>10, <1>11, <1>12, HeadOfQueue DEF Next, ClaimById

\* ClaimCovered, for callers whose lease heartbeats give at least what any grant or
\* job heartbeat gives: no sweep can take a job from a worker whose claim runs.
THEOREM ClaimAlwaysCovered ==
  ASSUME LeaseHeartbeatsLast
  PROVE  Spec => []ClaimCovered
<1> DEFINE AllTimes == \A r \in Requests : Times(r)
<1>1. Init => AllTimes
  BY TimesAssumption DEF Init, Times, NoLease, NoClaim
<1>2. AllTimes /\ Inv /\ [Next]_vars => AllTimes'
  BY EveryStepKeepsTimes
<1>3. AllTimes /\ Inv => ClaimCovered
  BY DEF Inv, CallOK, Owned, Times, ClaimCovered, Covered, NoClaim
<1> HIDE DEF AllTimes
<1> QED
  BY <1>1, <1>2, <1>3, CallsInStages, PTL DEF Spec

-----------------------------------------------------------------------------
(* Slots.                                                                  *)

\* Cardinality is defined for the slots of an account.
LEMMA SlotsFinite ==
  ASSUME NEW a \in Accounts
  PROVE  IsFiniteSet(SlotsTaken(a))
BY FS_Subset, AccountsAssumption DEF SlotsTaken

\* Every lease stays with its account, and none that gave its slot back retakes it.
KeepsLeases ==
  \A r \in Requests :
    /\ lease'[r].account = lease[r].account
    /\ lease'[r].state \in Live \cup {"unknown"} => lease[r].state \in Live \cup {"unknown"}

\* A step that keeps the leases takes no slot.
LEMMA KeptSlots ==
  ASSUME SlotsBounded, KeepsLeases, NEW a \in Accounts
  PROVE  Cardinality(SlotsTaken(a))' <= MaxConcurrency[a]
<1> DEFINE S == SlotsTaken(a)
           T == SlotsTaken(a)'
<1>1. T \subseteq S
  BY DEF SlotsTaken, TakesSlot, KeepsLeases
<1>2. IsFiniteSet(S) /\ Cardinality(S) <= MaxConcurrency[a]
  BY SlotsFinite DEF SlotsBounded
<1> HIDE DEF S, T
<1>3. Cardinality(T) <= Cardinality(S) /\ Cardinality(T) \in Nat /\ Cardinality(S) \in Nat
  BY <1>1, <1>2, FS_Subset, FS_CardinalityType
<1>4. Cardinality(T) <= MaxConcurrency[a]
  BY <1>2, <1>3, AccountsAssumption
<1> QED
  BY <1>4 DEF T

\* A new lease goes to an account with a free slot.
LEMMA GrantedSlot ==
  ASSUME TypeOK, SlotsBounded, NEW r \in Requests, NEW b \in Candidates(r), NEW state \in Live,
         NEW ttl \in GrantTtls, lease' = [lease EXCEPT ![r] = NewLease(b, state, ttl)],
         NEW a \in Accounts
  PROVE  Cardinality(SlotsTaken(a))' <= MaxConcurrency[a]
<1> DEFINE S == SlotsTaken(a)
           T == SlotsTaken(a)'
<1>1. /\ T \subseteq S \cup {r}
      /\ a # b => T \subseteq S
  BY DEF SlotsTaken, TakesSlot, TypeOK, NewLease
<1>2. IsFiniteSet(S) /\ Cardinality(S) <= MaxConcurrency[a]
  BY SlotsFinite DEF SlotsBounded
<1>3. a = b => Cardinality(S) < MaxConcurrency[a]
  BY DEF Candidates
<1> HIDE DEF S, T
<1>4. /\ IsFiniteSet(S \cup {r})
      /\ Cardinality(S) \in Nat
      /\ Cardinality(S \cup {r}) \in Nat
      /\ Cardinality(S \cup {r}) <= Cardinality(S) + 1
  <2>1. /\ IsFiniteSet(S \cup {r})
        /\ \/ Cardinality(S \cup {r}) = Cardinality(S)
           \/ Cardinality(S \cup {r}) = Cardinality(S) + 1
    BY <1>2, FS_AddElement
  <2>2. Cardinality(S) \in Nat
    BY <1>2, FS_CardinalityType
  <2> QED
    BY <2>1, <2>2
<1>5. /\ Cardinality(T) <= Cardinality(S \cup {r})
      /\ a # b => Cardinality(T) <= Cardinality(S)
      /\ Cardinality(T) \in Nat
  BY <1>1, <1>2, <1>4, FS_Subset, FS_CardinalityType
<1>6. Cardinality(T) <= MaxConcurrency[a]
  BY <1>2, <1>3, <1>4, <1>5, AccountsAssumption
<1> QED
  BY <1>6 DEF T

\* No step takes a slot that is not free.
LEMMA EveryStepKeepsSlots ==
  ASSUME Inv, SlotsBounded, [Next]_vars
  PROVE  SlotsBounded'
<1> TypeOK
  BY DEF Inv
<1> SUFFICES ASSUME NEW a \in Accounts
             PROVE  Cardinality(SlotsTaken(a))' <= MaxConcurrency[a]
  BY DEF SlotsBounded
<1> DEFINE Bounded == Cardinality(SlotsTaken(a))' <= MaxConcurrency[a]
<1> HIDE DEF Bounded
<1>0. KeepsLeases => Bounded
  BY KeptSlots DEF Bounded
<1>1. ASSUME NEW r \in Requests, Enqueue(r) \/ RequestVideoCancel(r) \/ RequestUpstreamCancel(r)
      PROVE  Bounded
  BY <1>0, <1>1 DEF Enqueue, RequestVideoCancel, RequestUpstreamCancel, KeepsLeases
<1>2. ASSUME NEW r \in Requests, Preflight(r) PROVE Bounded
  <2> PICK b \in Candidates(r), ttl \in GrantTtls :
         lease' = [lease EXCEPT ![r] = NewLease(b, "held", ttl)]
    BY <1>2 DEF Preflight
  <2> QED
    BY GrantedSlot DEF Live, Bounded
<1>3. ASSUME NEW r \in Requests, MarkRunning(r) PROVE Bounded
  <2>1. KeepsLeases
    BY <1>3 DEF MarkRunning, TypeOK, KeepsLeases, Live
  <2> QED
    BY <1>0, <2>1
<1>4. ASSUME NEW r \in Requests, HeartbeatLease(r) PROVE Bounded
  <2>1. KeepsLeases
    BY <1>4 DEF HeartbeatLease, TypeOK, KeepsLeases, Live
  <2> QED
    BY <1>0, <2>1
<1>5. ASSUME NEW r \in Requests, NEW w \in Workers, HeartbeatJob(w, r) PROVE Bounded
  <2>1. KeepsLeases
    BY <1>5 DEF HeartbeatJob, TypeOK, KeepsLeases, Live
  <2> QED
    BY <1>0, <2>1
<1>6. ASSUME NEW r \in Requests, NEW w \in Workers, ClaimJob(w, r) PROVE Bounded
  <2>1. CASE \E b \in Candidates(r), ttl \in GrantTtls :
               StartJob(w, r, NewLease(b, "active", ttl))
    <3> PICK b \in Candidates(r), ttl \in GrantTtls : StartJob(w, r, NewLease(b, "active", ttl))
      BY <2>1
    <3>1. lease' = [lease EXCEPT ![r] = NewLease(b, "active", ttl)]
      BY DEF StartJob
    <3> QED
      BY <3>1, GrantedSlot DEF Live, Bounded
  <2>2. CASE lease[r].state = "held" /\ StartJob(w, r, [lease[r] EXCEPT !.state = "active"])
    <3>1. KeepsLeases
      BY <2>2 DEF StartJob, TypeOK, KeepsLeases, Live
    <3> QED
      BY <1>0, <3>1
  <2> QED
    BY <1>6, <2>1, <2>2 DEF ClaimJob
<1>7. ASSUME NEW r \in Requests, NEW o \in Outcomes, Settle(r, o) \/ Reconcile(r, o)
      PROVE  Bounded
  <2>1. /\ lease[r].state \in Live \cup {"unknown"}
        /\ lease'[r].account = lease[r].account
        /\ \A s \in Requests \ {r} : lease'[s] = lease[s]
    BY <1>7 DEF Settle, Reconcile, Close, TypeOK
  <2>2. KeepsLeases
    BY <2>1 DEF KeepsLeases
  <2> QED
    BY <1>0, <2>2
<1>8. ASSUME Recover PROVE Bounded
  <2>1. ASSUME NEW s \in Requests
        PROVE  /\ lease'[s].account = lease[s].account
               /\ s \in Expired \/ lease'[s] = lease[s]
    BY <1>8 DEF Recover, TypeOK
  <2>2. KeepsLeases
    BY <2>1 DEF KeepsLeases, Expired
  <2> QED
    BY <1>0, <2>2
<1>9. ASSUME \/ UNCHANGED vars \/ AccountsChange \/ Tick
             \/ \E u \in Suspendable : SetUserStatus(u)
      PROVE  Bounded
  <2>1. KeepsLeases
    BY <1>9 DEF AccountsChange, Tick, SetUserStatus, vars, rows, KeepsLeases
  <2> QED
    BY <1>0, <2>1
<1>10. Bounded
  BY <1>1, <1>2, <1>3, <1>4, <1>5, <1>6, <1>7, <1>8, <1>9, HeadOfQueue DEF Next, ClaimById
<1> QED
  BY <1>10 DEF Bounded

\* SlotsBounded: no account is ever given more calls than it has slots, with any
\* number of calls, workers and accounts.
THEOREM SlotsAlwaysBounded == Spec => []SlotsBounded
<1>1. Init => SlotsBounded
  <2> SUFFICES ASSUME Init, NEW a \in Accounts
               PROVE  Cardinality(SlotsTaken(a)) <= MaxConcurrency[a]
    BY DEF SlotsBounded
  <2>1. SlotsTaken(a) = {}
    BY DEF Init, SlotsTaken, TakesSlot, NoLease, Live
  <2> QED
    BY <2>1, FS_EmptySet, AccountsAssumption
<1>2. Inv /\ SlotsBounded /\ [Next]_vars => SlotsBounded'
  BY EveryStepKeepsSlots
<1> QED
  BY <1>1, <1>2, CallsInStages, PTL DEF Spec
=============================================================================
