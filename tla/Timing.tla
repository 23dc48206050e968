------------------------------- MODULE Timing -------------------------------
(***************************************************************************)
(* The times of an escalation, in seconds: the lease that the              *)
(* configuration admits, the timeout of a request, the delays between      *)
(* attempts and the poll interval, for one row of an incident that stays   *)
(* open and several workers.                                               *)
(*                                                                         *)
(* Leases and due times are compared with the database's clock; the due    *)
(* time of a retry is computed with the clock of the worker, which may     *)
(* differ.  now is the database's clock, the time that passes.             *)
(*                                                                         *)
(* A lease counts from the start of the statement that claims the row, and *)
(* the request is sent only after the answer to it.  Store calls of the    *)
(* scheduler have no deadline, and a claim may wait for locks: StoreTime,  *)
(* the time that they take at most, may be longer than the lease.          *)
(***************************************************************************)
EXTENDS Integers

CONSTANTS
    Workers,
    Leases,         \* values of WORKER_LEASE to be tried
    NotifyTimeout,  \* of a request: 5, below the 7 of process
    MaxAttempts,    \* of the row: max_attempts
    Poll,           \* a worker polls again within this time, also after a crash
    StoreTime,      \* a store call takes at most this time
    MaxJitter,      \* rounded up to seconds
    MaxSkew         \* of a worker's clock, either way

ASSUME TimingConstants ==
    /\ Workers # {}
    /\ {NotifyTimeout, MaxAttempts, Poll} \subseteq Nat \ {0}
    /\ {StoreTime, MaxJitter, MaxSkew} \subseteq Nat
    /\ Leases \subseteq Nat \ {0}

VARIABLES
    now,
    lease,   \* WORKER_LEASE
    skew,    \* per worker, what its clock is ahead
    row,     \* the row of incident_escalations
    worker,  \* per worker, what it does and by when it will have done it
    failed   \* history: the last attempt recorded as failed, and when it ended

vars == <<now, lease, skew, row, worker, failed>>

\* Faulty variant of Admits: Load does not look at the lease.
AdmitsAny(duration) == TRUE

MinLease == 10

\* Load refuses a shorter lease.
Admits(duration) == duration >= MinLease

Idle(by) == [phase |-> "idle", by |-> by, token |-> 0, claimed |-> 0, ended |-> 0]

Init ==
    /\ now = 0
    /\ lease \in {duration \in Leases : Admits(duration)}
    /\ skew \in [Workers -> -MaxSkew .. MaxSkew]
    /\ row = [status |-> "pending", due |-> 0, leaseUntil |-> 0, attempts |-> 0, token |-> 0]
    /\ worker \in [Workers -> {Idle(by) : by \in 0 .. Poll}]
    /\ failed = [attempt |-> 0, at |-> 0]

Settled == row.status \in {"sent", "dead"}

\* Time passes, as long as nobody is late.
Tick ==
    /\ ~Settled
    /\ \A w \in Workers : now < worker[w].by
    /\ now' = now + 1
    /\ UNCHANGED <<lease, skew, row, worker, failed>>

-----------------------------------------------------------------------------
LeaseIsOver == row.status = "running" /\ row.leaseUntil < now

Claimable ==
    /\ row.attempts < MaxAttempts
    /\ (row.status = "pending" /\ row.due <= now) \/ LeaseIsOver

\* Faulty variant of Exhausted: a row is not buried.
NeverExhausted == FALSE

Exhausted == row.attempts >= MaxAttempts /\ LeaseIsOver

Rest(w) == worker' = [worker EXCEPT ![w] = Idle(now + Poll)]

\* ClaimEscalations gives the row to the worker, who has the answer within
\* StoreTime.  The row is locked while the statement waits; here its lease may run
\* out, and others take it over, even then.
Claim(w) ==
    /\ worker[w].phase = "idle"
    /\ Claimable
    /\ row' = [row EXCEPT !.status = "running", !.leaseUntil = now + lease,
                          !.attempts = @ + 1, !.token = @ + 1]
    /\ worker' = [worker EXCEPT ![w] = [phase |-> "claiming", token |-> row.token + 1,
                                        claimed |-> now, ended |-> 0, by |-> now + StoreTime]]
    /\ UNCHANGED <<now, lease, skew, failed>>

\* The answer is there, and process calls Notify.
NotifyBegins(w) ==
    /\ worker[w].phase = "claiming"
    /\ worker' = [worker EXCEPT ![w].phase = "sending", ![w].by = now + NotifyTimeout]
    /\ UNCHANGED <<now, lease, skew, row, failed>>

Bury(w) ==
    /\ worker[w].phase = "idle"
    /\ Exhausted
    /\ row' = [row EXCEPT !.status = "dead"]
    /\ Rest(w)
    /\ UNCHANGED <<now, lease, skew, failed>>

\* A poll that finds nothing.
PollInVain(w) ==
    /\ worker[w].phase = "idle"
    /\ ~Claimable /\ ~Exhausted
    /\ worker[w].by = now
    /\ Rest(w)
    /\ UNCHANGED <<now, lease, skew, row, failed>>

\* Notify returns, and the worker reads its clock.
NotifyEnds(w, phase) ==
    /\ worker[w].phase = "sending"
    /\ worker' = [worker EXCEPT ![w].phase = phase, ![w].claimed = 0, ![w].ended = now,
                                    ![w].by = now + StoreTime]
    /\ UNCHANGED <<now, lease, skew, row, failed>>

IsHolder(w) == row.status = "running" /\ row.token = worker[w].token

CompleteEscalation(w) ==
    /\ worker[w].phase = "notified"
    /\ row' = IF IsHolder(w) THEN [row EXCEPT !.status = "sent"] ELSE row
    /\ Rest(w)
    /\ UNCHANGED <<now, lease, skew, failed>>

\* Faulty variant of RetryBase: no backoff.
ConstantBase(attempt) == 1

\* 2 to the power of attempt - 1, of at least 0 and at most 6.
RetryBase(attempt) ==
    2 ^ (IF attempt < 1 THEN 0 ELSE IF attempt > 7 THEN 6 ELSE attempt - 1)

\* retryDelay and FailEscalation.
FailEscalation(w, jitter) ==
    /\ worker[w].phase = "refused"
    /\ IF IsHolder(w)
       THEN /\ row' = [row EXCEPT
                         !.status = IF row.attempts >= MaxAttempts THEN "dead" ELSE "pending",
                         !.due = worker[w].ended + skew[w] + RetryBase(row.attempts) + jitter]
            /\ failed' = [attempt |-> row.attempts, at |-> worker[w].ended]
       ELSE UNCHANGED <<row, failed>>
    /\ Rest(w)
    /\ UNCHANGED <<now, lease, skew>>

\* The result is not stored, or the process ends and is started again.
StoreErrorOrCrash(w) ==
    /\ worker[w].phase # "idle"
    /\ Rest(w)
    /\ UNCHANGED <<now, lease, skew, row, failed>>

Next ==
    \/ Tick
    \/ \E w \in Workers :
          \/ Claim(w)
          \/ NotifyBegins(w)
          \/ Bury(w)
          \/ PollInVain(w)
          \/ NotifyEnds(w, "notified")
          \/ NotifyEnds(w, "refused")
          \/ CompleteEscalation(w)
          \/ \E jitter \in 0 .. MaxJitter : FailEscalation(w, jitter)
          \/ StoreErrorOrCrash(w)

Spec == Init /\ [][Next]_vars

-----------------------------------------------------------------------------
(***************************************************************************)
(* Properties.                                                             *)
(***************************************************************************)

\* Every variable has its type, attempts stay within the budget, nobody is late.
TypeOK ==
    /\ now \in Nat
    /\ lease \in Leases
    /\ row.status \in {"pending", "running", "sent", "dead"}
    /\ row.attempts \in 0 .. MaxAttempts
    /\ \A w \in Workers :
          /\ worker[w].phase \in {"idle", "claiming", "sending", "notified", "refused"}
          /\ now <= worker[w].by

\* How long the answer to the claim of a worker that sends took.
AnswerTook(w) == worker[w].by - NotifyTimeout - worker[w].claimed

\* With any lease that Load admits, a request is over before the row is sent again
\* by the worker that takes it over, unless the answer to its claim took longer
\* than the seconds that the lease leaves beside the request.  Only a slow database,
\* or a lock that ClaimEscalations waits for, makes two workers send at a time.
OneSenderAtATime ==
    \A v, w \in Workers :
        /\ worker[v].phase = "sending" /\ worker[w].phase = "sending"
        /\ worker[v].token < worker[w].token
        => AnswerTook(v) > MinLease - NotifyTimeout

\* Backoff: after the n-th attempt failed the target is left alone for 2^(n-1)
\* seconds, 64 at most, less what the worker's clock is slow.
BackoffIsKept ==
    row.status = "running" /\ failed.attempt > 0 /\ failed.attempt + 1 = row.attempts =>
        row.leaseUntil - lease >=
            failed.at - MaxSkew + (IF failed.attempt > 6 THEN 64 ELSE 2 ^ (failed.attempt - 1))

\* An attempt, from the time the row is claimable, has its end in the row after
\* this time: the lease runs out, or the failure is stored and the delay over.
CycleTime(n) ==
    LET failure == 2 * StoreTime + NotifyTimeout + RetryBase(n) + MaxJitter + MaxSkew
    IN  Poll + (IF lease + 1 > failure THEN lease + 1 ELSE failure)

TimeFor[n \in Nat] == IF n = 0 THEN Poll ELSE TimeFor[n - 1] + CycleTime(n)

\* The whole life of an escalation is bounded, whatever the target does and
\* however often workers crash: by then it is sent, or dead for operators to see.
SettledInTime ==
    /\ TypeOK
    /\ ~Settled => now <= TimeFor[MaxAttempts]
=============================================================================
