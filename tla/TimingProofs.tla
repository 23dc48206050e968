---------------------------- MODULE TimingProofs ----------------------------
(***************************************************************************)
(* Proofs about Timing, for any number of workers, any lease that Load     *)
(* admits, and any attempts, delays, store times and differences between   *)
(* clocks.                                                                 *)
(*                                                                         *)
(* The argument: the lease of a claim counts from its start.  A worker     *)
(* whose token is no longer the row's has seen its lease run out, so that  *)
(* a request that still goes on then began late, and only the worker with  *)
(* the row's token can store a result.  The due time of a failed attempt   *)
(* keeps the row from being claimed, which is all that a backoff is.       *)
(*                                                                         *)
(* And proofs about Listing, the pages whose cursor is a time.             *)
(***************************************************************************)
EXTENDS Timing, Listing, FiniteSetTheorems, NaturalsInduction, WellFoundedInduction, TLAPS

(***************************************************************************)
(* The inductive invariant.                                                *)
(***************************************************************************)

Rows == [status : {"pending", "running", "sent", "dead"}, due : Int, leaseUntil : Int,
         attempts : Nat, token : Nat]

WorkerStates == [phase : {"idle", "claiming", "sending", "notified", "refused"}, by : Int,
                 token : Nat, claimed : Int, ended : Int]

Types ==
    /\ now \in Nat
    /\ lease \in Leases /\ lease \in Nat /\ lease >= MinLease
    /\ skew \in [Workers -> -MaxSkew .. MaxSkew]
    /\ row \in Rows
    /\ worker \in [Workers -> WorkerStates]
    /\ failed \in [attempt : Nat, at : Int]

\* Attempts stay within the budget, and nobody is late.
BudgetInv ==
    /\ row.attempts <= MaxAttempts
    /\ \A w \in Workers : now <= worker[w].by

Busy(w) == worker[w].phase # "idle"

\* A claim has a token of its own, and the last one is the row's.
TokenInv ==
    /\ \A w \in Workers : worker[w].token <= row.token
    /\ \A v, w \in Workers : Busy(v) /\ Busy(w) /\ worker[v].token = worker[w].token => v = w

\* A worker whose request is still to begin, or to end.
Sends(w) == worker[w].phase \in {"claiming", "sending"}

\* The lease of the row's token counts from the claim, and the lease of any other
\* worker has run out.
LeaseInv ==
    \A w \in Workers : Sends(w) =>
        /\ worker[w].token = row.token =>
              /\ row.status # "pending"
              /\ row.status = "running" => row.leaseUntil = worker[w].claimed + lease
        /\ worker[w].token < row.token => now > worker[w].claimed + lease

\* What the n-th attempt, as it fails, has to be followed by.
Delay(n) == IF n > 6 THEN 64 ELSE 2 ^ (n - 1)

\* The last attempt that failed, and what its failure means for the next.
FailedInv ==
    /\ failed.attempt <= row.attempts
    /\ row.status = "running" => failed.attempt < row.attempts
    /\ row.status = "pending" /\ failed.attempt > 0 /\ failed.attempt = row.attempts =>
          row.due >= failed.at - MaxSkew + Delay(failed.attempt)
    /\ row.status = "running" /\ failed.attempt > 0 /\ failed.attempt + 1 = row.attempts =>
          row.leaseUntil - lease >= failed.at - MaxSkew + Delay(failed.attempt)

IInv ==
    /\ Types
    /\ BudgetInv
    /\ TokenInv
    /\ LeaseInv
    /\ FailedInv

-----------------------------------------------------------------------------
(***************************************************************************)
(* Facts.                                                                  *)
(***************************************************************************)

\* The constants are natural numbers.
LEMMA ConstantFacts ==
    /\ NotifyTimeout \in Nat /\ MaxAttempts \in Nat /\ MaxAttempts > 0 /\ Poll \in Nat
    /\ StoreTime \in Nat /\ MaxJitter \in Nat /\ MaxSkew \in Nat
BY TimingConstants

\* The parts of the state.
LEMMA StateFacts ==
    ASSUME IInv
    PROVE  /\ now \in Nat /\ lease \in Nat /\ lease >= MinLease
           /\ row.status \in {"pending", "running", "sent", "dead"}
           /\ row.due \in Int /\ row.leaseUntil \in Int /\ row.attempts \in Nat /\ row.token \in Nat
           /\ failed.attempt \in Nat /\ failed.at \in Int
           /\ \A w \in Workers : /\ worker[w] \in WorkerStates
                                 /\ worker[w].phase \in {"idle", "claiming", "sending", "notified", "refused"}
                                 /\ worker[w].by \in Int /\ worker[w].token \in Nat
                                 /\ worker[w].claimed \in Int /\ worker[w].ended \in Int
                                 /\ skew[w] \in Int /\ skew[w] >= -MaxSkew
<1>1. /\ now \in Nat /\ lease \in Nat /\ lease >= MinLease /\ row \in Rows
      /\ failed \in [attempt : Nat, at : Int]
      /\ \A w \in Workers : worker[w] \in WorkerStates /\ skew[w] \in -MaxSkew .. MaxSkew
  BY DEF IInv, Types
<1>2. /\ row.status \in {"pending", "running", "sent", "dead"}
      /\ row.due \in Int /\ row.leaseUntil \in Int /\ row.attempts \in Nat /\ row.token \in Nat
  BY <1>1 DEF Rows
<1>3. failed.attempt \in Nat /\ failed.at \in Int
  BY <1>1
<1>4. \A w \in Workers : /\ worker[w].phase \in {"idle", "claiming", "sending", "notified", "refused"}
                         /\ worker[w].by \in Int /\ worker[w].token \in Nat
                         /\ worker[w].claimed \in Int /\ worker[w].ended \in Int
  BY <1>1 DEF WorkerStates
<1>5. \A w \in Workers : skew[w] \in Int /\ skew[w] >= -MaxSkew
  <2>1. SUFFICES ASSUME NEW w \in Workers PROVE skew[w] \in Int /\ skew[w] >= -MaxSkew
    OBVIOUS
  <2>2. skew[w] \in -MaxSkew .. MaxSkew /\ MaxSkew \in Nat
    BY <1>1, ConstantFacts
  <2> QED  BY <2>2
<1> QED  BY <1>1, <1>2, <1>3, <1>4, <1>5

\* retryDelay doubles from one second to 64.
LEMMA RetryBaseIs ==
    ASSUME NEW n \in Nat, n > 0
    PROVE  RetryBase(n) = Delay(n) /\ Delay(n) \in Nat
<1>1. 2 ^ 0 = 1 /\ 2 ^ 1 = 2 /\ 2 ^ 2 = 4 /\ 2 ^ 3 = 8 /\ 2 ^ 4 = 16 /\ 2 ^ 5 = 32 /\ 2 ^ 6 = 64
  OBVIOUS
<1>2. CASE n > 6
  <2>1. (IF n < 1 THEN 0 ELSE IF n > 7 THEN 6 ELSE n - 1) = 6
    BY <1>2
  <2> QED  BY <1>1, <1>2, <2>1 DEF RetryBase, Delay
<1>3. CASE n <= 6
  <2>1. (IF n < 1 THEN 0 ELSE IF n > 7 THEN 6 ELSE n - 1) = n - 1 /\ ~(n > 6)
    BY <1>3
  <2>2. n - 1 \in {0, 1, 2, 3, 4, 5}
    BY <1>3
  <2>3. 2 ^ (n - 1) \in {1, 2, 4, 8, 16, 32}
    BY <1>1, <2>2
  <2> QED  BY <2>1, <2>3 DEF RetryBase, Delay
<1> QED  BY <1>2, <1>3

\* One worker changes.
LEMMA WorkerUpdate ==
    ASSUME IInv, NEW w \in Workers, NEW s \in WorkerStates, worker' = [worker EXCEPT ![w] = s]
    PROVE  /\ worker' \in [Workers -> WorkerStates]
           /\ worker'[w] = s
           /\ \A v \in Workers : v # w => worker'[v] = worker[v]
BY DEF IInv, Types

\* A worker that is idle until its next poll.
LEMMA RestIs ==
    ASSUME IInv, NEW w \in Workers, Rest(w)
    PROVE  /\ worker' \in [Workers -> WorkerStates]
           /\ worker'[w].phase = "idle" /\ worker'[w].token = 0 /\ worker'[w].by >= now
           /\ \A v \in Workers : v # w => worker'[v] = worker[v]
<1>1. now \in Nat /\ Poll \in Nat
  BY StateFacts, ConstantFacts
<1>2. PICK s : s = Idle(now + Poll)
  OBVIOUS
<1>3. /\ s \in WorkerStates
      /\ s.phase = "idle" /\ s.token = 0 /\ s.by = now + Poll
  BY <1>1, <1>2 DEF Idle, WorkerStates
<1>4. worker' = [worker EXCEPT ![w] = s]
  BY <1>2 DEF Rest
<1>5. /\ worker' \in [Workers -> WorkerStates] /\ worker'[w] = s
      /\ \A v \in Workers : v # w => worker'[v] = worker[v]
  BY <1>3, <1>4, WorkerUpdate
<1>6. s.by >= now
  BY <1>1, <1>3
<1> QED  BY <1>3, <1>5, <1>6

\* Initially the row is pending and everybody idle.
LEMMA InitKeeps == Init => IInv
<1> SUFFICES ASSUME Init PROVE IInv
  OBVIOUS
<1>1. /\ now = 0 /\ lease \in Leases /\ Admits(lease)
      /\ skew \in [Workers -> -MaxSkew .. MaxSkew]
      /\ row = [status |-> "pending", due |-> 0, leaseUntil |-> 0, attempts |-> 0, token |-> 0]
      /\ worker \in [Workers -> {Idle(by) : by \in 0 .. Poll}]
      /\ failed = [attempt |-> 0, at |-> 0]
  BY DEF Init
<1>2. \A by \in 0 .. Poll : /\ Idle(by) \in WorkerStates /\ Idle(by).phase = "idle"
                            /\ Idle(by).token = 0 /\ Idle(by).by >= 0
  BY ConstantFacts DEF Idle, WorkerStates
<1>3. worker \in [Workers -> WorkerStates]
  BY <1>1, <1>2
<1>4. \A w \in Workers : worker[w].phase = "idle" /\ worker[w].token = 0 /\ worker[w].by >= 0
                         /\ worker[w].by \in Int
  BY <1>1, <1>2, <1>3 DEF WorkerStates
<1>5. Types
  <2>1. lease \in Nat /\ lease >= MinLease
    BY <1>1, TimingConstants DEF Admits, MinLease
  <2>2. row \in Rows
    BY <1>1 DEF Rows
  <2> QED  BY <1>1, <1>3, <2>1, <2>2 DEF Types
<1>6. BudgetInv
  BY <1>1, <1>4, ConstantFacts DEF BudgetInv
<1>7. TokenInv /\ LeaseInv
  BY <1>1, <1>4 DEF TokenInv, LeaseInv, Busy, Sends
<1>8. FailedInv
  BY <1>1 DEF FailedInv
<1> QED  BY <1>5, <1>6, <1>7, <1>8 DEF IInv

-----------------------------------------------------------------------------
(***************************************************************************)
(* The steps.                                                              *)
(***************************************************************************)

\* Time passes only as long as nobody is late.
LEMMA TickKeeps ==
    ASSUME IInv, Tick
    PROVE  IInv'
<1>1. /\ \A w \in Workers : now < worker[w].by
      /\ now' = now + 1
      /\ UNCHANGED <<lease, skew, row, worker, failed>>
  BY DEF Tick
<1>2. now \in Nat /\ lease \in Nat
      /\ \A w \in Workers : worker[w].by \in Int /\ worker[w].claimed \in Int
  BY StateFacts
<1>3. Types' /\ BudgetInv'
  BY <1>1, <1>2 DEF IInv, Types, BudgetInv
<1>4. TokenInv' /\ FailedInv'
  BY <1>1 DEF IInv, TokenInv, FailedInv, Busy
<1>5. LeaseInv'
  <2>1. \A w \in Workers : now > worker[w].claimed + lease => now' > worker[w].claimed + lease
    BY <1>1, <1>2
  <2> QED  BY <1>1, <2>1 DEF IInv, LeaseInv, Sends
<1> QED  BY <1>3, <1>4, <1>5 DEF IInv

\* A worker that goes to rest while the row and the history stay.
LEMMA RestKeeps ==
    ASSUME IInv, NEW w \in Workers, Rest(w), UNCHANGED <<now, lease, skew, row, failed>>
    PROVE  IInv'
<1>1. /\ worker' \in [Workers -> WorkerStates]
      /\ worker'[w].phase = "idle" /\ worker'[w].token = 0 /\ worker'[w].by >= now
      /\ \A v \in Workers : v # w => worker'[v] = worker[v]
  BY RestIs
<1>2. now \in Nat /\ row.token \in Nat /\ worker'[w].by \in Int
  BY <1>1, StateFacts DEF WorkerStates
<1>3. Types'
  BY <1>1 DEF IInv, Types
<1>4. BudgetInv'
  BY <1>1, <1>2 DEF IInv, BudgetInv
<1>5. TokenInv'
  BY <1>1, <1>2 DEF IInv, TokenInv, Busy
<1>6. LeaseInv'
  BY <1>1 DEF IInv, LeaseInv, Sends
<1>7. FailedInv'
  BY DEF IInv, FailedInv
<1> QED  BY <1>3, <1>4, <1>5, <1>6, <1>7 DEF IInv

\* A row that is no longer running, and that is pending only if nobody else has its
\* token: the worker rests.
LEMMA RowStep ==
    ASSUME IInv, NEW w \in Workers, Rest(w), NEW r \in Rows, row' = r,
           r.token = row.token, r.attempts = row.attempts, r.status # "running",
           r.status = "pending" =>
               \A v \in Workers : v # w => worker[v].token # row.token \/ ~Busy(v),
           NEW f \in [attempt : Nat, at : Int], failed' = f, f.attempt <= r.attempts,
           r.status = "pending" /\ f.attempt > 0 /\ f.attempt = r.attempts =>
               r.due >= f.at - MaxSkew + Delay(f.attempt),
           UNCHANGED <<now, lease, skew>>
    PROVE  IInv'
<1>1. /\ worker' \in [Workers -> WorkerStates]
      /\ worker'[w].phase = "idle" /\ worker'[w].token = 0 /\ worker'[w].by >= now
      /\ \A v \in Workers : v # w => worker'[v] = worker[v]
  BY RestIs
<1>2. now \in Nat /\ row.token \in Nat /\ worker'[w].by \in Int
  BY <1>1, StateFacts DEF WorkerStates
<1>3. Types'
  BY <1>1 DEF IInv, Types
<1>4. BudgetInv'
  BY <1>1, <1>2 DEF IInv, BudgetInv
<1>5. TokenInv'
  BY <1>1, <1>2 DEF IInv, TokenInv, Busy
<1>6. LeaseInv'
  BY <1>1 DEF IInv, LeaseInv, Sends, Busy
<1>7. FailedInv'
  BY DEF FailedInv
<1> QED  BY <1>3, <1>4, <1>5, <1>6, <1>7 DEF IInv

\* ClaimEscalations: the lease of the last token is over, the new token is the
\* greatest, and a pending row is due.
LEMMA ClaimKeeps ==
    ASSUME IInv, NEW w \in Workers, Claim(w)
    PROVE  IInv'
<1>1. /\ now \in Nat /\ lease \in Nat /\ lease >= MinLease
      /\ row \in Rows
      /\ row.due \in Int /\ row.leaseUntil \in Int /\ row.attempts \in Nat /\ row.token \in Nat
      /\ failed.attempt \in Nat /\ failed.at \in Int
      /\ StoreTime \in Nat
      /\ MaxAttempts \in Nat /\ MaxSkew \in Nat
  BY StateFacts, ConstantFacts DEF IInv, Types
<1>2. PICK r : r = [row EXCEPT !.status = "running", !.leaseUntil = now + lease,
                               !.attempts = row.attempts + 1, !.token = row.token + 1]
  OBVIOUS
<1>3. PICK s : s = [phase |-> "claiming", token |-> row.token + 1, claimed |-> now, ended |-> 0,
                    by |-> now + StoreTime]
  OBVIOUS
<1>4. /\ worker[w].phase = "idle" /\ Claimable
      /\ row' = r /\ worker' = [worker EXCEPT ![w] = s]
      /\ UNCHANGED <<now, lease, skew, failed>>
  BY <1>2, <1>3 DEF Claim
<1>5. /\ r \in Rows
      /\ r.status = "running" /\ r.leaseUntil = now + lease
      /\ r.attempts = row.attempts + 1 /\ r.token = row.token + 1
  <2>1. now + lease \in Int /\ row.attempts + 1 \in Nat /\ row.token + 1 \in Nat
    BY <1>1
  <2> QED  BY <1>1, <1>2, <2>1 DEF Rows
<1>6. /\ s \in WorkerStates
      /\ s.phase = "claiming" /\ s.token = row.token + 1 /\ s.by = now + StoreTime
      /\ s.claimed = now
  <2>1. now + StoreTime \in Int /\ now \in Int /\ row.token + 1 \in Nat
    BY <1>1
  <2> QED  BY <1>3, <2>1 DEF WorkerStates
<1>7. /\ worker' \in [Workers -> WorkerStates] /\ worker'[w] = s
      /\ \A v \in Workers : v # w => worker'[v] = worker[v]
  BY <1>4, <1>6, WorkerUpdate
<1>8. ASSUME NEW v \in Workers, Sends(v) PROVE now > worker[v].claimed + lease
  <2>1. worker[v].token \in Nat /\ worker[v].token <= row.token
    BY StateFacts DEF IInv, TokenInv
  <2>2. CASE worker[v].token = row.token
    <3>1. row.status = "running" /\ row.leaseUntil < now
      BY <1>4, <1>8, <2>2 DEF Claimable, LeaseIsOver, IInv, LeaseInv
    <3>2. row.leaseUntil = worker[v].claimed + lease
      BY <1>8, <2>2, <3>1 DEF IInv, LeaseInv
    <3> QED  BY <1>1, <3>1, <3>2
  <2>3. CASE worker[v].token # row.token
    <3>1. worker[v].token < row.token
      BY <1>1, <2>1, <2>3
    <3> QED  BY <1>8, <3>1 DEF IInv, LeaseInv
  <2> QED  BY <2>2, <2>3
<1>9. Types'
  BY <1>4, <1>5, <1>7 DEF IInv, Types
<1>10. BudgetInv'
  <2>1. row'.attempts <= MaxAttempts
    BY <1>1, <1>4, <1>5 DEF Claimable
  <2>2. now <= s.by
    BY <1>1, <1>6
  <2> QED  BY <1>4, <1>7, <2>1, <2>2 DEF IInv, BudgetInv
<1>11. TokenInv'
  <2>1. \A v \in Workers : worker[v].token \in Nat /\ worker[v].token <= row.token
    BY StateFacts DEF IInv, TokenInv
  <2>2. \A v \in Workers : worker'[v].token <= r.token
    BY <1>1, <1>5, <1>6, <1>7, <2>1
  <2>3. \A v \in Workers : v # w => worker'[v].token # s.token
    BY <1>1, <1>6, <1>7, <2>1
  <2>4. \A u, v \in Workers :
           Busy(u)' /\ Busy(v)' /\ worker'[u].token = worker'[v].token => u = v
    BY <1>7, <2>3 DEF IInv, TokenInv, Busy
  <2> QED  BY <1>4, <2>2, <2>4 DEF TokenInv
<1>12. LeaseInv'
  <2>1. r.leaseUntil = s.claimed + lease /\ ~(s.token < r.token)
    BY <1>1, <1>5, <1>6
  <2>2. ASSUME NEW v \in Workers, v # w PROVE worker[v].token # r.token
    <3>1. worker[v].token \in Nat /\ worker[v].token <= row.token
      BY StateFacts DEF IInv, TokenInv
    <3> QED  BY <1>1, <1>5, <3>1
  <2> QED  BY <1>4, <1>5, <1>6, <1>7, <1>8, <2>1, <2>2 DEF LeaseInv, Sends
<1>13. FailedInv'
  <2>1. failed.attempt <= row.attempts
    BY DEF IInv, FailedInv
  <2>2. failed.attempt < r.attempts /\ failed.attempt <= r.attempts
    BY <1>1, <1>5, <2>1
  <2>3. ASSUME failed.attempt > 0, failed.attempt + 1 = r.attempts
        PROVE  r.leaseUntil - lease >= failed.at - MaxSkew + Delay(failed.attempt)
    <3>1. failed.attempt = row.attempts
      BY <1>1, <1>5, <2>3
    <3>2. row.status # "running"
      BY <1>1, <3>1 DEF IInv, FailedInv
    <3>3. row.status = "pending" /\ row.due <= now
      BY <1>4, <3>2 DEF Claimable, LeaseIsOver
    <3>4. row.due >= failed.at - MaxSkew + Delay(failed.attempt)
      BY <2>3, <3>1, <3>3 DEF IInv, FailedInv
    <3>5. Delay(failed.attempt) \in Nat
      BY <1>1, <2>3, RetryBaseIs
    <3>6. r.leaseUntil - lease = now
      BY <1>1, <1>5
    <3> QED  BY <1>1, <3>3, <3>4, <3>5, <3>6
  <2> QED  BY <1>4, <1>5, <2>2, <2>3 DEF FailedInv
<1> QED  BY <1>9, <1>10, <1>11, <1>12, <1>13 DEF IInv

\* A row that has used its attempts up is buried once its lease is over.
LEMMA BuryKeeps ==
    ASSUME IInv, NEW w \in Workers, Bury(w)
    PROVE  IInv'
<1>1. PICK r : r = [row EXCEPT !.status = "dead"]
  OBVIOUS
<1>2. Exhausted /\ row' = r /\ Rest(w) /\ UNCHANGED <<now, lease, skew, failed>>
  BY <1>1 DEF Bury
<1>3. row \in Rows /\ failed \in [attempt : Nat, at : Int]
  BY DEF IInv, Types
<1>4. r \in Rows /\ r.status = "dead" /\ r.token = row.token /\ r.attempts = row.attempts
  BY <1>1, <1>3 DEF Rows
<1>5. r.status # "pending" /\ r.status # "running"
  BY <1>4
<1>6. failed.attempt <= r.attempts
  BY <1>4 DEF IInv, FailedInv
<1>7. PICK f \in [attempt : Nat, at : Int] : f = failed
  BY <1>3
<1> QED  BY <1>2, <1>4, <1>5, <1>6, <1>7, RowStep

\* The answer to the claim is there.
LEMMA NotifyBeginsKeeps ==
    ASSUME IInv, NEW w \in Workers, NotifyBegins(w)
    PROVE  IInv'
<1>1. PICK s : s = [worker[w] EXCEPT !.phase = "sending", !.by = now + NotifyTimeout]
  OBVIOUS
<1>2. /\ worker[w].phase = "claiming" /\ worker' = [worker EXCEPT ![w] = s]
      /\ UNCHANGED <<now, lease, skew, row, failed>>
  BY <1>1 DEF NotifyBegins
<1>3. now \in Nat /\ NotifyTimeout \in Nat /\ worker[w] \in WorkerStates
  BY StateFacts, ConstantFacts
<1>4. /\ s \in WorkerStates
      /\ s.phase = "sending" /\ s.token = worker[w].token /\ s.by = now + NotifyTimeout
      /\ s.claimed = worker[w].claimed
  <2>1. now + NotifyTimeout \in Int
    BY <1>3
  <2> QED  BY <1>1, <1>3, <2>1 DEF WorkerStates
<1>5. /\ worker' \in [Workers -> WorkerStates] /\ worker'[w] = s
      /\ \A v \in Workers : v # w => worker'[v] = worker[v]
  BY <1>2, <1>4, WorkerUpdate
<1>6. Types'
  BY <1>2, <1>5 DEF IInv, Types
<1>7. BudgetInv'
  <2>1. now <= s.by
    BY <1>3, <1>4
  <2> QED  BY <1>2, <1>5, <2>1 DEF IInv, BudgetInv
<1>8. \A v \in Workers : /\ worker'[v].token = worker[v].token
                         /\ worker'[v].claimed = worker[v].claimed
                         /\ (Busy(v)' <=> Busy(v)) /\ (Sends(v)' <=> Sends(v))
  BY <1>2, <1>4, <1>5 DEF Busy, Sends
<1>9. TokenInv' /\ LeaseInv'
  BY <1>2, <1>8 DEF IInv, TokenInv, LeaseInv
<1>10. FailedInv'
  BY <1>2 DEF IInv, FailedInv
<1> QED  BY <1>6, <1>7, <1>9, <1>10 DEF IInv

\* Notify returns.
LEMMA NotifyKeeps ==
    ASSUME IInv, NEW w \in Workers, NEW phase \in {"notified", "refused"}, NotifyEnds(w, phase)
    PROVE  IInv'
<1>1. PICK s : s = [worker[w] EXCEPT !.phase = phase, !.claimed = 0, !.ended = now,
                                     !.by = now + StoreTime]
  OBVIOUS
<1>2. /\ worker[w].phase = "sending" /\ worker' = [worker EXCEPT ![w] = s]
      /\ UNCHANGED <<now, lease, skew, row, failed>>
  BY <1>1 DEF NotifyEnds
<1>3. now \in Nat /\ StoreTime \in Nat /\ worker[w] \in WorkerStates
  BY StateFacts, ConstantFacts
<1>4. /\ s \in WorkerStates
      /\ s.phase = phase /\ s.token = worker[w].token /\ s.by = now + StoreTime
  <2>1. now \in Int /\ now + StoreTime \in Int /\ 0 \in Int
    BY <1>3
  <2>2. s = [phase |-> phase, by |-> now + StoreTime, token |-> worker[w].token,
             claimed |-> 0, ended |-> now]
    BY <1>1, <1>3 DEF WorkerStates
  <2>3. worker[w].token \in Nat
    BY StateFacts
  <2> QED  BY <2>1, <2>2, <2>3 DEF WorkerStates
<1>5. /\ worker' \in [Workers -> WorkerStates] /\ worker'[w] = s
      /\ \A v \in Workers : v # w => worker'[v] = worker[v]
  BY <1>2, <1>4, WorkerUpdate
<1>6. Types'
  BY <1>2, <1>5 DEF IInv, Types
<1>7. BudgetInv'
  <2>1. now <= s.by
    BY <1>3, <1>4
  <2> QED  BY <1>2, <1>5, <2>1 DEF IInv, BudgetInv
<1>8. TokenInv'
  <2>1. \A v \in Workers : worker'[v].token = worker[v].token /\ (Busy(v)' <=> Busy(v))
    BY <1>2, <1>4, <1>5 DEF Busy
  <2> QED  BY <1>2, <2>1 DEF IInv, TokenInv
<1>9. LeaseInv'
  BY <1>2, <1>4, <1>5 DEF IInv, LeaseInv, Sends
<1>10. FailedInv'
  BY <1>2 DEF IInv, FailedInv
<1> QED  BY <1>6, <1>7, <1>8, <1>9, <1>10 DEF IInv

\* The worker with the row's token is the only one that has it.
LEMMA HolderIsAlone ==
    ASSUME IInv, NEW w \in Workers, Busy(w), IsHolder(w)
    PROVE  \A v \in Workers : v # w => worker[v].token # row.token \/ ~Busy(v)
BY DEF IsHolder, IInv, TokenInv

\* CompleteEscalation.
LEMMA CompleteKeeps ==
    ASSUME IInv, NEW w \in Workers, CompleteEscalation(w)
    PROVE  IInv'
<1>1. /\ Busy(w) /\ Rest(w) /\ UNCHANGED <<now, lease, skew, failed>>
      /\ row' = IF IsHolder(w) THEN [row EXCEPT !.status = "sent"] ELSE row
  BY DEF CompleteEscalation, Busy
<1>2. CASE ~IsHolder(w)
  BY <1>1, <1>2, RestKeeps
<1>3. CASE IsHolder(w)
  <2>1. PICK r : r = [row EXCEPT !.status = "sent"]
    OBVIOUS
  <2>2. row \in Rows /\ failed \in [attempt : Nat, at : Int]
    BY DEF IInv, Types
  <2>3. r \in Rows /\ r.status = "sent" /\ r.token = row.token /\ r.attempts = row.attempts
    BY <2>1, <2>2 DEF Rows
  <2>4. failed.attempt <= r.attempts
    BY <2>3 DEF IInv, FailedInv
  <2>5. PICK f \in [attempt : Nat, at : Int] : f = failed
    BY <2>2
  <2>6. row' = r /\ r.status # "pending" /\ r.status # "running"
    BY <1>1, <1>3, <2>1, <2>3
  <2> QED  BY <1>1, <2>3, <2>4, <2>5, <2>6, RowStep
<1> QED  BY <1>2, <1>3

\* FailEscalation: the due time is the delay after the end of the attempt, but for
\* what the worker's clock is slow.
LEMMA FailKeeps ==
    ASSUME IInv, NEW w \in Workers, NEW jitter \in 0 .. MaxJitter, FailEscalation(w, jitter)
    PROVE  IInv'
<1>1. Busy(w) /\ Rest(w) /\ UNCHANGED <<now, lease, skew>>
  BY DEF FailEscalation, Busy
<1>2. CASE ~IsHolder(w)
  <2>1. UNCHANGED <<now, lease, skew, row, failed>>
    BY <1>2 DEF FailEscalation
  <2> QED  BY <1>1, <2>1, RestKeeps
<1>3. CASE IsHolder(w)
  <2>1. PICK outcome, due :
           /\ outcome = IF row.attempts >= MaxAttempts THEN "dead" ELSE "pending"
           /\ due = worker[w].ended + skew[w] + RetryBase(row.attempts) + jitter
    OBVIOUS
  <2>2. PICK r : r = [row EXCEPT !.status = outcome, !.due = due]
    OBVIOUS
  <2>3. PICK f : f = [attempt |-> row.attempts, at |-> worker[w].ended]
    OBVIOUS
  <2>4. row' = r /\ failed' = f
    BY <1>3, <2>1, <2>2, <2>3 DEF FailEscalation
  <2>5. /\ row \in Rows /\ row.attempts \in Nat /\ worker[w].ended \in Int
        /\ skew[w] \in Int /\ skew[w] >= -MaxSkew /\ MaxSkew \in Nat
        /\ jitter \in Int /\ jitter >= 0 /\ failed.attempt \in Nat
    BY StateFacts, ConstantFacts DEF IInv, Types
  <2>6. row.attempts > 0
    BY <1>3, <2>5 DEF IsHolder, IInv, FailedInv
  <2>7. RetryBase(row.attempts) = Delay(row.attempts) /\ Delay(row.attempts) \in Nat
    BY <2>5, <2>6, RetryBaseIs
  <2>8. due \in Int /\ due >= worker[w].ended - MaxSkew + Delay(row.attempts)
    BY <2>1, <2>5, <2>7
  <2>9. outcome \in {"dead", "pending"}
    BY <2>1
  <2>10. /\ r \in Rows
         /\ r.status = outcome /\ r.due = due /\ r.token = row.token /\ r.attempts = row.attempts
    BY <2>2, <2>5, <2>8, <2>9 DEF Rows
  <2>11. f \in [attempt : Nat, at : Int] /\ f.attempt = row.attempts /\ f.at = worker[w].ended
    BY <2>3, <2>5
  <2>12. r.due >= f.at - MaxSkew + Delay(f.attempt) /\ f.attempt <= r.attempts
    BY <2>5, <2>8, <2>10, <2>11
  <2>13. r.status # "running"
    BY <2>9, <2>10
  <2>14. \A v \in Workers : v # w => worker[v].token # row.token \/ ~Busy(v)
    BY <1>1, <1>3, HolderIsAlone
  <2> QED  BY <1>1, <2>4, <2>10, <2>11, <2>12, <2>13, <2>14, RowStep
<1> QED  BY <1>2, <1>3

\* Every step keeps the invariant.
LEMMA StepKeeps == IInv /\ [Next]_vars => IInv'
<1> SUFFICES ASSUME IInv, [Next]_vars PROVE IInv'
  OBVIOUS
<1>1. CASE UNCHANGED vars
  BY <1>1 DEF vars, IInv, Types, BudgetInv, TokenInv, LeaseInv, FailedInv, Busy, Sends
<1>2. ASSUME NEW w \in Workers, PollInVain(w) \/ StoreErrorOrCrash(w) PROVE IInv'
  <2>1. Rest(w) /\ UNCHANGED <<now, lease, skew, row, failed>>
    BY <1>2 DEF PollInVain, StoreErrorOrCrash
  <2> QED  BY <2>1, RestKeeps
<1>3. CASE Next
  BY <1>2, <1>3, TickKeeps, ClaimKeeps, BuryKeeps, NotifyBeginsKeeps, NotifyKeeps, CompleteKeeps,
     FailKeeps DEF Next
<1> QED  BY <1>1, <1>3

-----------------------------------------------------------------------------
(***************************************************************************)
(* The theorems.                                                           *)
(***************************************************************************)

\* The inductive invariant holds as long as the scheduler runs.
THEOREM Invariance == Spec => []IInv
BY InitKeeps, StepKeeps, PTL DEF Spec

\* With any lease that Load admits, and however long the store takes: two workers
\* send for a row at the same time only if the answer to the claim of the earlier
\* one took longer than what the shortest lease leaves beside a request.
THEOREM OneSender == Spec => []OneSenderAtATime
<1>1. IInv => OneSenderAtATime
  <2> SUFFICES ASSUME IInv, NEW v \in Workers, NEW w \in Workers,
                      worker[v].phase = "sending", worker[v].token < worker[w].token
               PROVE  AnswerTook(v) > MinLease - NotifyTimeout
    BY DEF OneSenderAtATime
  <2>1. /\ now \in Nat /\ lease \in Nat /\ lease >= MinLease /\ NotifyTimeout \in Nat
        /\ row.token \in Nat /\ worker[v].token \in Nat /\ worker[w].token \in Nat
        /\ worker[v].by \in Int /\ worker[v].claimed \in Int
    BY StateFacts, ConstantFacts
  <2>2. worker[w].token <= row.token /\ now <= worker[v].by
    BY DEF IInv, TokenInv, BudgetInv
  <2>3. worker[v].token < row.token
    BY <2>1, <2>2
  <2>4. now > worker[v].claimed + lease
    BY <2>3 DEF IInv, LeaseInv, Sends
  <2> QED  BY <2>1, <2>2, <2>4 DEF AnswerTook, MinLease
<1> QED  BY <1>1, Invariance, PTL

\* After a failed attempt the target is left alone for what retryDelay says, for
\* any number of attempts, less what the clock of the worker is slow.
THEOREM KeptBackoff == Spec => []BackoffIsKept
<1>1. IInv => BackoffIsKept
  BY DEF IInv, FailedInv, BackoffIsKept, Delay
<1> QED  BY <1>1, Invariance, PTL

\* Every variable has its type, the attempts stay within the row's budget, and no
\* worker is late.
THEOREM TypeCorrect == Spec => []TypeOK
<1>1. IInv => TypeOK
  <2> SUFFICES ASSUME IInv PROVE TypeOK
    OBVIOUS
  <2>1. row.attempts \in 0 .. MaxAttempts
    BY StateFacts, ConstantFacts DEF IInv, BudgetInv
  <2> QED  BY <2>1, StateFacts DEF TypeOK, IInv, Types, BudgetInv
<1> QED  BY <1>1, Invariance, PTL

-----------------------------------------------------------------------------
(***************************************************************************)
(* The time an escalation takes.  TimeFor is defined by recursion, and that *)
(* there is such a function has to be shown: its closed form is one, as     *)
(* the delays stop growing after the seventh attempt.                       *)
(***************************************************************************)

\* A set of natural numbers that is not empty has a least element.
LEMMA LeastNatural ==
    ASSUME NEW S \in SUBSET Nat, S # {}
    PROVE  \E m \in S : \A n \in S : m <= n
<1> DEFINE R == {ss \in Nat \X Nat : ss[1] < ss[2]}
<1>1. IsWellFoundedOn(R, Nat)
  BY NatLessThanWellFounded DEF OpToRel
<1> HIDE DEF R
<1>2. PICK m \in S : \A n \in S : ~(<<n, m>> \in R)
  BY <1>1, WFMin
<1>3. \A n \in S : ~(n < m)
  BY <1>2 DEF R
<1> QED  BY <1>3

\* What a failed attempt adds to the time of its request.
Margin(n) == RetryBase(n) + MaxJitter + MaxSkew

\* The time of an attempt, and that it is the same from the seventh on.
LEMMA CycleTimeIs ==
    ASSUME lease \in Nat, NEW n \in Nat, n > 0
    PROVE  /\ CycleTime(n) \in Nat /\ Margin(n) \in Nat
           /\ CycleTime(n) >= Poll + lease + 1
           /\ CycleTime(n) >= Poll + 2 * StoreTime + NotifyTimeout + Margin(n)
           /\ n >= 7 => CycleTime(n) = CycleTime(7)
<1>1. /\ StoreTime \in Nat /\ NotifyTimeout \in Nat /\ MaxJitter \in Nat /\ MaxSkew \in Nat
      /\ Poll \in Nat
  BY ConstantFacts
<1>2. RetryBase(n) \in Nat
  BY RetryBaseIs
<1>3. PICK f : f = 2 * StoreTime + NotifyTimeout + RetryBase(n) + MaxJitter + MaxSkew
  OBVIOUS
<1>4. f \in Nat /\ f = 2 * StoreTime + NotifyTimeout + Margin(n) /\ Margin(n) \in Nat
  BY <1>1, <1>2, <1>3 DEF Margin
<1>5. CycleTime(n) = Poll + (IF lease + 1 > f THEN lease + 1 ELSE f)
  BY <1>3 DEF CycleTime
<1>6. /\ CycleTime(n) \in Nat
      /\ CycleTime(n) >= Poll + lease + 1
      /\ CycleTime(n) >= Poll + f
  BY <1>1, <1>4, <1>5
<1>7. n >= 7 => CycleTime(n) = CycleTime(7)
  <2>1. n >= 7 => RetryBase(n) = RetryBase(7)
    BY RetryBaseIs DEF Delay
  <2> QED  BY <2>1 DEF CycleTime
<1> QED  BY <1>1, <1>4, <1>6, <1>7

\* TimeFor is what its definition says.
LEMMA TimeForIs ==
    ASSUME lease \in Nat
    PROVE  TimeFor = [n \in Nat |-> IF n = 0 THEN Poll ELSE TimeFor[n - 1] + CycleTime(n)]
<1>1. PICK C : C = [n \in Nat |-> IF n = 0 THEN 0 ELSE CycleTime(n)]
  OBVIOUS
<1>2. /\ Poll \in Nat
      /\ \A n \in Nat : C[n] \in Nat /\ (n > 0 => C[n] = CycleTime(n)) /\ (n >= 7 => C[n] = C[7])
  BY <1>1, ConstantFacts, CycleTimeIs
<1>3. PICK g : g = [n \in Nat |->
         IF n = 0 THEN Poll ELSE
         IF n = 1 THEN Poll + C[1] ELSE
         IF n = 2 THEN Poll + C[1] + C[2] ELSE
         IF n = 3 THEN Poll + C[1] + C[2] + C[3] ELSE
         IF n = 4 THEN Poll + C[1] + C[2] + C[3] + C[4] ELSE
         IF n = 5 THEN Poll + C[1] + C[2] + C[3] + C[4] + C[5] ELSE
         Poll + C[1] + C[2] + C[3] + C[4] + C[5] + C[6] + (n - 6) * C[7]]
  OBVIOUS
<1>4. ASSUME NEW n \in Nat, n > 0 PROVE g[n] = g[n - 1] + C[n]
  <2>0. C[1] \in Nat /\ C[2] \in Nat /\ C[3] \in Nat /\ C[4] \in Nat /\ C[5] \in Nat
        /\ C[6] \in Nat /\ C[7] \in Nat
    BY <1>2
  <2>1. CASE n \in 1 .. 5
    BY <1>2, <1>3, <2>0, <2>1
  <2>2. CASE n = 6
    <3>1. (6 - 6) * C[7] = 0
      BY <2>0
    <3>2. g[6] = Poll + C[1] + C[2] + C[3] + C[4] + C[5] + C[6]
      BY <1>2, <1>3, <2>0, <3>1
    <3> QED  BY <1>2, <1>3, <2>0, <2>2, <3>2
  <2>3. CASE n = 7
    <3>1. (6 - 6) * C[7] = 0 /\ (7 - 6) * C[7] = C[7]
      BY <2>0
    <3> QED  BY <1>2, <1>3, <2>0, <2>3, <3>1
  <2>4. CASE n > 7
    <3>1. (n - 6) * C[7] = ((n - 1) - 6) * C[7] + C[7] /\ ((n - 1) - 6) * C[7] \in Int
      BY <2>0, <2>4
    <3>2. C[n] = C[7]
      BY <1>2, <2>4
    <3>3. g[n] = Poll + C[1] + C[2] + C[3] + C[4] + C[5] + C[6] + (n - 6) * C[7]
      BY <1>3, <2>4
    <3>4. g[n - 1] = Poll + C[1] + C[2] + C[3] + C[4] + C[5] + C[6] + ((n - 1) - 6) * C[7]
      BY <1>3, <2>4
    <3> QED  BY <1>2, <2>0, <3>1, <3>2, <3>3, <3>4
  <2> QED  BY <1>4, <2>1, <2>2, <2>3, <2>4
<1>5. g = [n \in Nat |-> IF n = 0 THEN Poll ELSE g[n - 1] + CycleTime(n)]
  <2>1. \A n \in Nat : g[n] = IF n = 0 THEN Poll ELSE g[n - 1] + CycleTime(n)
    BY <1>2, <1>3, <1>4
  <2>2. g = [n \in Nat |-> g[n]]
    BY <1>3
  <2> QED  BY <2>1, <2>2
<1> QED  BY <1>5 DEF TimeFor

\* Later attempts end later.
LEMMA TimeForGrows ==
    ASSUME lease \in Nat
    PROVE  /\ TimeFor[0] = Poll
           /\ \A n \in Nat : /\ TimeFor[n] \in Nat
                             /\ TimeFor[n + 1] = TimeFor[n] + CycleTime(n + 1)
           /\ \A m, n \in Nat : m <= n => TimeFor[m] <= TimeFor[n]
<1>1. PICK t : t = TimeFor
  OBVIOUS
<1>2. \A n \in Nat : t[n] = IF n = 0 THEN Poll ELSE t[n - 1] + CycleTime(n)
  BY <1>1, TimeForIs
<1>3. \A n \in Nat : n > 0 => CycleTime(n) \in Nat
  BY CycleTimeIs
<1>4. \A n \in Nat : t[n] \in Nat
  <2>1. SUFFICES ASSUME {n \in Nat : t[n] \notin Nat} # {} PROVE FALSE
    OBVIOUS
  <2>2. PICK m \in Nat : t[m] \notin Nat /\ \A n \in Nat : t[n] \notin Nat => m <= n
    BY <2>1, LeastNatural
  <2>3. CASE m = 0
    BY <1>2, <2>2, <2>3, ConstantFacts
  <2>4. CASE m # 0
    <3>1. m - 1 \in Nat /\ t[m - 1] \in Nat
      BY <2>2, <2>4
    <3> QED  BY <1>2, <1>3, <2>2, <2>4, <3>1
  <2> QED  BY <2>3, <2>4
<1>5. \A n \in Nat : t[n + 1] = t[n] + CycleTime(n + 1) /\ t[n + 1] >= t[n]
  BY <1>2, <1>3, <1>4
<1>6. ASSUME NEW k \in Nat, NEW n \in Nat, k <= n PROVE t[k] <= t[n]
  <2>1. SUFFICES ASSUME {j \in Nat : k <= j /\ ~(t[k] <= t[j])} # {} PROVE FALSE
    BY <1>6
  <2>2. PICK m \in Nat : /\ k <= m /\ ~(t[k] <= t[m])
                         /\ \A j \in Nat : k <= j /\ ~(t[k] <= t[j]) => m <= j
    BY <2>1, LeastNatural
  <2>3. m # k
    BY <1>4, <2>2
  <2>4. m - 1 \in Nat /\ k <= m - 1 /\ t[k] <= t[m - 1]
    BY <2>2, <2>3
  <2>5. t[m] >= t[m - 1]
    BY <1>5, <2>4
  <2> QED  BY <1>4, <2>2, <2>4, <2>5
<1> QED  BY <1>1, <1>2, <1>4, <1>5, <1>6

\* By this time the row can be claimed, or be buried, again.
Horizon == TimeFor[row.attempts] - Poll

\* Nothing that the row waits for is later than the horizon of its attempt: its
\* due time, its lease, the workers that may still store a result.  Idle workers
\* poll within Poll.
TimeInv ==
    ~Settled =>
        /\ row.status = "pending" => row.attempts < MaxAttempts /\ row.due <= Horizon
        /\ row.status = "running" => row.leaseUntil + 1 <= Horizon
        /\ \A w \in Workers :
              /\ worker[w].phase = "idle" => worker[w].by <= Horizon + Poll
              /\ worker[w].phase # "idle" => worker[w].by <= Horizon
              /\ worker[w].phase = "claiming" =>
                    /\ worker[w].by + NotifyTimeout + StoreTime <= Horizon
                    /\ IsHolder(w) => worker[w].by + NotifyTimeout + StoreTime
                                         + Margin(row.attempts) <= Horizon
              /\ worker[w].phase = "sending" =>
                    /\ worker[w].by + StoreTime <= Horizon
                    /\ IsHolder(w) =>
                          worker[w].by + StoreTime + Margin(row.attempts) <= Horizon
              /\ worker[w].phase = "refused" /\ IsHolder(w) =>
                    worker[w].ended + Margin(row.attempts) <= Horizon

\* The horizon of a row that keeps its attempts stays, as WORKER_LEASE does.
LEMMA HorizonStays ==
    ASSUME row'.attempts = row.attempts, lease' = lease
    PROVE  Horizon' = Horizon /\ Margin(row.attempts)' = Margin(row.attempts)
<1>1. \A n : CycleTime(n)' = CycleTime(n)
  BY DEF CycleTime, RetryBase
<1>2. TimeFor' = TimeFor
  BY <1>1 DEF TimeFor
<1> QED  BY <1>2 DEF Horizon, Margin, RetryBase

\* The horizon is a number, and so is what a failure takes.
LEMMA HorizonIs ==
    ASSUME IInv
    PROVE  Horizon \in Int /\ Poll \in Nat /\ StoreTime \in Nat
           /\ (row.attempts > 0 => Margin(row.attempts) \in Nat)
<1>1. lease \in Nat /\ row.attempts \in Nat /\ Poll \in Nat /\ StoreTime \in Nat
  BY StateFacts, ConstantFacts
<1>2. TimeFor[row.attempts] \in Nat
  BY <1>1, TimeForGrows
<1>3. row.attempts > 0 => Margin(row.attempts) \in Nat
  BY <1>1, CycleTimeIs
<1> QED  BY <1>1, <1>2, <1>3 DEF Horizon

\* A worker goes to rest at a time before the horizon.
LEMMA RestInTime ==
    ASSUME IInv, TimeInv, NEW w \in Workers, Rest(w), now <= Horizon,
           UNCHANGED <<now, lease, row>>
    PROVE  TimeInv'
<1>1. /\ worker'[w].phase = "idle" /\ worker'[w].by = now + Poll
      /\ \A v \in Workers : v # w => worker'[v] = worker[v]
  BY DEF Rest, Idle, IInv, Types
<1>2. Horizon' = Horizon /\ Margin(row.attempts)' = Margin(row.attempts)
  BY HorizonStays
<1>3. now + Poll <= Horizon + Poll
  BY HorizonIs, StateFacts
<1> QED  BY <1>1, <1>2, <1>3 DEF TimeInv, Settled, IsHolder

\* A claim begins the next attempt, at the latest when the worker polls.
LEMMA ClaimInTime ==
    ASSUME IInv, TimeInv, NEW w \in Workers, Claim(w)
    PROVE  TimeInv'
<1>1. /\ now \in Nat /\ lease \in Nat /\ row.attempts \in Nat /\ row.token \in Nat
      /\ StoreTime \in Nat /\ NotifyTimeout \in Nat /\ Poll \in Nat /\ Horizon \in Int
      /\ worker[w].by \in Int
  BY StateFacts, ConstantFacts, HorizonIs
<1>2. PICK n : n = row.attempts + 1
  OBVIOUS
<1>3. n \in Nat /\ n > 0
  BY <1>1, <1>2
<1>4. /\ CycleTime(n) \in Nat /\ Margin(n) \in Nat
      /\ CycleTime(n) >= Poll + lease + 1
      /\ CycleTime(n) >= Poll + 2 * StoreTime + NotifyTimeout + Margin(n)
  BY <1>1, <1>3, CycleTimeIs
<1>5. /\ row'.status = "running" /\ row'.leaseUntil = now + lease
      /\ row'.attempts = n /\ row'.token = row.token + 1
      /\ lease' = lease /\ Claimable /\ worker[w].phase = "idle"
  BY <1>2 DEF Claim, IInv, Types, Rows
<1>6. /\ worker'[w].phase = "claiming" /\ worker'[w].by = now + StoreTime
      /\ \A v \in Workers : v # w => worker'[v] = worker[v]
  BY DEF Claim, IInv, Types
<1>7. Horizon' = Horizon + CycleTime(n) /\ Margin(row.attempts)' = Margin(n)
  <2>1. \A k : CycleTime(k)' = CycleTime(k)
    BY <1>5 DEF CycleTime, RetryBase
  <2>2. TimeFor' = TimeFor
    BY <2>1 DEF TimeFor
  <2>3. TimeFor[n] = TimeFor[row.attempts] + CycleTime(n) /\ TimeFor[row.attempts] \in Nat
    BY <1>1, <1>2, TimeForGrows
  <2>4. Horizon' = TimeFor[n] - Poll
    BY <1>5, <2>2 DEF Horizon
  <2>5. Margin(row.attempts)' = Margin(n)
    BY <1>5 DEF Margin, RetryBase
  <2> QED  BY <1>1, <1>4, <2>3, <2>4, <2>5 DEF Horizon
<1>8. ~Settled
  BY <1>5 DEF Claimable, LeaseIsOver, Settled
<1>9. now <= Horizon + Poll
  BY <1>1, <1>5, <1>8 DEF TimeInv, IInv, BudgetInv
<1>10. row'.leaseUntil + 1 <= Horizon'
  BY <1>1, <1>4, <1>5, <1>7, <1>9
<1>11. /\ worker'[w].by + NotifyTimeout + StoreTime + Margin(row.attempts)' <= Horizon'
       /\ worker'[w].by + NotifyTimeout + StoreTime <= Horizon'
       /\ worker'[w].by <= Horizon'
  BY <1>1, <1>4, <1>6, <1>7, <1>9
<1>12. ASSUME NEW v \in Workers, v # w
       PROVE  /\ worker'[v].phase = "idle" => worker'[v].by <= Horizon' + Poll
              /\ worker'[v].phase # "idle" => worker'[v].by <= Horizon'
              /\ worker'[v].phase = "claiming" =>
                    worker'[v].by + NotifyTimeout + StoreTime <= Horizon'
              /\ worker'[v].phase = "sending" => worker'[v].by + StoreTime <= Horizon'
              /\ ~(row'.token = worker'[v].token)
  <2>1. worker'[v] = worker[v] /\ worker[v].by \in Int /\ worker[v].token \in Nat
    BY <1>6, <1>12, StateFacts
  <2>3. worker[v].token <= row.token
    BY DEF IInv, TokenInv
  <2>4. /\ worker[v].phase = "idle" => worker[v].by <= Horizon + Poll
        /\ worker[v].phase # "idle" => worker[v].by <= Horizon
        /\ worker[v].phase = "claiming" => worker[v].by + NotifyTimeout + StoreTime <= Horizon
        /\ worker[v].phase = "sending" => worker[v].by + StoreTime <= Horizon
    BY <1>8 DEF TimeInv
  <2>5. Horizon <= Horizon'
    BY <1>1, <1>4, <1>7
  <2>6. Horizon' \in Int
    BY <1>1, <1>4, <1>7
  <2>7. ~(row'.token = worker[v].token)
    BY <1>1, <1>5, <2>1, <2>3
  <2>8. /\ worker[v].phase = "idle" => worker[v].by <= Horizon' + Poll
        /\ worker[v].phase # "idle" => worker[v].by <= Horizon'
        /\ worker[v].phase = "claiming" => worker[v].by + NotifyTimeout + StoreTime <= Horizon'
        /\ worker[v].phase = "sending" => worker[v].by + StoreTime <= Horizon'
    BY <1>1, <2>1, <2>4, <2>5, <2>6
  <2> QED  BY <2>1, <2>7, <2>8
<1> QED  BY <1>5, <1>6, <1>10, <1>11, <1>12 DEF TimeInv, IsHolder

\* The answer to a claim is there before the horizon.
LEMMA NotifyBeginsInTime ==
    ASSUME IInv, TimeInv, NEW w \in Workers, NotifyBegins(w)
    PROVE  TimeInv'
<1>1. /\ now \in Nat /\ StoreTime \in Nat /\ NotifyTimeout \in Nat /\ Horizon \in Int
      /\ worker[w].by \in Int /\ row.attempts \in Nat /\ now <= worker[w].by
  BY StateFacts, HorizonIs, ConstantFacts DEF IInv, BudgetInv
<1>2. /\ worker'[w].phase = "sending" /\ worker'[w].by = now + NotifyTimeout
      /\ worker'[w].token = worker[w].token /\ worker[w].phase = "claiming"
      /\ \A v \in Workers : v # w => worker'[v] = worker[v]
  BY DEF NotifyBegins, IInv, Types, WorkerStates
<1>3. Horizon' = Horizon /\ Margin(row.attempts)' = Margin(row.attempts)
      /\ UNCHANGED <<row, lease>>
  BY HorizonStays DEF NotifyBegins
<1>4. IsHolder(w) => Margin(row.attempts) \in Nat
  BY <1>1, StateFacts, HorizonIs DEF IsHolder, IInv, FailedInv
<1>5. ASSUME ~Settled
      PROVE  /\ now + NotifyTimeout <= Horizon /\ now + NotifyTimeout + StoreTime <= Horizon
             /\ IsHolder(w) => now + NotifyTimeout + StoreTime + Margin(row.attempts) <= Horizon
  <2>1. /\ worker[w].by + NotifyTimeout + StoreTime <= Horizon
        /\ IsHolder(w) =>
              worker[w].by + NotifyTimeout + StoreTime + Margin(row.attempts) <= Horizon
    BY <1>2, <1>5 DEF TimeInv
  <2> QED  BY <1>1, <1>4, <2>1
<1> QED  BY <1>2, <1>3, <1>5 DEF TimeInv, Settled, IsHolder

\* A request ends while its worker sends.
LEMMA NotifyInTime ==
    ASSUME IInv, TimeInv, NEW w \in Workers, NEW phase \in {"notified", "refused"},
           NotifyEnds(w, phase)
    PROVE  TimeInv'
<1>1. /\ now \in Nat /\ StoreTime \in Nat /\ Horizon \in Int /\ worker[w].by \in Int
      /\ row.attempts \in Nat /\ now <= worker[w].by
  BY StateFacts, HorizonIs DEF IInv, BudgetInv
<1>2. /\ worker'[w].phase = phase /\ worker'[w].ended = now /\ worker'[w].by = now + StoreTime
      /\ worker'[w].token = worker[w].token /\ worker[w].phase = "sending"
      /\ \A v \in Workers : v # w => worker'[v] = worker[v]
  BY DEF NotifyEnds, IInv, Types, WorkerStates
<1>3. Horizon' = Horizon /\ Margin(row.attempts)' = Margin(row.attempts)
      /\ UNCHANGED <<row, lease>>
  BY HorizonStays DEF NotifyEnds
<1>4. IsHolder(w) => Margin(row.attempts) \in Nat
  BY <1>1, StateFacts, HorizonIs DEF IsHolder, IInv, FailedInv
<1>5. ASSUME ~Settled
      PROVE  /\ now + StoreTime <= Horizon
             /\ IsHolder(w) => now + Margin(row.attempts) <= Horizon
  <2>1. /\ worker[w].by + StoreTime <= Horizon
        /\ IsHolder(w) => worker[w].by + StoreTime + Margin(row.attempts) <= Horizon
    BY <1>2, <1>5 DEF TimeInv
  <2> QED  BY <1>1, <1>4, <2>1
<1>6. phase # "idle" /\ phase # "claiming" /\ phase # "sending"
  OBVIOUS
<1> QED  BY <1>2, <1>3, <1>5, <1>6 DEF TimeInv, Settled, IsHolder

\* A failure is stored: the delay is over by the horizon.
LEMMA FailInTime ==
    ASSUME IInv, TimeInv, NEW w \in Workers, NEW jitter \in 0 .. MaxJitter,
           FailEscalation(w, jitter)
    PROVE  TimeInv'
<1>1. /\ now \in Nat /\ Horizon \in Int /\ Poll \in Nat /\ MaxSkew \in Nat /\ MaxJitter \in Nat
      /\ worker[w].by \in Int /\ worker[w].ended \in Int /\ row.attempts \in Nat
      /\ jitter \in Nat /\ jitter <= MaxJitter
  BY StateFacts, HorizonIs, ConstantFacts
<1>2. worker[w].phase = "refused" /\ Rest(w) /\ UNCHANGED <<now, lease>>
  BY DEF FailEscalation
<1>3. CASE ~IsHolder(w)
  <2>1. row' = row
    BY <1>3 DEF FailEscalation
  <2>2. CASE Settled
    BY <2>1, <2>2 DEF TimeInv, Settled
  <2>3. CASE ~Settled
    <3>1. now <= Horizon
      BY <1>1, <1>2, <2>3 DEF TimeInv, IInv, BudgetInv
    <3> QED  BY <1>2, <2>1, <3>1, RestInTime
  <2> QED  BY <2>2, <2>3
<1>4. CASE IsHolder(w)
  <2>1. ~Settled /\ row.status = "running"
    BY <1>4 DEF IsHolder, Settled
  <2>2. row.attempts > 0
    BY <1>1, <2>1, StateFacts DEF IInv, FailedInv
  <2>3. Margin(row.attempts) \in Nat /\ RetryBase(row.attempts) \in Nat
    BY <1>1, <2>2, HorizonIs, RetryBaseIs
  <2>4. worker[w].ended + Margin(row.attempts) <= Horizon /\ now <= Horizon
    BY <1>1, <1>2, <1>4, <2>1 DEF TimeInv, IInv, BudgetInv
  <2>5. /\ row'.status = IF row.attempts >= MaxAttempts THEN "dead" ELSE "pending"
        /\ row'.due = worker[w].ended + skew[w] + RetryBase(row.attempts) + jitter
        /\ row'.attempts = row.attempts
    BY <1>4 DEF FailEscalation, IInv, Types, Rows
  <2>6. skew[w] \in Int /\ skew[w] <= MaxSkew
    BY <1>1 DEF IInv, Types
  <2>7. row'.due <= Horizon
    BY <1>1, <2>3, <2>4, <2>5, <2>6 DEF Margin
  <2>8. Horizon' = Horizon
    BY <1>2, <2>5, HorizonStays
  <2>9. /\ worker'[w].phase = "idle" /\ worker'[w].by = now + Poll
        /\ \A v \in Workers : v # w => worker'[v] = worker[v]
    BY <1>2 DEF Rest, Idle, IInv, Types
  <2>10. now + Poll <= Horizon + Poll
    BY <1>1, <2>4
  <2>12. row'.status = "pending" => row.attempts < MaxAttempts
    BY <1>1, <2>5, ConstantFacts
  <2>13. row'.status # "running"
    BY <2>5
  <2> QED  BY <2>1, <2>5, <2>7, <2>8, <2>9, <2>10, <2>12, <2>13 DEF TimeInv, IsHolder
<1> QED  BY <1>3, <1>4

\* A poll that finds nothing, a result that is not stored, a crash.
LEMMA IdleInTime ==
    ASSUME IInv, TimeInv, NEW w \in Workers, PollInVain(w) \/ StoreErrorOrCrash(w)
    PROVE  TimeInv'
<1>1. Rest(w) /\ UNCHANGED <<now, lease, row>>
  BY DEF PollInVain, StoreErrorOrCrash
<1>2. CASE Settled
  BY <1>1, <1>2 DEF TimeInv, Settled
<1>3. CASE ~Settled
  <2>1. now \in Nat /\ Horizon \in Int /\ row.due \in Int /\ row.leaseUntil \in Int
        /\ row.attempts \in Nat /\ MaxAttempts \in Nat /\ worker[w].by \in Int
    BY StateFacts, HorizonIs, ConstantFacts
  <2>2. row.status \in {"pending", "running"}
    BY <1>3, StateFacts DEF Settled
  <2>3. CASE PollInVain(w)
    <3>1. ~Claimable /\ ~Exhausted
      BY <2>3 DEF PollInVain
    <3>2. CASE row.status = "pending"
      <4>1. row.due > now
        BY <1>3, <2>1, <3>1, <3>2 DEF Claimable, TimeInv
      <4>2. now <= Horizon
        BY <1>3, <2>1, <3>2, <4>1 DEF TimeInv
      <4> QED  BY <1>1, <4>2, RestInTime
    <3>3. CASE row.status = "running"
      <4>1. ~(row.leaseUntil < now)
        BY <2>1, <3>1, <3>3 DEF Claimable, Exhausted, LeaseIsOver
      <4>2. now <= Horizon
        BY <1>3, <2>1, <3>3, <4>1 DEF TimeInv
      <4> QED  BY <1>1, <4>2, RestInTime
    <3> QED  BY <2>2, <3>2, <3>3
  <2>4. CASE StoreErrorOrCrash(w)
    <3>1. now <= Horizon
      BY <1>3, <2>1, <2>4 DEF StoreErrorOrCrash, TimeInv, IInv, BudgetInv
    <3> QED  BY <1>1, <3>1, RestInTime
  <2> QED  BY <2>3, <2>4
<1> QED  BY <1>2, <1>3

\* A result is stored by its holder, or comes too late.
LEMMA CompleteInTime ==
    ASSUME IInv, TimeInv, NEW w \in Workers, CompleteEscalation(w)
    PROVE  TimeInv'
<1>1. worker[w].phase = "notified" /\ Rest(w) /\ UNCHANGED <<now, lease>>
  BY DEF CompleteEscalation
<1>2. CASE IsHolder(w)
  <2>1. row'.status = "sent"
    BY <1>2 DEF CompleteEscalation, IInv, Types, Rows
  <2> QED  BY <2>1 DEF TimeInv, Settled
<1>3. CASE ~IsHolder(w)
  <2>1. row' = row
    BY <1>3 DEF CompleteEscalation
  <2>2. CASE Settled
    BY <2>1, <2>2 DEF TimeInv, Settled
  <2>3. CASE ~Settled
    <3>1. now \in Nat /\ Horizon \in Int /\ worker[w].by \in Int
      BY StateFacts, HorizonIs
    <3>2. now <= Horizon
      BY <1>1, <2>3, <3>1 DEF TimeInv, IInv, BudgetInv
    <3> QED  BY <1>1, <2>1, <3>2, RestInTime
  <2> QED  BY <2>2, <2>3
<1> QED  BY <1>2, <1>3

\* At the start the row is due, and everybody polls within Poll.
LEMMA InitInTime == Init => TimeInv
<1> SUFFICES ASSUME Init PROVE TimeInv
  OBVIOUS
<1>1. lease \in Nat /\ Poll \in Nat /\ MaxAttempts > 0
  BY ConstantFacts, TimingConstants DEF Init
<1>2. row.status = "pending" /\ row.due = 0 /\ row.attempts = 0
  BY DEF Init
<1>3. TimeFor[0] = Poll
  BY <1>1, TimeForGrows
<1>4. Horizon = 0
  BY <1>1, <1>2, <1>3 DEF Horizon
<1>5. ASSUME NEW w \in Workers PROVE worker[w].phase = "idle" /\ worker[w].by <= Horizon + Poll
  <2>1. PICK by \in 0 .. Poll : worker[w] = Idle(by)
    BY DEF Init
  <2> QED  BY <1>1, <1>4, <2>1 DEF Idle
<1> QED  BY <1>1, <1>2, <1>4, <1>5 DEF TimeInv

\* Every step keeps to the horizon.
LEMMA StepInTime == IInv /\ TimeInv /\ [Next]_vars => TimeInv'
<1> SUFFICES ASSUME IInv, TimeInv, [Next]_vars PROVE TimeInv'
  OBVIOUS
<1>1. CASE UNCHANGED <<row, worker, lease>>
  <2>1. Horizon' = Horizon /\ Margin(row.attempts)' = Margin(row.attempts)
    BY <1>1, HorizonStays
  <2> QED  BY <1>1, <2>1 DEF TimeInv, Settled, IsHolder
<1>2. CASE \E w \in Workers : Bury(w)
  <2>1. row'.status = "dead"
    BY <1>2 DEF Bury, IInv, Types, Rows
  <2> QED  BY <2>1 DEF TimeInv, Settled
<1>3. UNCHANGED vars \/ Tick => UNCHANGED <<row, worker, lease>>
  BY DEF vars, Tick
<1> QED  BY <1>1, <1>2, <1>3, ClaimInTime, NotifyBeginsInTime, NotifyInTime, FailInTime,
            IdleInTime, CompleteInTime DEF Next

\* The whole life of an escalation is bounded: by the time for all of its attempts
\* it is sent or dead, whatever the target does, however often workers crash, and
\* for any lease, attempts, delays and clocks.
THEOREM Punctual == Spec => []SettledInTime
<1>1. IInv /\ TimeInv => SettledInTime
  <2> SUFFICES ASSUME IInv, TimeInv PROVE TypeOK /\ (~Settled => now <= TimeFor[MaxAttempts])
    BY DEF SettledInTime
  <2>1. TypeOK
    <3>1. row.attempts \in 0 .. MaxAttempts
      BY StateFacts, ConstantFacts DEF IInv, BudgetInv
    <3> QED  BY <3>1, StateFacts DEF TypeOK, IInv, Types, BudgetInv
  <2>2. ASSUME ~Settled PROVE now <= TimeFor[MaxAttempts]
    <3>1. PICK w \in Workers : TRUE
      BY TimingConstants
    <3>2. /\ now \in Nat /\ worker[w].by \in Int /\ Horizon \in Int /\ Poll \in Nat
          /\ row.attempts \in Nat /\ lease \in Nat /\ MaxAttempts \in Nat
      BY StateFacts, HorizonIs, ConstantFacts
    <3>3. now <= worker[w].by /\ worker[w].by <= Horizon + Poll
      BY <2>2, <3>2 DEF IInv, BudgetInv, TimeInv
    <3>4. TimeFor[row.attempts] \in Nat /\ TimeFor[MaxAttempts] \in Nat
          /\ TimeFor[row.attempts] <= TimeFor[MaxAttempts]
      BY <3>2, TimeForGrows DEF IInv, BudgetInv
    <3> QED  BY <3>2, <3>3, <3>4 DEF Horizon
  <2> QED  BY <2>1, <2>2
<1> QED  BY <1>1, InitInTime, StepInTime, Invariance, PTL DEF Spec

-----------------------------------------------------------------------------
(***************************************************************************)
(* Listing: a client that goes through all pages of GET /v1/incidents, for *)
(* any number of incidents, any page size and any clock.                   *)
(*                                                                         *)
(* The argument: `before` only goes down and last_seen_at only goes up, so *)
(* what is shown stays above the cursor and is never below it again; and   *)
(* what is above the cursor and matched has been shown, cut or touched.    *)
(***************************************************************************)
\* Incident i is none of those the client is to see.
Excused(i) ==
    \/ i \in client.shown \cup touched \cup client.cut
    \/ lastSeen[i] = None
    \/ client.filter \notin {None, status[i]}

Traversals ==
    [filter : IncidentStatuses \cup {None}, before : Times \cup {None},
     shown : SUBSET Incidents, twice : {{}}, cut : SUBSET Incidents,
     phase : {"reading", "done"}]

\* What is shown is not below the cursor.
ShownInv ==
    \A i \in client.shown :
        client.before # None /\ lastSeen[i] # None /\ lastSeen[i] >= client.before

\* What is still to come is below the cursor, as long as there is more to come.
PassedInv ==
    \A i \in Incidents :
        Excused(i) \/ (client.phase = "reading" /\ IsBefore(lastSeen[i], client.before))

LInv == ListingTypeOK /\ client \in Traversals /\ ShownInv /\ PassedInv

\* The constants, and the times of incidents that are there.
LEMMA ListingFacts ==
    /\ IsFiniteSet(Incidents) /\ Limit \in Nat /\ Limit >= 1
    /\ None \notin Times /\ None \notin IncidentStatuses
    /\ Times \subseteq Nat
BY ListingConstants DEF Times

\* The invariant holds at first.
LEMMA LInitKeeps == ListingInit => LInv
<1> SUFFICES ASSUME ListingInit PROVE LInv
  OBVIOUS
<1>1. clock \in Times /\ lastSeen \in [Incidents -> Times \cup {None}]
  BY ListingFacts, ListingConstants DEF ListingInit, Times
<1>2. /\ client \in Traversals
      /\ client.before = None /\ client.shown = {} /\ client.phase = "reading"
  BY DEF ListingInit, Traversals
<1>3. ListingTypeOK
  BY <1>1, <1>2, ListingFacts DEF ListingTypeOK, ListingInit, Traversals
<1>4. ShownInv /\ PassedInv
  BY <1>2 DEF ShownInv, PassedInv, IsBefore
<1> QED  BY <1>2, <1>3, <1>4 DEF LInv

\* Time passes.
LEMMA LTickKeeps ==
    ASSUME LInv, TimePasses
    PROVE  LInv'
<1>1. clock' \in Times /\ lastSeen' = lastSeen /\ status' = status /\ client' = client
      /\ touched' = touched
  BY ListingFacts, ListingConstants DEF LInv, ListingTypeOK, TimePasses, Times
<1>2. ListingTypeOK'
  BY <1>1, ListingFacts DEF LInv, ListingTypeOK
<1> QED  BY <1>1, <1>2 DEF LInv, ShownInv, PassedInv, Excused, IsBefore

\* An alert opens an incident or refreshes one: it is touched, and does not fall
\* below the cursor.
LEMMA LCorrelateKeeps ==
    ASSUME LInv, NEW i \in Incidents, NEW received \in Times, Correlate(i, received)
    PROVE  LInv'
<1>1. /\ clock' = clock /\ client' = client /\ touched' = touched \cup {i}
      /\ lastSeen' = [lastSeen EXCEPT ![i] = received] /\ received \in Times
      /\ received # None
      /\ status' \in [Incidents -> IncidentStatuses]
      /\ \A j \in Incidents : j # i => status'[j] = status[j]
  BY ListingFacts DEF Correlate, LInv, ListingTypeOK, IncidentStatuses
<1>2. /\ lastSeen \in [Incidents -> Times \cup {None}]
      /\ lastSeen'[i] = received
      /\ \A j \in Incidents : j # i => lastSeen'[j] = lastSeen[j]
  BY <1>1, ListingFacts DEF LInv, ListingTypeOK
<1>3. ListingTypeOK'
  BY <1>1, <1>2, ListingFacts DEF LInv, ListingTypeOK
<1>4. lastSeen[i] # None => received > lastSeen[i]
  BY DEF Correlate
<1>5. ShownInv'
  <2> SUFFICES ASSUME NEW j \in client.shown
               PROVE  client.before # None /\ lastSeen'[j] # None /\ lastSeen'[j] >= client.before
    BY <1>1 DEF ShownInv
  <2>1. /\ j \in Incidents /\ client.before # None /\ lastSeen[j] # None
        /\ lastSeen[j] >= client.before
        /\ client.before \in Times /\ lastSeen[j] \in Times
    BY <1>2 DEF LInv, ShownInv, Traversals
  <2>2. CASE j = i
    <3>1. lastSeen[j] \in Nat /\ client.before \in Nat /\ received \in Nat
      BY <2>1, <1>1, ListingFacts
    <3>2. lastSeen'[j] = received /\ received > lastSeen[j]
      BY <2>1, <2>2, <1>2, <1>4
    <3> QED  BY <2>1, <3>1, <3>2, <1>1
  <2>3. CASE j # i
    BY <2>1, <2>3, <1>2
  <2> QED  BY <2>2, <2>3
<1>6. PassedInv'
  BY <1>1, <1>2 DEF LInv, PassedInv, Excused, IsBefore
<1> QED  BY <1>1, <1>3, <1>5, <1>6 DEF LInv

\* An operator changes the status: the incident is touched.
LEMMA LTransitionKeeps ==
    ASSUME LInv, NEW i \in Incidents, NEW to \in IncidentStatuses, Transition(i, to)
    PROVE  LInv'
<1>1. /\ clock' = clock /\ client' = client /\ touched' = touched \cup {i}
      /\ lastSeen' = lastSeen /\ lastSeen[i] # None
      /\ status' \in [Incidents -> IncidentStatuses]
      /\ \A j \in Incidents : j # i => status'[j] = status[j]
  BY DEF Transition, IsFound, LInv, ListingTypeOK
<1>2. ListingTypeOK'
  BY <1>1 DEF LInv, ListingTypeOK
<1>3. ShownInv' /\ PassedInv'
  BY <1>1 DEF LInv, ShownInv, PassedInv, Excused, IsBefore
<1> QED  BY <1>1, <1>2, <1>3 DEF LInv

\* The time of a page's last incident.
LastOf(page) == CHOOSE t \in {lastSeen[i] : i \in page} : \A i \in page : t <= lastSeen[i]

\* It is that of one of its incidents, and no later than that of any other.
LEMMA LastOfPage ==
    ASSUME NEW page, page # {}, \A i \in page : lastSeen[i] \in Nat
    PROVE  (\E i \in page : LastOf(page) = lastSeen[i]) /\ \A i \in page : LastOf(page) <= lastSeen[i]
<1>1. PICK S : S = {lastSeen[i] : i \in page}
  OBVIOUS
<1>2. S \in SUBSET Nat /\ S # {}
  BY <1>1
<1>3. \E t \in S : \A n \in S : t <= n
  BY <1>2, LeastNatural
<1>4. \E t \in S : \A i \in page : t <= lastSeen[i]
  BY <1>1, <1>3
<1>5. LastOf(page) = CHOOSE t \in S : \A i \in page : t <= lastSeen[i]
  BY <1>1 DEF LastOf
<1>6. LastOf(page) \in S /\ \A i \in page : LastOf(page) <= lastSeen[i]
  BY <1>4, <1>5
<1> QED  BY <1>1, <1>6

\* A page that is not full has all rows.
LEMMA ShortPage ==
    ASSUME NEW rows \in SUBSET Incidents, NEW page \in SUBSET rows,
           IsPage(page, rows), Cardinality(page) < Limit
    PROVE  page = rows
<1>1. IsFiniteSet(rows) /\ IsFiniteSet(page)
  BY ListingFacts, FS_Subset
<1>2. Cardinality(rows) \in Nat /\ Cardinality(page) \in Nat
  BY <1>1, FS_CardinalityType
<1>3. Cardinality(page) = IF Cardinality(rows) < Limit THEN Cardinality(rows) ELSE Limit
  BY DEF IsPage
<1>4. Cardinality(page) = Cardinality(rows)
  BY <1>2, <1>3, ListingFacts
<1> QED  BY <1>1, <1>4, FS_Subset

\* The client reads a page.
LEMMA LReadPageKeeps ==
    ASSUME LInv, ReadPage
    PROVE  LInv'
<1>1. PICK rows : rows = Matching(client.filter, client.before)
  OBVIOUS
<1>2. PICK page \in SUBSET rows :
        /\ IsPage(page, rows)
        /\ client' =
             IF page = {}
             THEN [client EXCEPT !.phase = "done"]
             ELSE LET last == CHOOSE t \in {lastSeen[i] : i \in page} :
                                  \A i \in page : t <= lastSeen[i]
                  IN  [client EXCEPT
                         !.before = last,
                         !.shown = @ \cup page,
                         !.twice = @ \cup (client.shown \cap page),
                         !.cut = @ \cup {i \in rows \ page : lastSeen[i] = last},
                         !.phase = IF Cardinality(page) < Limit THEN "done" ELSE @]
  BY <1>1 DEF ReadPage
<1>3. /\ client.phase = "reading" /\ clock' = clock /\ lastSeen' = lastSeen
      /\ status' = status /\ touched' = touched
  BY DEF ReadPage
<1>4. /\ rows \in SUBSET Incidents
      /\ \A i \in rows : lastSeen[i] \in Times /\ lastSeen[i] \in Nat
      /\ \A i \in rows : client.before # None => lastSeen[i] < client.before
  BY <1>1, ListingFacts DEF Matching, IsBefore, LInv, ListingTypeOK
<1>5. \A i \in Incidents : i \in rows \/ Excused(i)
  BY <1>1, <1>3 DEF LInv, PassedInv, Excused, Matching, ListingTypeOK
<1>6. client \in Traversals
  BY DEF LInv
<1>7. CASE page = {}
  <2>1. client' = [client EXCEPT !.phase = "done"]
    BY <1>2, <1>7
  <2>2. client' \in Traversals /\ client'.filter = client.filter
        /\ client'.before = client.before /\ client'.shown = client.shown /\ client'.cut = client.cut
    BY <2>1, <1>6 DEF Traversals
  <2>3. page = rows
    <3>1. Cardinality(page) = 0
      BY <1>7, FS_EmptySet
    <3>2. Cardinality(page) < Limit
      BY <3>1, ListingFacts
    <3> QED  BY <1>2, <1>4, <3>2, ShortPage
  <2>4. \A i \in Incidents : Excused(i)
    BY <1>5, <1>7, <2>3
  <2>5. ListingTypeOK'
    BY <1>3, <2>2, ListingFacts DEF LInv, ListingTypeOK, Traversals
  <2>6. ShownInv' /\ PassedInv'
    BY <1>3, <2>2, <2>4 DEF LInv, ShownInv, PassedInv, Excused
  <2> QED  BY <2>2, <2>5, <2>6 DEF LInv
<1>8. CASE page # {}
  <2>1. PICK last : last = LastOf(page)
    OBVIOUS
  <2>2. (\E i \in page : last = lastSeen[i]) /\ \A i \in page : last <= lastSeen[i]
    <3>1. \A i \in page : lastSeen[i] \in Nat
      BY <1>4
    <3> QED  BY <1>8, <2>1, <3>1, LastOfPage
  <2>3. last \in Times /\ last \in Nat /\ last # None
        /\ (client.before # None => last < client.before)
    BY <2>2, <1>4, ListingFacts
  <2>4. client' = [client EXCEPT
                     !.before = last,
                     !.shown = @ \cup page,
                     !.twice = @ \cup (client.shown \cap page),
                     !.cut = @ \cup {i \in rows \ page : lastSeen[i] = last},
                     !.phase = IF Cardinality(page) < Limit THEN "done" ELSE @]
    BY <1>2, <1>8, <2>1 DEF LastOf
  <2>5. client.shown \cap page = {}
    <3> SUFFICES ASSUME NEW i \in page, i \in client.shown PROVE FALSE
      OBVIOUS
    <3>1. client.before # None /\ lastSeen[i] >= client.before /\ lastSeen[i] < client.before
      BY <1>4 DEF LInv, ShownInv
    <3>2. client.before \in Nat /\ lastSeen[i] \in Nat
      BY <3>1, <1>4, <1>6, ListingFacts DEF Traversals
    <3> QED  BY <3>1, <3>2
  <2>6. /\ client'.filter = client.filter /\ client'.before = last
        /\ client'.shown = client.shown \cup page /\ client'.twice = client.twice
        /\ client'.cut = client.cut \cup {i \in rows \ page : lastSeen[i] = last}
        /\ client'.phase = IF Cardinality(page) < Limit THEN "done" ELSE "reading"
    BY <1>3, <1>6, <2>4, <2>5 DEF Traversals
  <2>7. client' \in Traversals
    <3>1. client'.shown \in SUBSET Incidents /\ client'.cut \in SUBSET Incidents
      BY <1>4, <1>6, <2>6 DEF Traversals
    <3>2. client' = [filter |-> client'.filter, before |-> client'.before, shown |-> client'.shown,
                     twice |-> client'.twice, cut |-> client'.cut, phase |-> client'.phase]
      BY <1>6, <2>4 DEF Traversals
    <3>3. client'.filter \in IncidentStatuses \cup {None} /\ client'.twice = {}
          /\ client'.before \in Times \cup {None} /\ client'.phase \in {"reading", "done"}
      BY <1>6, <2>3, <2>6 DEF Traversals
    <3> QED  BY <3>1, <3>2, <3>3 DEF Traversals
  <2>8. ListingTypeOK'
    BY <1>3, <2>7, ListingFacts DEF LInv, ListingTypeOK, Traversals
  <2>9. ShownInv'
    <3> SUFFICES ASSUME NEW i \in client'.shown
                 PROVE  last # None /\ lastSeen[i] # None /\ lastSeen[i] >= last
      BY <1>3, <2>6 DEF ShownInv
    <3>1. CASE i \in page
      <4>1. lastSeen[i] \in Nat /\ lastSeen[i] \in Times /\ last <= lastSeen[i]
        BY <3>1, <1>4, <2>2
      <4> QED  BY <4>1, <2>3, ListingFacts
    <3>2. CASE i \in client.shown
      <4>1. i \in Incidents /\ client.before # None /\ lastSeen[i] # None
            /\ lastSeen[i] >= client.before
        BY <3>2, <1>6 DEF LInv, ShownInv, Traversals
      <4>2. client.before \in Nat /\ lastSeen[i] \in Nat
        BY <4>1, <1>6, ListingFacts DEF Traversals, LInv, ListingTypeOK
      <4> QED  BY <4>1, <4>2, <2>3
    <3> QED  BY <3>1, <3>2, <2>6
  <2>10. PassedInv'
    <3> SUFFICES ASSUME NEW i \in Incidents
                 PROVE  Excused(i)' \/ (client'.phase = "reading" /\ lastSeen[i] < last)
      BY <1>3, <2>6 DEF PassedInv, IsBefore
    <3>1. Excused(i) => Excused(i)'
      BY <1>3, <2>6 DEF Excused
    <3>2. CASE i \in page
      BY <3>2, <2>6 DEF Excused
    <3>3. CASE i \in rows \ page
      <4>1. Cardinality(page) < Limit => FALSE
        BY <1>2, <1>4, <3>3, ShortPage
      <4>2. \A j \in page : lastSeen[j] >= lastSeen[i]
        BY <1>2, <3>3 DEF IsPage
      <4>3. lastSeen[i] <= last /\ lastSeen[i] \in Nat
        BY <4>2, <2>2, <1>4, <3>3
      <4>4. CASE lastSeen[i] = last
        BY <4>4, <3>3, <2>6 DEF Excused
      <4>5. CASE lastSeen[i] # last
        BY <4>1, <4>3, <4>5, <2>3, <2>6
      <4> QED  BY <4>4, <4>5
    <3> QED  BY <1>5, <3>1, <3>2, <3>3
  <2> QED  BY <2>7, <2>8, <2>9, <2>10 DEF LInv
<1> QED  BY <1>7, <1>8

\* Every step keeps the invariant.
LEMMA LStepKeeps == LInv /\ [ListingNext]_listingVars => LInv'
<1> SUFFICES ASSUME LInv, [ListingNext]_listingVars PROVE LInv'
  OBVIOUS
<1>1. CASE UNCHANGED listingVars
  BY <1>1 DEF listingVars, LInv, ListingTypeOK, ShownInv, PassedInv, Excused, IsBefore, Traversals
<1>2. CASE ListingNext
  BY <1>2, LTickKeeps, LCorrelateKeeps, LTransitionKeeps, LReadPageKeeps DEF ListingNext
<1> QED  BY <1>1, <1>2

\* Whoever goes through all pages sees each incident that matched and was left
\* alone, unless a page was cut between incidents seen at the same time, and sees
\* none twice.
THEOREM ExactPages == ListingSpec => []PagesAreExact
<1>1. ListingInit => LInv
  BY LInitKeeps
<1>2. LInv /\ [ListingNext]_listingVars => LInv'
  BY LStepKeeps
<1>3. LInv => PagesAreExact
  <2> SUFFICES ASSUME LInv PROVE PagesAreExact
    OBVIOUS
  <2>1. ListingTypeOK /\ NothingTwice
    BY DEF LInv, Traversals, NothingTwice
  <2>2. PagesAreComplete
    BY DEF LInv, PassedInv, Excused, PagesAreComplete
  <2> QED  BY <2>1, <2>2 DEF PagesAreExact
<1> QED  BY <1>1, <1>2, <1>3, PTL DEF ListingSpec
=============================================================================
