---------------------------- MODULE RuntimeProofs -----------------------------
(***************************************************************************)
(* Proofs about the schedulers, the life cycle of the processes and the Go *)
(* SDK's client, for any number of events, schedulers, attempts and faults, *)
(* for every configuration, and for any callers, batches and subscriptions. *)
(***************************************************************************)
EXTENDS Scheduler, Processes, SDKClient, TLAPS

-----------------------------------------------------------------------------
\* After Claim a tick works on what it claimed.
Working(c) == pc[c] \notin {"idle", "claim"}

\* A row that names a tick is claimed, and not settled since that tick claimed it.
SeenIsCurrent ==
    \A e \in SchedEvent, c \in Ticker :
        holder[e] = c => status[e] = "claimed" /\ Working(c) /\ seen[c][e] = retryCount[e]

\* A row that can still be settled has an attempt left.
AttemptLeft == \A e \in SchedEvent : status[e] \in {"absent", "pending", "claimed"} => retryCount[e] < MaxAttempts

\* Failures are counted before they are recorded.
FailsCounted ==
    \A e \in SchedEvent :
        retryCount[e] <= fails[e] /\ \A c \in Ticker : seen[c][e] <= fails[e]

\* Only an event that was just published is being settled.
CurrentOnly == \A c \in Ticker : pc[c] \in {"idle", "claim", "loop"} => cur[c] = {}

\* What a tick is about to record has happened.
CurrentEarned ==
    \A c \in Ticker : \A e \in cur[c] :
        /\ pc[c] = "mark" => e \in published
        /\ pc[c] = "retry" => seen[c][e] + 1 < MaxAttempts /\ seen[c][e] + 1 <= fails[e]
        /\ pc[c] = "fail" => MaxAttempts <= seen[c][e] + 1 /\ seen[c][e] + 1 <= fails[e]

\* The event was claimed in a tick that is still going on.
InHand(e) == \E c \in Ticker : Working(c) /\ e \in batch[c] \cup cur[c]

\* An event that was claimed or published leaves the claimed state for pending
\* only through a failure.
PendingAfterFailure ==
    \A e \in SchedEvent :
        status[e] \in {"absent", "pending", "cancelled"} /\ (e \in published \/ InHand(e)) => fails[e] > 0

IInv ==
    /\ TypeOK /\ OutcomeEarned /\ SeenIsCurrent /\ AttemptLeft /\ FailsCounted
    /\ CurrentOnly /\ CurrentEarned /\ PendingAfterFailure

-----------------------------------------------------------------------------
(* The rows: Save, Cancel and the clock.                                   *)

LEMMA SaveKeeps ==
    ASSUME IInv, NEW e \in SchedEvent, Save(e) \/ Cancel(e)
    PROVE  IInv'
<1>1. PICK s \in {"pending", "cancelled"} :
         /\ status' = [status EXCEPT ![e] = s]
         /\ status[e] \in {"absent", "pending"} /\ (s = "cancelled" => status[e] = "pending")
  BY Zenon DEF Save, Cancel, Work!Add, Work!Withdraw
<1>2. UNCHANGED <<store, holder, live, due, retryCount, locals, published, fails, faults>>
  BY Zenon DEF Save, Cancel, Work!Add, Work!Withdraw
<1>3. TypeOK'
  BY Zenon, <1>1, <1>2 DEF IInv, TypeOK, Work!WorkTypeOK, locals, Terminal
<1>4. \A f \in SchedEvent : status'[f] = IF f = e THEN s ELSE status[f]
  BY Zenon, <1>1 DEF IInv, TypeOK, Work!WorkTypeOK
<1>5. PendingAfterFailure'
  BY Zenon, <1>1, <1>2, <1>4 DEF IInv, PendingAfterFailure, InHand, Working, locals
<1>6. OutcomeEarned'
  BY Zenon, <1>1, <1>2, <1>4 DEF IInv, OutcomeEarned, PendingAfterFailure
<1>7. AttemptLeft'
  BY Zenon, <1>1, <1>2, <1>4 DEF IInv, AttemptLeft
<1>8. FailsCounted' /\ CurrentOnly' /\ CurrentEarned'
  BY Zenon, <1>2 DEF IInv, FailsCounted, CurrentOnly, CurrentEarned, locals
<1>9. SeenIsCurrent'
  BY Zenon, <1>1, <1>2, <1>4 DEF IInv, SeenIsCurrent, Working, locals
<1>. QED
  BY Zenon, <1>3, <1>5, <1>6, <1>7, <1>8, <1>9 DEF IInv

\* Time only changes due and live, which decide what may be claimed.
LEMMA ClockKeeps ==
    ASSUME IInv, due' \in [SchedEvent -> BOOLEAN], live' \in [SchedEvent -> BOOLEAN],
           faults' \in 0 .. MaxFaults,
           UNCHANGED <<store, status, holder, retryCount, locals, published, fails>>
    PROVE  IInv'
<1>1. TypeOK'
  BY Zenon DEF IInv, TypeOK, Work!WorkTypeOK, locals
<1>2. PendingAfterFailure'
  BY Zenon DEF IInv, PendingAfterFailure, InHand, Working, locals
<1>3. OutcomeEarned' /\ AttemptLeft'
  BY Zenon DEF IInv, OutcomeEarned, AttemptLeft
<1>4. SeenIsCurrent' /\ FailsCounted' /\ CurrentOnly' /\ CurrentEarned'
  BY Zenon DEF IInv, SeenIsCurrent, FailsCounted, CurrentOnly, CurrentEarned, Working, locals
<1>. QED
  BY Zenon, <1>1, <1>2, <1>3, <1>4 DEF IInv

\* The bound on faults.
LEMMA FaultyType ==
    ASSUME IInv, Faulty
    PROVE  faults' \in 0 .. MaxFaults
  BY SchedulerAssumption DEF IInv, TypeOK, Faulty

\* The retry a Rust worker schedules counts a failure and touches no claim.
LEMMA RustRetryKeeps ==
    ASSUME IInv, NEW e \in SchedEvent, RustRetry(e)
    PROVE  IInv'
<1>1. /\ UNCHANGED <<store, status, holder, live, locals, faults>>
      /\ status[e] = "pending" /\ retryCount[e] + 1 < MaxAttempts
      /\ due' = [due EXCEPT ![e] = FALSE]
      /\ published \subseteq published' /\ published' \subseteq published \cup {e}
  BY Zenon DEF RustRetry
<1>2. /\ retryCount \in [SchedEvent -> Nat] /\ fails \in [SchedEvent -> Nat] /\ MaxAttempts \in Nat
      /\ seen \in [Ticker -> [SchedEvent -> Nat]]
  BY SchedulerAssumption DEF IInv, TypeOK
<1>3. \A f \in SchedEvent : /\ retryCount'[f] = IF f = e THEN retryCount[e] + 1 ELSE retryCount[f]
                            /\ fails'[f] = IF f = e THEN fails[e] + 1 ELSE fails[f]
  BY Zenon, <1>2 DEF RustRetry
<1>4. fails' \in [SchedEvent -> Nat] /\ \A f \in SchedEvent : fails[f] <= fails'[f]
  BY <1>2 DEF RustRetry
<1>5. TypeOK'
  <2>1. retryCount[e] + 1 \in 0 .. MaxAttempts
    BY <1>1, <1>2
  <2>2. retryCount' \in [SchedEvent -> 0 .. MaxAttempts]
    BY Zenon, <2>1 DEF RustRetry, IInv, TypeOK
  <2>3. due' \in [SchedEvent -> BOOLEAN] /\ published' \subseteq SchedEvent
    BY Zenon, <1>1 DEF IInv, TypeOK
  <2>. QED
    BY Zenon, <1>1, <1>4, <2>2, <2>3 DEF IInv, TypeOK, Work!WorkTypeOK, locals
<1>6. PendingAfterFailure'
  <2>1. fails'[e] > 0
    BY <1>2, <1>3
  <2>2. \A f \in SchedEvent : InHand(f)' <=> InHand(f)
    BY Zenon, <1>1 DEF InHand, Working, locals
  <2>. QED
    BY Zenon, <1>1, <1>3, <2>1, <2>2 DEF IInv, PendingAfterFailure
<1>7. OutcomeEarned' /\ AttemptLeft'
  BY <1>1, <1>2, <1>3, <1>4 DEF IInv, OutcomeEarned, AttemptLeft
<1>8. SeenIsCurrent' /\ CurrentOnly'
  BY Zenon, <1>1, <1>3 DEF IInv, SeenIsCurrent, CurrentOnly, Working, locals
<1>9. FailsCounted'
  BY <1>1, <1>2, <1>3 DEF IInv, FailsCounted, locals
<1>10. CurrentEarned'
  <2>1. ASSUME NEW d \in Ticker, NEW f \in cur[d]
        PROVE  /\ f \in SchedEvent /\ seen[d][f] \in Nat /\ fails[f] \in Nat /\ fails'[f] \in Nat
               /\ fails[f] <= fails'[f]
    BY Zenon, <1>2, <1>4 DEF IInv, TypeOK
  <2>. QED
    BY <1>1, <2>1 DEF IInv, CurrentEarned, locals
<1>. QED
  BY Zenon, <1>5, <1>6, <1>7, <1>8, <1>9, <1>10 DEF IInv

-----------------------------------------------------------------------------
(* A tick.                                                                 *)

LEMMA GetDueKeeps ==
    ASSUME IInv, NEW c \in Ticker, GetDue(c)
    PROVE  IInv'
<1>1. /\ pc[c] = "idle" /\ pc' = [pc EXCEPT ![c] = "claim"]
      /\ UNCHANGED <<store, rows, cur, seen, published, fails, faults>>
      /\ batch' = [batch EXCEPT ![c] = Due] /\ Due \subseteq SchedEvent
  BY Zenon DEF GetDue, Goto, Due
<1>2. TypeOK'
  BY Zenon, <1>1 DEF IInv, TypeOK, Work!WorkTypeOK, rows, Phase
<1>3. /\ \A d \in Ticker : pc'[d] = IF d = c THEN "claim" ELSE pc[d]
      /\ \A d \in Ticker : d # c => batch'[d] = batch[d]
  BY Zenon, <1>1 DEF IInv, TypeOK
<1>4. PendingAfterFailure'
  BY <1>1, <1>3 DEF IInv, PendingAfterFailure, InHand, Working, rows
<1>5. OutcomeEarned' /\ AttemptLeft' /\ FailsCounted'
  BY Zenon, <1>1 DEF IInv, OutcomeEarned, AttemptLeft, FailsCounted, rows
<1>6. SeenIsCurrent' /\ CurrentOnly' /\ CurrentEarned'
  BY <1>1, <1>3 DEF IInv, SeenIsCurrent, CurrentOnly, CurrentEarned, Working, rows
<1>. QED
  BY Zenon, <1>2, <1>4, <1>5, <1>6 DEF IInv

\* A claim of any rows that are due, by a tick that goes on to work on them or
\* by one that ends.
LEMMA ClaimKeeps ==
    ASSUME IInv, NEW c \in Ticker, Claim(c)
    PROVE  IInv'
<1>. DEFINE S == batch[c] \cap Due
<1>1. /\ pc[c] = "claim" /\ pc' = [pc EXCEPT ![c] = "loop"] /\ TakeClaim(c, S)
      /\ batch' = [batch EXCEPT ![c] = S] /\ seen' = [seen EXCEPT ![c] = retryCount]
      /\ UNCHANGED <<store, cur, published, fails, faults>>
  BY Zenon DEF Claim, Goto
<1>2. S \subseteq SchedEvent /\ \A e \in S : status[e] \in {"pending", "claimed"}
  BY Zenon DEF Due
<1>. HIDE DEF S
<1>3. /\ \A e \in SchedEvent : /\ status'[e] = IF e \in S THEN "claimed" ELSE status[e]
                               /\ holder'[e] = IF e \in S THEN c ELSE holder[e]
      /\ due' = due /\ retryCount' = retryCount
  BY Zenon, <1>1 DEF TakeClaim
<1>4. retryCount \in [SchedEvent -> Nat]
  BY SchedulerAssumption DEF IInv, TypeOK
<1>5. TypeOK'
  <2>1. Work!WorkTypeOK'
    BY Zenon, <1>1, <1>2 DEF IInv, TypeOK, Work!WorkTypeOK, TakeClaim
  <2>2. seen' \in [Ticker -> [SchedEvent -> Nat]]
    BY Zenon, <1>1, <1>4 DEF IInv, TypeOK
  <2>. QED
    BY Zenon, <1>1, <1>2, <1>3, <2>1, <2>2 DEF IInv, TypeOK, Phase
<1>6. /\ \A d \in Ticker : pc'[d] = IF d = c THEN "loop" ELSE pc[d]
      /\ \A d \in Ticker : seen'[d] = IF d = c THEN retryCount ELSE seen[d]
      /\ \A d \in Ticker : batch'[d] = IF d = c THEN S ELSE batch[d]
  BY Zenon, <1>1 DEF IInv, TypeOK
<1>7. PendingAfterFailure'
  BY <1>1, <1>2, <1>3, <1>6 DEF IInv, PendingAfterFailure, InHand, Working, CurrentOnly
<1>8. OutcomeEarned' /\ AttemptLeft'
  BY Zenon, <1>1, <1>2, <1>3 DEF IInv, OutcomeEarned, AttemptLeft
<1>9. SeenIsCurrent' /\ FailsCounted'
  BY <1>1, <1>3, <1>6 DEF IInv, SeenIsCurrent, FailsCounted, Working
<1>10. CurrentOnly' /\ CurrentEarned'
  BY <1>1, <1>6 DEF IInv, CurrentOnly, CurrentEarned
<1>. QED
  BY Zenon, <1>5, <1>7, <1>8, <1>9, <1>10 DEF IInv

LEMMA ClaimErrorKeeps ==
    ASSUME IInv, NEW c \in Ticker, ClaimError(c)
    PROVE  IInv'
<1>1. PICK S \in SUBSET (batch[c] \cap Due) : TakeClaim(Gone, S)
  BY Zenon DEF ClaimError
<1>2. /\ pc[c] = "claim" /\ pc' = [pc EXCEPT ![c] = "idle"] /\ batch' = [batch EXCEPT ![c] = {}]
      /\ UNCHANGED <<store, cur, seen, published, fails>> /\ faults' \in 0 .. MaxFaults
  BY Zenon, FaultyType DEF ClaimError, Goto
<1>3. S \subseteq SchedEvent /\ \A e \in S : status[e] \in {"pending", "claimed"}
  BY Zenon DEF Due
<1>4. /\ \A e \in SchedEvent : /\ status'[e] = IF e \in S THEN "claimed" ELSE status[e]
                               /\ holder'[e] = IF e \in S THEN Gone ELSE holder[e]
      /\ due' = due /\ retryCount' = retryCount
  BY Zenon, <1>1 DEF TakeClaim
<1>5. TypeOK'
  <2>1. Work!WorkTypeOK'
    BY Zenon, <1>1, <1>3 DEF IInv, TypeOK, Work!WorkTypeOK, TakeClaim
  <2>. QED
    BY Zenon, <1>2, <1>4, <2>1 DEF IInv, TypeOK, Phase
<1>6. /\ \A d \in Ticker : pc'[d] = IF d = c THEN "idle" ELSE pc[d]
      /\ \A d \in Ticker : batch'[d] = IF d = c THEN {} ELSE batch[d]
  BY Zenon, <1>2 DEF IInv, TypeOK
<1>7. PendingAfterFailure'
  BY <1>2, <1>4, <1>6 DEF IInv, PendingAfterFailure, InHand, Working
<1>8. OutcomeEarned' /\ AttemptLeft' /\ FailsCounted'
  BY Zenon, <1>2, <1>3, <1>4 DEF IInv, OutcomeEarned, AttemptLeft, FailsCounted
<1>9. SeenIsCurrent'
  BY <1>2, <1>4, <1>6, SchedulerAssumption DEF IInv, SeenIsCurrent, Working
<1>10. CurrentOnly' /\ CurrentEarned'
  BY <1>2, <1>6 DEF IInv, CurrentOnly, CurrentEarned
<1>. QED
  BY Zenon, <1>5, <1>7, <1>8, <1>9, <1>10 DEF IInv

\* Publishing moves an event from the batch to be settled, and what the broker
\* answered decides how.
LEMMA ReleaseKeeps ==
    ASSUME IInv, NEW c \in Ticker, NEW e \in SchedEvent, ReleaseOk(c, e) \/ ReleaseFails(c, e)
    PROVE  IInv'
<1>1. /\ pc[c] = "loop" /\ e \in batch[c] /\ UNCHANGED <<store, rows, seen, faults>>
      /\ batch' = [batch EXCEPT ![c] = @ \ {e}] /\ cur' = [cur EXCEPT ![c] = {e}]
  BY Zenon DEF ReleaseOk, ReleaseFails
<1>2. PICK ph \in {"mark", "retry", "fail"} :
         /\ pc' = [pc EXCEPT ![c] = ph]
         /\ ph = "mark" => published' = published \cup {e} /\ fails' = fails
         /\ ph # "mark" => /\ published' = published \/ published' = published \cup {e}
                           /\ fails' = [fails EXCEPT ![e] = @ + 1]
         /\ ph = "retry" => ~(seen[c][e] + 1 >= MaxAttempts)
         /\ ph = "fail" => seen[c][e] + 1 >= MaxAttempts
  BY Zenon DEF ReleaseOk, ReleaseFails, Goto
<1>3. /\ seen \in [Ticker -> [SchedEvent -> Nat]] /\ fails \in [SchedEvent -> Nat]
      /\ MaxAttempts \in Nat /\ seen[c][e] \in Nat
  BY SchedulerAssumption DEF IInv, TypeOK
<1>4. fails' \in [SchedEvent -> Nat] /\ \A f \in SchedEvent : fails[f] <= fails'[f]
  BY <1>2, <1>3
<1>5. TypeOK'
  BY <1>1, <1>2, <1>4 DEF IInv, TypeOK, Work!WorkTypeOK, rows, Phase
<1>6. /\ \A d \in Ticker : pc'[d] = IF d = c THEN ph ELSE pc[d]
      /\ \A d \in Ticker : batch'[d] = IF d = c THEN batch[c] \ {e} ELSE batch[d]
      /\ \A d \in Ticker : cur'[d] = IF d = c THEN {e} ELSE cur[d]
  BY Zenon, <1>1, <1>2 DEF IInv, TypeOK
<1>7. published \subseteq published' /\ published' \subseteq published \cup {e}
  BY Zenon, <1>2
<1>8. PendingAfterFailure'
  <2>1. SUFFICES ASSUME NEW f \in SchedEvent, status[f] \in {"absent", "pending", "cancelled"},
                        f \in published' \/ InHand(f)'
                 PROVE  fails[f] > 0
    BY <1>1, <1>3, <1>4 DEF PendingAfterFailure, rows
  <2>2. InHand(e)
    BY Zenon, <1>1 DEF InHand, Working
  <2>3. InHand(f)' => InHand(f)
    BY <1>1, <1>2, <1>6 DEF InHand, Working
  <2>. QED
    BY Zenon, <1>7, <2>1, <2>2, <2>3 DEF IInv, PendingAfterFailure
<1>9. OutcomeEarned'
  <2>1. ASSUME NEW f \in SchedEvent, status[f] = "cancelled", f \in published'
        PROVE  fails'[f] > 0
    BY Zenon, <1>1, <1>5, <1>8, <2>1 DEF PendingAfterFailure, rows
  <2>2. \A f \in SchedEvent : /\ status[f] = "released" => f \in published'
                              /\ status[f] = "failed" => fails'[f] >= MaxAttempts
    BY <1>3, <1>4, <1>7 DEF IInv, OutcomeEarned
  <2>. QED
    BY Zenon, <1>1, <2>1, <2>2 DEF OutcomeEarned, rows
<1>10. AttemptLeft' /\ SeenIsCurrent'
  BY <1>1, <1>6 DEF IInv, AttemptLeft, SeenIsCurrent, Working, rows
<1>11. FailsCounted'
  <2>1. retryCount \in [SchedEvent -> 0 .. MaxAttempts]
    BY Zenon DEF IInv, TypeOK
  <2>. QED
    BY <1>1, <1>3, <1>4, <2>1 DEF IInv, FailsCounted, rows
<1>12. CurrentOnly'
  BY Zenon, <1>2, <1>6 DEF IInv, CurrentOnly
<1>13. CurrentEarned'
  <2>1. ASSUME NEW d \in Ticker, NEW f \in cur'[d], d # c
        PROVE  /\ pc'[d] = "mark" => f \in published'
               /\ pc'[d] = "retry" => seen'[d][f] + 1 < MaxAttempts /\ seen'[d][f] + 1 <= fails'[f]
               /\ pc'[d] = "fail" => MaxAttempts <= seen'[d][f] + 1 /\ seen'[d][f] + 1 <= fails'[f]
    <3>1. f \in cur[d] /\ f \in SchedEvent /\ pc'[d] = pc[d] /\ seen' = seen
      BY Zenon, <1>1, <1>6, <2>1 DEF IInv, TypeOK
    <3>2. seen[d][f] \in Nat /\ fails[f] \in Nat /\ fails'[f] \in Nat /\ fails[f] <= fails'[f]
      BY Zenon, <1>3, <1>4, <3>1
    <3>. QED
      BY <1>7, <3>1, <3>2 DEF IInv, CurrentEarned
  <2>2. ph # "mark" => seen[c][e] + 1 <= fails'[e]
    <3>1. ph # "mark" => fails'[e] = fails[e] + 1
      BY Zenon, <1>2, <1>3
    <3>2. seen[c][e] <= fails[e] /\ fails[e] \in Nat
      BY Zenon, <1>3 DEF IInv, FailsCounted
    <3>. QED
      BY <1>3, <3>1, <3>2
  <2>3. /\ ph = "mark" => e \in published'
        /\ ph = "retry" => seen[c][e] + 1 < MaxAttempts /\ seen[c][e] + 1 <= fails'[e]
        /\ ph = "fail" => MaxAttempts <= seen[c][e] + 1 /\ seen[c][e] + 1 <= fails'[e]
    BY <1>2, <1>3, <2>2
  <2>. QED
    BY <1>1, <1>6, <2>1, <2>3 DEF CurrentEarned
<1>. QED
  BY Zenon, <1>5, <1>8, <1>9, <1>10, <1>11, <1>12, <1>13 DEF IInv

\* A tick drops the event it was settling and stores nothing.
LEMMA DropKeeps ==
    ASSUME IInv, NEW c \in Ticker, Working(c),
           pc' = [pc EXCEPT ![c] = "loop"], cur' = [cur EXCEPT ![c] = {}],
           UNCHANGED <<store, rows, batch, seen, published, fails>>, faults' \in 0 .. MaxFaults
    PROVE  IInv'
<1>1. TypeOK'
  BY Zenon DEF IInv, TypeOK, Work!WorkTypeOK, rows, Phase
<1>2. \A d \in Ticker : /\ pc'[d] = IF d = c THEN "loop" ELSE pc[d]
                        /\ cur'[d] = IF d = c THEN {} ELSE cur[d]
  BY Zenon DEF IInv, TypeOK
<1>3. PendingAfterFailure'
  BY <1>2 DEF IInv, PendingAfterFailure, InHand, Working, rows
<1>4. OutcomeEarned' /\ AttemptLeft' /\ FailsCounted'
  BY Zenon DEF IInv, OutcomeEarned, AttemptLeft, FailsCounted, rows
<1>5. SeenIsCurrent' /\ CurrentOnly' /\ CurrentEarned'
  BY <1>2 DEF IInv, SeenIsCurrent, CurrentOnly, CurrentEarned, Working, rows
<1>. QED
  BY Zenon, <1>1, <1>3, <1>4, <1>5 DEF IInv

\* A settlement records the outcome of the event in hand, if the claim holds.
LEMMA SettleKeeps ==
    ASSUME IInv, NEW c \in Ticker, MarkReleased(c) \/ ScheduleRetry(c) \/ MarkFailed(c)
    PROVE  IInv'
<1>1. PICK s \in {"released", "pending", "failed"}, more \in {0, 1} :
         /\ SettleTo(c, s, FALSE, more)
         /\ s = "released" => pc[c] = "mark" /\ more = 0
         /\ s = "pending" => pc[c] = "retry" /\ more = 1
         /\ s = "failed" => pc[c] = "fail" /\ more = 1
  BY Zenon DEF MarkReleased, ScheduleRetry, MarkFailed
<1>2. /\ Working(c) /\ cur' = [cur EXCEPT ![c] = {}] /\ pc' = [pc EXCEPT ![c] = "loop"]
      /\ UNCHANGED <<store, batch, seen, published, fails, faults>>
  BY Zenon, <1>1 DEF SettleTo, Goto, Working
<1>3. CASE UNCHANGED rows
  BY Zenon, <1>2, <1>3, DropKeeps DEF IInv, TypeOK
<1>4. ASSUME NEW e \in cur[c], Holds(c, e),
             status' = [status EXCEPT ![e] = s], holder' = [holder EXCEPT ![e] = NoClaimant],
             live' = [live EXCEPT ![e] = FALSE], due' = [due EXCEPT ![e] = FALSE],
             retryCount' = [retryCount EXCEPT ![e] = @ + more]
      PROVE  IInv'
  <2>1. /\ e \in SchedEvent /\ status[e] = "claimed" /\ holder[e] = c
        /\ retryCount[e] \in Nat /\ fails[e] \in Nat /\ seen[c][e] = retryCount[e]
        /\ retryCount[e] < MaxAttempts /\ MaxAttempts \in Nat
    BY <1>4, SchedulerAssumption DEF IInv, TypeOK, Holds, SeenIsCurrent, AttemptLeft
  <2>2. /\ s = "released" => e \in published
        /\ s = "pending" => retryCount[e] + 1 < MaxAttempts
        /\ s = "failed" => MaxAttempts <= fails[e]
        /\ s # "released" => retryCount[e] + 1 <= fails[e] /\ more = 1
        /\ s = "released" => more = 0
    <3>1. s = "released" => e \in published /\ more = 0
      BY Zenon, <1>1, <1>4 DEF IInv, CurrentEarned
    <3>2. s = "pending" => retryCount[e] + 1 < MaxAttempts /\ retryCount[e] + 1 <= fails[e] /\ more = 1
      BY Zenon, <1>1, <1>4, <2>1 DEF IInv, CurrentEarned
    <3>3. s = "failed" => MaxAttempts <= retryCount[e] + 1 /\ retryCount[e] + 1 <= fails[e] /\ more = 1
      BY Zenon, <1>1, <1>4, <2>1 DEF IInv, CurrentEarned
    <3>. QED
      BY <2>1, <3>1, <3>2, <3>3
  <2>3. /\ \A f \in SchedEvent : /\ status'[f] = IF f = e THEN s ELSE status[f]
                                 /\ holder'[f] = IF f = e THEN NoClaimant ELSE holder[f]
                                 /\ retryCount'[f] = IF f = e THEN retryCount[e] + more ELSE retryCount[f]
        /\ \A d \in Ticker : /\ pc'[d] = IF d = c THEN "loop" ELSE pc[d]
                             /\ cur'[d] = IF d = c THEN {} ELSE cur[d]
    BY Zenon, <1>2, <1>4, <2>1 DEF IInv, TypeOK, Work!WorkTypeOK
  <2>4. TypeOK'
    <3>1. retryCount[e] + more \in 0 .. MaxAttempts
      BY <2>1, <2>2
    <3>2. retryCount' \in [SchedEvent -> 0 .. MaxAttempts]
      BY Zenon, <1>4, <2>1, <3>1 DEF IInv, TypeOK
    <3>3. Work!WorkTypeOK'
      BY Zenon, <1>1, <1>4 DEF IInv, TypeOK, Work!WorkTypeOK, Terminal
    <3>. QED
      BY Zenon, <1>2, <1>4, <3>2, <3>3 DEF IInv, TypeOK, Phase
  <2>5. \A f \in SchedEvent : InHand(f)' => InHand(f)
    BY <1>2, <2>3 DEF InHand, Working
  <2>6. PendingAfterFailure'
    BY <1>1, <1>2, <2>1, <2>2, <2>3, <2>5 DEF IInv, PendingAfterFailure
  <2>7. OutcomeEarned'
    BY <1>1, <1>2, <2>1, <2>2, <2>3 DEF IInv, OutcomeEarned
  <2>8. AttemptLeft'
    BY Zenon, <1>1, <2>1, <2>2, <2>3 DEF IInv, AttemptLeft
  <2>9. SeenIsCurrent'
    BY <1>2, <2>3, SchedulerAssumption DEF IInv, SeenIsCurrent, Working
  <2>10. FailsCounted'
    <3>1. retryCount[e] + more <= fails[e]
      BY <2>1, <2>2 DEF IInv, FailsCounted
    <3>. QED
      BY Zenon, <1>2, <2>3, <3>1 DEF IInv, FailsCounted
  <2>11. CurrentOnly' /\ CurrentEarned'
    BY <1>2, <2>3 DEF IInv, CurrentOnly, CurrentEarned
  <2>. QED
    BY Zenon, <2>4, <2>6, <2>7, <2>8, <2>9, <2>10, <2>11 DEF IInv
<1>. QED
  BY Zenon, <1>1, <1>3, <1>4 DEF SettleTo

LEMMA ReturnKeeps ==
    ASSUME IInv, NEW c \in Ticker, Return(c), faults' \in 0 .. MaxFaults
    PROVE  IInv'
<1>1. /\ UNCHANGED <<store, status, live, due, retryCount, published, fails>>
      /\ holder' = [e \in SchedEvent |-> IF holder[e] = c THEN Gone ELSE holder[e]]
      /\ pc' = [pc EXCEPT ![c] = "idle"] /\ batch' = [batch EXCEPT ![c] = {}]
      /\ cur' = [cur EXCEPT ![c] = {}] /\ seen' = [seen EXCEPT ![c] = [e \in SchedEvent |-> 0]]
  BY Zenon DEF Return, Work!Abandon
<1>2. /\ \A d \in Ticker : /\ pc'[d] = IF d = c THEN "idle" ELSE pc[d]
                           /\ batch'[d] = IF d = c THEN {} ELSE batch[d]
                           /\ cur'[d] = IF d = c THEN {} ELSE cur[d]
                           /\ seen'[d] = IF d = c THEN [e \in SchedEvent |-> 0] ELSE seen[d]
      /\ fails \in [SchedEvent -> Nat]
  BY Zenon, <1>1 DEF IInv, TypeOK
<1>3. TypeOK'
  <2>1. Work!WorkTypeOK'
    BY Zenon, <1>1 DEF IInv, TypeOK, Work!WorkTypeOK
  <2>. QED
    BY Zenon, <1>1, <2>1 DEF IInv, TypeOK, Phase
<1>4. PendingAfterFailure'
  BY <1>1, <1>2 DEF IInv, PendingAfterFailure, InHand, Working
<1>5. OutcomeEarned' /\ AttemptLeft'
  BY Zenon, <1>1 DEF IInv, OutcomeEarned, AttemptLeft
<1>6. SeenIsCurrent'
  BY <1>1, <1>2, SchedulerAssumption DEF IInv, SeenIsCurrent, Working
<1>7. FailsCounted'
  BY <1>1, <1>2 DEF IInv, FailsCounted
<1>8. CurrentOnly' /\ CurrentEarned'
  BY <1>1, <1>2 DEF IInv, CurrentOnly, CurrentEarned
<1>. QED
  BY Zenon, <1>3, <1>4, <1>5, <1>6, <1>7, <1>8 DEF IInv

-----------------------------------------------------------------------------
LEMMA InitIInv == Init => IInv
<1>. SUFFICES ASSUME Init PROVE IInv
  BY Zenon
<1>1. TypeOK
  BY SchedulerAssumption DEF Init, Work!WorkInit, TypeOK, Work!WorkTypeOK, Phase
<1>2. OutcomeEarned /\ PendingAfterFailure
  BY Zenon DEF Init, Work!WorkInit, OutcomeEarned, PendingAfterFailure, InHand
<1>3. SeenIsCurrent /\ AttemptLeft /\ FailsCounted
  BY SchedulerAssumption DEF Init, Work!WorkInit, SeenIsCurrent, AttemptLeft, FailsCounted
<1>4. CurrentOnly /\ CurrentEarned
  BY Zenon DEF Init, CurrentOnly, CurrentEarned
<1>. QED
  BY Zenon, <1>1, <1>2, <1>3, <1>4 DEF IInv

LEMMA StepKeeps == IInv /\ [Next]_vars => IInv'
<1>. SUFFICES ASSUME IInv, [Next]_vars PROVE IInv'
  BY Zenon
<1>0. faults \in 0 .. MaxFaults /\ due \in [SchedEvent -> BOOLEAN] /\ live \in [SchedEvent -> BOOLEAN]
  BY Zenon DEF IInv, TypeOK, Work!WorkTypeOK
<1>1. ASSUME NEW e \in SchedEvent, Save(e) \/ Cancel(e)
      PROVE  IInv'
  BY Zenon, <1>1, SaveKeeps
<1>2. ASSUME NEW e \in SchedEvent, BecomeDue(e)
      PROVE  IInv'
  BY Zenon, <1>0, <1>2, ClockKeeps DEF BecomeDue
<1>3. ASSUME NEW e \in SchedEvent, ExpireGone(e) \/ ExpireSlow(e)
      PROVE  IInv'
  <2>1. faults' \in 0 .. MaxFaults
    BY Zenon, <1>0, <1>3, FaultyType DEF ExpireGone, ExpireSlow
  <2>2. /\ live' = [live EXCEPT ![e] = FALSE]
        /\ UNCHANGED <<store, status, holder, due, retryCount, locals, published, fails>>
    BY Zenon, <1>3 DEF ExpireGone, ExpireSlow, Work!Expire
  <2>. QED
    BY Zenon, <1>0, <2>1, <2>2, ClockKeeps
<1>4. ASSUME NEW c \in Ticker, Tick(c)
      PROVE  IInv'
  <2>1. CASE TickDone(c)
    BY Zenon, <1>0, <2>1, ReturnKeeps DEF TickDone
  <2>. QED
    BY Zenon, <1>4, <2>1, GetDueKeeps, ClaimKeeps, SettleKeeps, ReleaseKeeps DEF Tick
<1>5. ASSUME NEW c \in Ticker, ClaimError(c) \/ StatementError(c) \/ Crash(c)
      PROVE  IInv'
  <2>1. CASE StatementError(c)
    BY Zenon, <2>1, FaultyType, DropKeeps DEF StatementError, Goto, Working
  <2>2. CASE Crash(c)
    BY Zenon, <2>2, FaultyType, ReturnKeeps DEF Crash
  <2>. QED
    BY Zenon, <1>5, <2>1, <2>2, ClaimErrorKeeps
<1>6. CASE UNCHANGED vars
  BY Zenon, <1>0, <1>6, ClockKeeps DEF vars, rows
<1>. QED
  BY Zenon, <1>1, <1>2, <1>3, <1>4, <1>5, <1>6, RustRetryKeeps DEF Next, Fault

LEMMA Inductive == Spec => []IInv
  BY InitIInv, StepKeeps, PTL DEF Spec

\* Whatever crashes, lapsed claims and late settlements do to the schedulers, a
\* released event is in the stream, a failed one has failed MaxAttempts times,
\* and a cancelled one is in the stream only after a publish reported as failed.
THEOREM OutcomesHold == Spec => []OutcomesCorrect
<1>1. IInv => OutcomesCorrect
  BY Zenon DEF IInv, OutcomesCorrect
<1>. QED
  BY <1>1, Inductive, PTL

\* Every step of GetDue, Claim, MarkReleased, ScheduleRetry, MarkFailed, Save and
\* Cancel is a step of the claim protocol, or changes no row.
LEMMA StepRefines == IInv /\ [Next]_vars => [Work!WorkNext]_(Work!workVars)
<1>. SUFFICES ASSUME IInv, [Next]_vars PROVE [Work!WorkNext]_(Work!workVars)
  BY Zenon
<1>1. ASSUME NEW e \in SchedEvent,
             \/ Save(e) \/ Cancel(e) \/ BecomeDue(e) \/ ExpireGone(e) \/ ExpireSlow(e)
             \/ RustRetry(e)
      PROVE  [Work!WorkNext]_(Work!workVars)
  <2>1. CASE Save(e) \/ ExpireGone(e) \/ ExpireSlow(e)
    BY Zenon, <2>1 DEF Save, ExpireGone, ExpireSlow, Work!WorkNext
  <2>2. CASE Cancel(e)
    BY Zenon, <2>2 DEF Cancel, Work!WorkNext, Terminal
  <2>3. CASE BecomeDue(e) \/ RustRetry(e)
    BY Zenon, <2>3 DEF BecomeDue, RustRetry, Work!workVars
  <2>. QED
    BY Zenon, <1>1, <2>1, <2>2, <2>3
<1>2. ASSUME NEW S \in SUBSET Due, NEW c \in Ticker \cup {Gone}, TakeClaim(c, S)
      PROVE  [Work!WorkNext]_(Work!workVars)
  <2>1. S \in SUBSET SchedEvent /\ \A e \in S : Work!Claimable(e)
    BY Zenon DEF Due, Work!Claimable
  <2>2. Work!Claim(c, S)
    BY Zenon, <1>2, <2>1 DEF TakeClaim, Work!Claim
  <2>. QED
    BY Zenon, <2>1, <2>2 DEF Work!WorkNext
<1>3. ASSUME NEW c \in Ticker, Claim(c) \/ ClaimError(c)
      PROVE  [Work!WorkNext]_(Work!workVars)
  <2>1. \E S \in SUBSET Due, d \in {c, Gone} : TakeClaim(d, S)
    BY Zenon, <1>3 DEF Claim, ClaimError
  <2>. QED
    BY Zenon, <1>2, <2>1
<1>4. ASSUME NEW c \in Ticker, MarkReleased(c) \/ ScheduleRetry(c) \/ MarkFailed(c)
      PROVE  [Work!WorkNext]_(Work!workVars)
  <2>1. PICK s \in {"pending"} \cup Terminal, more \in {0, 1} : SettleTo(c, s, FALSE, more)
    BY Zenon, <1>4 DEF MarkReleased, ScheduleRetry, MarkFailed, Terminal
  <2>2. CASE UNCHANGED rows
    BY Zenon, <2>2 DEF rows, Work!workVars
  <2>3. ASSUME NEW e \in cur[c], Holds(c, e),
               status' = [status EXCEPT ![e] = s], holder' = [holder EXCEPT ![e] = NoClaimant],
               live' = [live EXCEPT ![e] = FALSE]
        PROVE  [Work!WorkNext]_(Work!workVars)
    <3>1. e \in SchedEvent
      BY Zenon, <2>3 DEF IInv, TypeOK
    <3>2. Work!Settle(c, e, s)
      BY Zenon, <2>3 DEF Holds, Work!Settle, Work!Holds
    <3>. QED
      BY Zenon, <3>1, <3>2 DEF Work!WorkNext
  <2>. QED
    BY Zenon, <2>1, <2>2, <2>3 DEF SettleTo
<1>5. ASSUME NEW c \in Ticker, TickDone(c) \/ Crash(c)
      PROVE  [Work!WorkNext]_(Work!workVars)
  BY Zenon, <1>5 DEF TickDone, Crash, Return, Work!WorkNext
<1>6. ASSUME NEW c \in Ticker,
             \/ GetDue(c) \/ StatementError(c)
             \/ \E e \in SchedEvent : ReleaseOk(c, e) \/ ReleaseFails(c, e)
      PROVE  [Work!WorkNext]_(Work!workVars)
  <2>1. UNCHANGED rows
    BY Zenon, <1>6 DEF GetDue, StatementError, ReleaseOk, ReleaseFails
  <2>. QED
    BY Zenon, <2>1 DEF rows, Work!workVars
<1>7. CASE UNCHANGED vars
  BY Zenon, <1>7 DEF vars, rows, Work!workVars
<1>. QED
  BY Zenon, <1>1, <1>3, <1>4, <1>5, <1>6, <1>7 DEF Next, Fault, Tick

\* The schedulers implement the claim protocol: a row has one claimant, only its
\* unexpired claim settles it, and a settled row is never taken up again.
THEOREM Refinement == Spec => ImplementsClaimedWork
<1>1. Init => Work!WorkInit
  BY Zenon DEF Init
<1>. QED
  BY <1>1, Inductive, StepRefines, PTL DEF Spec, ImplementsClaimedWork, Work!WorkSpec

-----------------------------------------------------------------------------
(* The life cycle of the processes *)

\* The stage of the worker's plan that starts a loop; the last one comes
\* before the main loop.
StageOf(l) ==
    CASE l = "scheduler" -> 6 [] l = "renewal" -> 7 [] l = "queue" -> 8 [] OTHER -> 9

PsTypeOK ==
    /\ psKind \in {"worker", "api"} /\ psPhase \in {"starting", "running", "unwinding", "exited"}
    /\ psHeld \in Int /\ psForced \in BOOLEAN
    /\ psLoop \in [ProcLoop -> {"off", "idle", "busy"}]
    /\ psConfig \in [inFlight : Int, fetch : Int]

\* What runs has its stage held: a loop of the worker that is not off has the
\* stages up to its own, the main loops all of them while the process runs, and
\* from the scheduler's stage on the configuration is a normalised one.
PsInv ==
    /\ PsTypeOK
    /\ psHeld >= 0
    /\ psPhase = "running" => psHeld = Len(Stages)
    /\ \A l \in ProcLoop \ {"requests"} :
          psLoop[l] # "off" => psKind = "worker" /\ psHeld >= StageOf(l) /\ psHeld <= 9
    /\ psLoop["fetch"] # "off" => psPhase = "running"
    /\ psLoop["requests"] # "off" =>
          psKind = "api" /\ (psForced \/ psPhase = "running")
    /\ psKind = "worker" /\ psHeld >= 6 => psConfig.fetch \in 1 .. psConfig.inFlight

\* The plan of each process, stage by stage.
LEMMA PlanFacts ==
    /\ Len(Plan["worker"]) = 9 /\ Len(Plan["api"]) = 2
    /\ Plan["worker"][3] = "storage" /\ Plan["worker"][4] = "consumer"
    /\ Plan["worker"][5] = "publisher" /\ Plan["worker"][6] = "scheduler"
    /\ Plan["worker"][7] = "leases" /\ Plan["worker"][8] = "queue"
    /\ Plan["worker"][9] = "background" /\ Plan["worker"][1] = "observability"
    /\ Plan["worker"][2] = "metrics"
    /\ Plan["api"][1] = "storage" /\ Plan["api"][2] = "publisher"
  BY Zenon DEF Plan

\* The names of the loops.
LEMMA LoopNames ==
    ProcLoop = {"scheduler", "renewal", "queue", "publish", "batch", "fetch", "requests"}
  BY Zenon DEF ProcLoop, Uses

\* A loop is started by the worker's stage of its number, and by no other.
LEMMA StartedBy ==
    /\ \A n \in 1 .. 9, l \in ProcLoop : l \in LoopsOf(Plan["worker"][n]) => n = StageOf(l) /\ l # "fetch" /\ l # "requests"
    /\ \A n \in 1 .. 2, l \in ProcLoop : l \notin LoopsOf(Plan["api"][n])
  <1>1. \A n \in 1 .. 9 : n = 1 \/ n = 2 \/ n = 3 \/ n = 4 \/ n = 5 \/ n = 6 \/ n = 7 \/ n = 8 \/ n = 9
    OBVIOUS
  <1>2. \A n \in 1 .. 2 : n = 1 \/ n = 2
    OBVIOUS
  <1> QED
    BY Zenon, <1>1, <1>2, PlanFacts DEF LoopsOf, StageOf

\* The invariant gives the property.
LEMMA HeldEnough == PsInv => RunsOnHeldResources
  <1> SUFFICES ASSUME PsInv PROVE RunsOnHeldResources
    BY Zenon
  <1>1. ASSUME psKind = "worker" PROVE \A n \in 1 .. 9 : n <= psHeld => Plan["worker"][n] \in Held
    BY <1>1 DEF Held, Stages, PsInv, PsTypeOK
  <1>2. ASSUME psKind = "api", psHeld = 2 PROVE {"storage", "publisher"} \subseteq Held
    <2>1. Plan["api"][1] \in Held /\ Plan["api"][2] \in Held
      BY <1>2 DEF Held, Stages
    <2> QED
      BY Zenon, <2>1, PlanFacts
  <1>3. ASSUME NEW l \in ProcLoop, psLoop[l] = "busy", ~(l = "requests" /\ psForced)
        PROVE  Uses[l] \subseteq Held
    <2>1. CASE l = "requests"
      <3>1. psKind = "api" /\ psHeld = 2
        BY Zenon, <1>3, <2>1, PlanFacts DEF PsInv, Stages
      <3> QED
        BY Zenon, <2>1, <3>1, <1>2 DEF Uses
    <2>2. CASE l # "requests"
      <3>1. psKind = "worker" /\ psHeld >= StageOf(l)
        BY Zenon, <1>3, <2>2 DEF PsInv
      <3>2. psHeld \in Int
        BY Zenon DEF PsInv, PsTypeOK
      <3>3. /\ "storage" \in Held /\ "consumer" \in Held /\ "publisher" \in Held
            /\ l # "scheduler" /\ l # "renewal" => "leases" \in Held
            /\ l = "fetch" => "queue" \in Held
        BY <3>1, <3>2, <1>1, PlanFacts DEF StageOf
      <3> QED
        BY <3>3, <2>2, LoopNames DEF Uses
    <2> QED
      BY Zenon, <2>1, <2>2
  <1>4. psLoop["fetch"] # "off" => psConfig.fetch \in 1 .. psConfig.inFlight
    <2>1. "fetch" \in ProcLoop \ {"requests"} /\ StageOf("fetch") = 9
      BY Zenon, LoopNames DEF StageOf
    <2> QED
      BY <2>1 DEF PsInv, PsTypeOK
  <1> QED
    BY Zenon, <1>3, <1>4 DEF RunsOnHeldResources

LEMMA PsStarts == PsInit => PsInv
  <1> SUFFICES ASSUME PsInit PROVE PsInv
    BY Zenon
  <1>1. PsTypeOK
    <2>1. psConfig \in [inFlight : Int, fetch : Int]
      BY ProcessesAssumption DEF PsInit
    <2>2. psForced \in BOOLEAN
      BY Zenon DEF PsInit
    <2>3. /\ psKind \in {"worker", "api"} /\ psPhase = "starting" /\ psHeld = 0
          /\ psLoop = [l \in ProcLoop |-> "off"]
      BY Zenon DEF PsInit
    <2> QED
      BY <2>1, <2>2, <2>3 DEF PsTypeOK
  <1>2. \A l \in ProcLoop : psLoop[l] = "off"
    BY Zenon DEF PsInit
  <1>3. psLoop["fetch"] = "off" /\ psLoop["requests"] = "off"
    BY Zenon, <1>2, LoopNames
  <1>4. psHeld = 0 /\ psPhase = "starting"
    BY Zenon DEF PsInit
  <1> QED
    BY <1>1, <1>2, <1>3, <1>4 DEF PsInv

LEMMA PsSteps == PsInv /\ [PsNext]_psVars => PsInv'
  <1> SUFFICES ASSUME PsInv, [PsNext]_psVars PROVE PsInv'
    BY Zenon
  <1>1. CASE Signal
    BY Zenon, <1>1 DEF PsInv, PsTypeOK, Signal, Stages
  <1>2. CASE Acquire
    <2> DEFINE n == psHeld + 1
               stage == Stages[n]
    <2>1. /\ psHeld < Len(Stages) /\ psHeld' = n /\ psPhase = "starting"
          /\ UNCHANGED <<psKind, psPhase, psSignal, psForced>>
          /\ psLoop' = [l \in ProcLoop |-> IF l \in LoopsOf(stage) THEN "idle" ELSE psLoop[l]]
          /\ stage = "scheduler" => ~ConfigRefused(psConfig)
          /\ psConfig' = IF stage = "scheduler" THEN normalizeWorkerConfig(psConfig) ELSE psConfig
      BY Zenon, <1>2 DEF Acquire
    <2>2. /\ psKind = "worker" => Stages = Plan["worker"] /\ n \in 1 .. 9
          /\ psKind = "api" => Stages = Plan["api"] /\ n \in 1 .. 2
      <3>1. psHeld \in Int /\ psHeld >= 0 /\ psKind \in {"worker", "api"}
        BY Zenon DEF PsInv, PsTypeOK
      <3>2. ASSUME psKind = "worker" PROVE Stages = Plan["worker"] /\ psHeld < 9
        <4>1. Stages = Plan["worker"]
          BY <3>2, Zenon DEF Stages
        <4> QED
          BY Zenon, <2>1, <4>1, PlanFacts
      <3>3. ASSUME psKind = "api" PROVE Stages = Plan["api"] /\ psHeld < 2
        <4>1. Stages = Plan["api"]
          BY <3>3, Zenon DEF Stages
        <4> QED
          BY Zenon, <2>1, <4>1, PlanFacts
      <3> QED
        BY <3>1, <3>2, <3>3
    <2>3. \A l \in ProcLoop : l \in LoopsOf(stage) =>
              psKind = "worker" /\ n = StageOf(l) /\ l # "fetch" /\ l # "requests"
      BY Zenon, <2>2, StartedBy DEF PsInv, PsTypeOK
    <2>4. PsTypeOK'
      <3>1. normalizeWorkerConfig(psConfig) \in [inFlight : Int, fetch : Int]
        BY ProcessesAssumption DEF PsInv, PsTypeOK, normalizeWorkerConfig
      <3> QED
        BY <2>1, <3>1 DEF PsInv, PsTypeOK
    <2>5. (\A l \in ProcLoop \ {"requests"} :
             psLoop[l] # "off" => psKind = "worker" /\ psHeld >= StageOf(l) /\ psHeld <= 9)'
      BY <2>1, <2>2, <2>3 DEF PsInv, PsTypeOK, StageOf
    <2>6. (psKind = "worker" /\ psHeld >= 6 => psConfig.fetch \in 1 .. psConfig.inFlight)'
      <3>1. CASE psKind = "worker" /\ n = 6
        <4>1. stage = "scheduler"
          BY Zenon, <3>1, <2>2, PlanFacts
        <4>2. psConfig' = normalizeWorkerConfig(psConfig) /\ ~ConfigRefused(psConfig)
          BY Zenon, <2>1, <4>1
        <4> QED
          BY <4>2, ProcessesAssumption DEF ConfigRefused, normalizeWorkerConfig, PsInv, PsTypeOK
      <3>2. CASE psKind = "worker" /\ n > 6
        <4>1. n \in {7, 8, 9}
          BY <3>2, <2>2
        <4>2. stage # "scheduler"
          BY Zenon, <4>1, <3>2, <2>2, PlanFacts
        <4> QED
          BY <2>1, <4>2, <3>2 DEF PsInv, PsTypeOK
      <3> QED
        BY <2>1, <3>1, <3>2 DEF PsInv, PsTypeOK
    <2>7. psLoop'["fetch"] = psLoop["fetch"] /\ psLoop'["requests"] = psLoop["requests"]
      BY Zenon, <2>1, <2>3, LoopNames
    <2> HIDE DEF stage
    <2> QED
      BY <2>1, <2>4, <2>5, <2>6, <2>7 DEF PsInv, PsTypeOK
  <1>3. CASE AcquireFails
    BY Zenon, <1>3 DEF PsInv, PsTypeOK, AcquireFails, Stages
  <1>4. CASE RunMain
    <2>1. /\ psPhase = "starting" /\ psHeld = Len(Stages) /\ psPhase' = "running"
          /\ psLoop' = [psLoop EXCEPT ![MainLoop[psKind]] = "idle"]
          /\ UNCHANGED <<psKind, psConfig, psHeld, psSignal, psForced>>
      BY Zenon, <1>4 DEF RunMain
    <2>2. /\ psKind = "worker" => MainLoop[psKind] = "fetch" /\ Len(Stages) = 9
          /\ psKind = "api" => MainLoop[psKind] = "requests" /\ Len(Stages) = 2
      BY PlanFacts DEF MainLoop, Stages
    <2>3. CASE psKind = "worker"
      <3>1. psLoop' = [psLoop EXCEPT !["fetch"] = "idle"] /\ psHeld = 9 /\ Len(Stages)' = psHeld
        BY Zenon, <2>1, <2>2, <2>3 DEF Stages
      <3> QED
        BY <2>1, <2>3, <3>1, LoopNames DEF PsInv, PsTypeOK, StageOf
    <2>4. CASE psKind = "api"
      <3>1. psLoop' = [psLoop EXCEPT !["requests"] = "idle"] /\ psHeld = 2 /\ Len(Stages)' = psHeld
        BY Zenon, <2>1, <2>2, <2>4 DEF Stages
      <3> QED
        BY <2>1, <2>4, <3>1, LoopNames DEF PsInv, PsTypeOK, StageOf
    <2> QED
      BY Zenon, <2>3, <2>4 DEF PsInv, PsTypeOK
  <1>5. CASE MainReturns
    BY <1>5, LoopNames DEF PsInv, PsTypeOK, MainReturns, Stages, MainLoop
  <1>6. CASE ServerAbandoned
    <2>1. /\ psKind = "api" /\ psPhase' = "unwinding"
          /\ UNCHANGED <<psKind, psConfig, psHeld, psSignal, psLoop>>
      BY Zenon, <1>6 DEF ServerAbandoned
    <2>2. psForced' /\ psForced' \in BOOLEAN
      BY <1>6, Zenon DEF ServerAbandoned
    <2>3. psLoop["fetch"] = "off"
      BY Zenon, <2>1, LoopNames DEF PsInv
    <2> QED
      BY Zenon, <2>1, <2>2, <2>3 DEF PsInv, PsTypeOK
  <1>7. CASE Unwind
    <2>1. /\ psPhase = "unwinding" /\ psHeld > 0 /\ psHeld' = psHeld - 1
          /\ \A l \in LoopsOf(Top) : psLoop[l] = "off"
          /\ UNCHANGED <<psKind, psConfig, psPhase, psSignal, psLoop, psForced>>
      BY Zenon, <1>7 DEF Unwind
    <2>2. ASSUME NEW l \in ProcLoop \ {"requests"}, psLoop[l] # "off"
          PROVE  psHeld - 1 >= StageOf(l)
      <3>1. psKind = "worker" /\ psHeld >= StageOf(l) /\ psHeld <= 9 /\ l # "fetch"
        BY Zenon, <2>1, <2>2 DEF PsInv
      <3>2. psHeld = StageOf(l) => l \in LoopsOf(Top)
        BY <3>1, LoopNames, PlanFacts DEF Top, Stages, LoopsOf, StageOf
      <3> QED
        BY <2>1, <2>2, <3>1, <3>2 DEF PsInv, PsTypeOK, StageOf
    <2> QED
      BY <2>1, <2>2 DEF PsInv, PsTypeOK
  <1>8. CASE Exit
    BY Zenon, <1>8, LoopNames DEF PsInv, PsTypeOK, Exit
  <1>9. ASSUME NEW l \in ProcLoop, RoundBegins(l) \/ RoundEnds(l) \/ LoopReturns(l) PROVE PsInv'
    <2>1. \E v \in {"off", "idle", "busy"} : psLoop[l] # "off" /\ psLoop' = [psLoop EXCEPT ![l] = v]
      BY Zenon, <1>9 DEF RoundBegins, RoundEnds, LoopReturns
    <2>2. UNCHANGED <<psKind, psConfig, psPhase, psHeld, psSignal, psForced>>
      BY Zenon, <1>9 DEF RoundBegins, RoundEnds, LoopReturns
    <2> QED
      BY <2>1, <2>2 DEF PsInv, PsTypeOK, Stages
  <1>10. CASE UNCHANGED psVars
    BY Zenon, <1>10 DEF PsInv, PsTypeOK, psVars, Stages
  <1> QED
    BY Zenon, <1>1, <1>2, <1>3, <1>4, <1>5, <1>6, <1>7, <1>8, <1>9, <1>10 DEF PsNext

(***************************************************************************)
(* Wherever start-up fails and whenever the signal comes, no round of a    *)
(* loop runs on a resource that is not held, for every configuration.      *)
(***************************************************************************)
THEOREM ResourcesHeld == PsSpec => []RunsOnHeldResources
  BY PsStarts, PsSteps, HeldEnough, PTL DEF PsSpec

-----------------------------------------------------------------------------
(* The Go SDK's client: what is sent *)

Sending(k) == k.pc \in {"entering", "publishing", "pausing"}

\* What is stored or may still be.
Known == sdkStream \cup sdkLate

\* A call on its way, against the stream S, what is known K and the number n of
\* events so far: its envelopes carry their positions and the call's number,
\* those before the next one are stored, and what is known of the call are these
\* envelopes.
CallOK(k, S, K, n) ==
    Sending(k) =>
        /\ \E z \in Nat \ {0} : DOMAIN k.envs = 1 .. z
        /\ \A i \in DOMAIN k.envs : k.envs[i].index = i /\ k.envs[i].call = k.envs[1].call
        /\ k.envs[1].call \in 1 .. n
        /\ k.pc = "publishing" =>
              k.next \in DOMAIN k.envs /\ \A i \in 1 .. k.next - 1 : k.envs[i] \in S
        /\ \A m \in K : m.call = k.envs[1].call => m.index \in DOMAIN k.envs /\ m = k.envs[m.index]

NumbersDiffer(calls) ==
    \A c, d \in SdkCaller : c # d /\ Sending(calls[c]) /\ Sending(calls[d])
                            => calls[c].envs[1].call # calls[d].envs[1].call

\* Stronger than StoredUnderOneID: of what may still be stored, too.
OneID(S, K) ==
    \A m \in K :
        /\ \A n \in K : n.call = m.call /\ n.index = m.index => n = m
        /\ \A i \in 1 .. m.index - 1 : \E n \in S : n.call = m.call /\ n.index = i

\* The calls against what is stored and known.
CallsOK(calls, S, K, n) ==
    /\ \A c \in SdkCaller : CallOK(calls[c], S, K, n)
    /\ NumbersDiffer(calls) /\ OneID(S, K)
    /\ \A m \in K : m.call \in 1 .. n

SendCore ==
    /\ sdkSent \in Nat
    /\ sdkCall = [c \in SdkCaller |-> sdkCall[c]]
    /\ \A c \in SdkCaller : CallOK(sdkCall[c], sdkStream, Known, sdkSent)
    /\ NumbersDiffer(sdkCall)
    /\ \A m \in Known : m.call \in 1 .. sdkSent
    /\ OneID(sdkStream, Known)
    /\ NilMeansStored

ClosedInv == ClosedIsQuiet /\ \A c \in SdkCaller : sdkCall[c].pc = "closing" => sdkClosed

LEMMA IdleIs == ~Sending(IdleSdkCall) /\ IdleSdkCall.pc = "idle"
  BY Zenon DEF IdleSdkCall, CallAt, Sending

\* The fields of a caller's record.
LEMMA CallAtIs ==
    ASSUME NEW p, NEW e, NEW n, NEW a
    PROVE  CallAt(p, e, n, a).pc = p /\ CallAt(p, e, n, a).envs = e /\ CallAt(p, e, n, a).next = n
  BY Zenon DEF CallAt

\* A caller's record after a step that publishes nothing: not on its way, or on
\* its way with the envelopes it had, from the first one if it publishes.
LEMMA CallKept ==
    ASSUME NEW k, NEW j, NEW S, NEW K, NEW n, CallOK(k, S, K, n), Sending(k), j.envs = k.envs,
           j.pc = "publishing" => j.next = 1
    PROVE  CallOK(j, S, K, n)
  <1>1. ASSUME NEW z \in Nat \ {0}, DOMAIN k.envs = 1 .. z, j.next = 1
        PROVE  j.next \in DOMAIN j.envs /\ \A i \in 1 .. j.next - 1 : j.envs[i] \in S
    BY <1>1
  <1> QED
    BY Zenon, <1>1 DEF CallOK

\* The next envelope of a call becomes known, and perhaps stored.
LEMMA StoreOne ==
    ASSUME NEW c \in SdkCaller, NEW S, NEW K, NEW n \in Nat, NEW calls, NEW T, NEW L,
           CallsOK(calls, S, K, n), calls[c].pc = "publishing",
           \A x \in S : x \in T,
           \A x \in L : x \in K \/ x = calls[c].envs[calls[c].next]
    PROVE  CallsOK(calls, T, L, n)
  <1> USE DEF CallsOK
  <1> DEFINE k == calls[c]
             e == k.envs[k.next]
  <1>1. Sending(k)
    BY Zenon DEF Sending
  <1>2. CallOK(k, S, K, n)
    BY Zenon
  <1>3. /\ \A i \in DOMAIN k.envs : k.envs[i].index = i /\ k.envs[i].call = k.envs[1].call
        /\ k.envs[1].call \in 1 .. n
        /\ k.next \in DOMAIN k.envs /\ \A i \in 1 .. k.next - 1 : k.envs[i] \in S
        /\ \A m \in K : m.call = k.envs[1].call => m.index \in DOMAIN k.envs /\ m = k.envs[m.index]
    BY Zenon, <1>1, <1>2 DEF CallOK
  <1>4. PICK z \in Nat \ {0} : DOMAIN k.envs = 1 .. z
    BY Zenon, <1>1, <1>2 DEF CallOK
  <1>5. e.index = k.next /\ e.call = k.envs[1].call /\ k.next \in 1 .. z
    BY Zenon, <1>3, <1>4
  <1>6. \A m \in L : m.call \in 1 .. n
    BY Zenon, <1>3, <1>5
  <1>7. ASSUME NEW d \in SdkCaller PROVE CallOK(calls[d], T, L, n)
    <2> SUFFICES ASSUME Sending(calls[d]) PROVE CallOK(calls[d], T, L, n)
      BY Zenon DEF CallOK
    <2>1. CallOK(calls[d], S, K, n)
      BY Zenon
    <2>2. \A m \in L : m.call = calls[d].envs[1].call =>
              m.index \in DOMAIN calls[d].envs /\ m = calls[d].envs[m.index]
      <3>1. CASE d = c
        BY Zenon, <3>1, <1>3, <1>5
      <3>2. CASE d # c
        <4>1. e.call # calls[d].envs[1].call
          BY Zenon, <3>2, <1>1, <1>5 DEF NumbersDiffer
        <4> HIDE DEF e
        <4> QED
          BY Zenon, <4>1, <2>1 DEF CallOK, e
      <3> QED
        BY Zenon, <3>1, <3>2
    <2> QED
      BY Zenon, <2>1, <2>2 DEF CallOK
  <1>8. OneID(T, L)
    <2>1. ASSUME NEW m \in L, NEW o \in L, o.call = m.call, o.index = m.index PROVE o = m
      BY <2>1, <1>3, <1>5 DEF OneID
    <2>2. ASSUME NEW m \in L, NEW i \in 1 .. m.index - 1
          PROVE  \E o \in T : o.call = m.call /\ o.index = i
      <3>1. CASE m = e
        <4>1. i \in 1 .. k.next - 1 /\ i \in DOMAIN k.envs
          BY <3>1, <1>5, <1>4, <2>2
        <4>2. k.envs[i] \in T /\ k.envs[i].index = i /\ k.envs[i].call = e.call
          BY Zenon, <4>1, <1>3, <1>5
        <4> QED
          BY Zenon, <4>2, <3>1
      <3>2. CASE m \in K
        BY Zenon, <3>2, <2>2 DEF OneID
      <3> QED
        BY Zenon, <3>1, <3>2
    <2> QED
      BY Zenon, <2>1, <2>2 DEF OneID
  <1> QED
    BY Zenon, <1>6, <1>7, <1>8

\* A step of one caller that starts no call and publishes nothing.
LEMMA CallStep ==
    ASSUME SendCore, NEW c \in SdkCaller, NEW j,
           sdkCall' = [sdkCall EXCEPT ![c] = j], UNCHANGED <<sdkSent, sdkStream, sdkLate, sdkOk>>,
           \/ ~Sending(j)
           \/ Sending(sdkCall[c]) /\ j.envs = sdkCall[c].envs /\ (j.pc = "publishing" => j.next = 1)
    PROVE  SendCore'
  <1>1. \A d \in SdkCaller : sdkCall'[d] = IF d = c THEN j ELSE sdkCall[d]
    BY Zenon DEF SendCore
  <1>2. CallOK(j, sdkStream, Known, sdkSent)
    <2>1. CASE ~Sending(j)
      BY Zenon, <2>1 DEF CallOK
    <2>2. CASE Sending(sdkCall[c]) /\ j.envs = sdkCall[c].envs /\ (j.pc = "publishing" => j.next = 1)
      <3>1. CallOK(sdkCall[c], sdkStream, Known, sdkSent)
        BY Zenon DEF SendCore
      <3> QED
        BY Zenon, <2>2, <3>1, CallKept
    <2> QED
      BY Zenon, <2>1, <2>2
  <1>3. \A d \in SdkCaller : CallOK(sdkCall'[d], sdkStream, Known, sdkSent)
    BY Zenon, <1>1, <1>2 DEF SendCore
  <1>4. NumbersDiffer(sdkCall')
    BY <1>1 DEF SendCore, NumbersDiffer
  <1>5. sdkCall' = [d \in SdkCaller |-> sdkCall'[d]]
    BY Zenon DEF SendCore
  <1>6. NilMeansStored'
    BY Zenon DEF SendCore, NilMeansStored
  <1>7. Known' = Known
    BY Zenon DEF Known
  <1> QED
    BY Zenon, <1>3, <1>4, <1>5, <1>6, <1>7 DEF SendCore

\* Send or SendBatch begins, with envelopes of a new number.
LEMMA SendStep == ASSUME SendCore, NEW c \in SdkCaller, NEW b \in SdkBatch, SdkSend(c, b) PROVE SendCore'
  <1> DEFINE envs == [i \in DOMAIN b |-> EnvelopeOf(b[i], sdkSent + 1, i)]
             j == CallAt("entering", envs, 1, 0)
             n == sdkSent + 1
             q == sdkSent + Len(b)
  <1>1. /\ sdkCall' = [sdkCall EXCEPT ![c] = j] /\ sdkSent' = q
        /\ UNCHANGED <<sdkStream, sdkOk>> /\ Known' = Known
    BY Zenon DEF SdkSend, Known
  <1>3. PICK z \in Nat \ {0} : DOMAIN b = 1 .. z /\ z = Len(b)
    BY Zenon, SdkAssumption
  <1>2. sdkSent \in Nat /\ n \in Nat /\ q \in Nat /\ n \in 1 .. q
    BY <1>3 DEF SendCore
  <1> HIDE DEF q
  <1>a. \A i \in 1 .. z : envs[i].index = i /\ envs[i].call = n
    BY Zenon, <1>3 DEF EnvelopeOf
  <1>b. DOMAIN envs = 1 .. z
    BY Zenon, <1>3
  <1> HIDE DEF envs
  <1>4. \A i \in 1 .. z : j.envs[i].index = i /\ j.envs[i].call = n
    BY <1>a, CallAtIs
  <1>5. DOMAIN j.envs = 1 .. z /\ j.pc = "entering"
    BY <1>b, CallAtIs
  <1> HIDE DEF j
  <1>6. j.envs[1].call = n /\ Sending(j)
    BY <1>4, <1>5 DEF Sending
  <1>7. \A m \in Known : m.call # n
    BY <1>2 DEF SendCore
  <1>8. CallOK(j, sdkStream, Known, q)
    BY <1>2, <1>4, <1>5, <1>6, <1>7 DEF CallOK
  <1>9. \A d \in SdkCaller : CallOK(sdkCall[d], sdkStream, Known, q)
    <2>1. \A x \in 1 .. sdkSent : x \in 1 .. q
      BY <1>2 DEF q
    <2> HIDE DEF n
    <2> QED
      BY Zenon, <2>1 DEF SendCore, CallOK
  <1>10. \A d \in SdkCaller : sdkCall'[d] = IF d = c THEN j ELSE sdkCall[d]
    BY Zenon, <1>1 DEF SendCore
  <1>11. \A d \in SdkCaller : CallOK(sdkCall'[d], sdkStream, Known, q)
    BY Zenon, <1>5, <1>8, <1>9, <1>10 DEF SendCore
  <1>12. NumbersDiffer(sdkCall')
    <2>1. \A d \in SdkCaller : Sending(sdkCall[d]) => sdkCall[d].envs[1].call # n
      BY <1>2 DEF SendCore, CallOK
    <2> HIDE DEF n
    <2> QED
      BY <1>6, <1>10, <2>1 DEF NumbersDiffer, SendCore
  <1>13. sdkCall' = [d \in SdkCaller |-> sdkCall'[d]]
    BY Zenon, <1>1 DEF SendCore
  <1>14. NilMeansStored'
    BY Zenon, <1>1 DEF SendCore, NilMeansStored
  <1>15. \A m \in Known : m.call \in 1 .. q
    BY <1>2 DEF SendCore, q
  <1> HIDE DEF n
  <1> QED
    BY Zenon, <1>1, <1>2, <1>11, <1>12, <1>13, <1>14, <1>15 DEF SendCore

\* The next envelope becomes known, whatever becomes of the call: it stays where
\* it was, goes on to the following envelope once it is stored, or is off its way.
LEMMA StoreStep ==
    ASSUME SendCore, NEW c \in SdkCaller, NEW j, sdkCall[c].pc = "publishing",
           \A x \in sdkStream : x \in sdkStream',
           \A x \in Known' : x \in Known \/ x = sdkCall[c].envs[sdkCall[c].next],
           sdkCall' = [sdkCall EXCEPT ![c] = j], UNCHANGED sdkSent,
           \/ ~Sending(j)
           \/ j.pc # "publishing" /\ j.envs = sdkCall[c].envs
           \/ /\ j.envs = sdkCall[c].envs /\ j.next = sdkCall[c].next + 1
              /\ j.next \in DOMAIN j.envs /\ sdkCall[c].envs[sdkCall[c].next] \in sdkStream',
           \/ UNCHANGED sdkOk
           \/ /\ sdkOk' = sdkOk \cup {sdkCall[c].envs}
              /\ sdkCall[c].next + 1 \notin DOMAIN sdkCall[c].envs
              /\ sdkCall[c].envs[sdkCall[c].next] \in sdkStream'
    PROVE  SendCore'
  <1> DEFINE k == sdkCall[c]
             e == k.envs[k.next]
             T == sdkStream'
             L == Known'
  <1>2. sdkSent \in Nat /\ Sending(k)
    BY Zenon DEF SendCore, Sending
  <1>3. CallsOK(sdkCall, T, L, sdkSent)
    <2>1. CallsOK(sdkCall, sdkStream, Known, sdkSent)
      BY Zenon DEF SendCore, CallsOK
    <2> HIDE DEF T, L
    <2>2. (\A x \in sdkStream : x \in T) /\ \A x \in L : x \in Known \/ x = e
      BY Zenon DEF T, L
    <2> QED
      BY Zenon, <1>2, <2>1, <2>2, StoreOne
  <1>4. /\ k.next \in DOMAIN k.envs /\ \A i \in 1 .. k.next - 1 : k.envs[i] \in sdkStream
        /\ \E z \in Nat \ {0} : DOMAIN k.envs = 1 .. z
    BY Zenon, <1>2 DEF SendCore, CallOK
  <1>5. e \in T => \A i \in 1 .. k.next : k.envs[i] \in T
    <2>1. \A i \in 1 .. k.next : i = k.next \/ i \in 1 .. k.next - 1
      BY <1>4
    <2> QED
      BY Zenon, <1>4, <2>1
  <1>6. CallOK(j, T, L, sdkSent)
    <2>1. CallOK(k, T, L, sdkSent)
      BY Zenon, <1>3 DEF CallsOK
    <2>2. CASE j.pc = "publishing" /\ j.envs = k.envs /\ j.next = k.next + 1 /\ j.next \in DOMAIN j.envs
               /\ e \in T
      <3>1. \A i \in 1 .. j.next - 1 : j.envs[i] \in T
        BY <2>2, <1>4, <1>5
      <3> HIDE DEF T, L, k
      <3> QED
        BY Zenon, <2>1, <2>2, <1>2, <3>1 DEF CallOK
    <2>3. CASE ~Sending(j)
      BY Zenon, <2>3 DEF CallOK
    <2>4. CASE j.pc # "publishing" /\ j.envs = k.envs
      <3> HIDE DEF T, L, k
      <3> QED
        BY Zenon, <2>1, <2>4, <1>2, CallKept
    <2> QED
      BY Zenon, <2>2, <2>3, <2>4
  <1>7. \A d \in SdkCaller : sdkCall'[d] = IF d = c THEN j ELSE sdkCall[d]
    BY Zenon DEF SendCore
  <1>8. \A d \in SdkCaller : CallOK(sdkCall'[d], T, L, sdkSent)
    BY Zenon, <1>3, <1>6, <1>7 DEF SendCore, CallsOK
  <1>9. NumbersDiffer(sdkCall')
    <2>1. Sending(j) => j.envs = k.envs
      BY Zenon
    <2> QED
      BY <1>2, <1>7, <2>1 DEF SendCore, NumbersDiffer
  <1>10. sdkCall' = [d \in SdkCaller |-> sdkCall'[d]]
    BY Zenon DEF SendCore
  <1>11. NilMeansStored'
    <2>1. \A envs \in sdkOk : \A i \in DOMAIN envs : envs[i] \in T
      BY Zenon DEF SendCore, NilMeansStored
    <2>2. k.next + 1 \notin DOMAIN k.envs /\ e \in T => \A i \in DOMAIN k.envs : k.envs[i] \in T
      <3>1. k.next + 1 \notin DOMAIN k.envs => \A i \in DOMAIN k.envs : i \in 1 .. k.next
        BY <1>4
      <3> QED
        BY Zenon, <3>1, <1>5
    <2> QED
      BY Zenon, <2>1, <2>2 DEF NilMeansStored
  <1> QED
    BY Zenon, <1>2, <1>3, <1>8, <1>9, <1>10, <1>11 DEF SendCore, CallsOK

\* A known envelope is stored late.
LEMMA LateStep == ASSUME SendCore, NEW m \in sdkLate, StoreLate(m) PROVE SendCore'
  <1>1. /\ sdkStream' = sdkStream \cup {m} /\ sdkLate' = sdkLate \ {m}
        /\ UNCHANGED <<sdkCall, sdkSent, sdkOk>>
    BY Zenon DEF StoreLate, Store
  <1>2. Known' = Known /\ \A x \in sdkStream : x \in sdkStream'
    BY <1>1 DEF Known
  <1>3. \A c \in SdkCaller : CallOK(sdkCall[c], sdkStream', Known, sdkSent)
    BY Zenon, <1>2 DEF SendCore, CallOK
  <1>4. OneID(sdkStream', Known)
    BY Zenon, <1>2 DEF SendCore, OneID
  <1>5. NilMeansStored'
    BY Zenon, <1>1, <1>2 DEF SendCore, NilMeansStored
  <1> QED
    BY Zenon, <1>1, <1>2, <1>3, <1>4, <1>5 DEF SendCore

\* Failed leaves the call paused with its envelopes, or idle.
LEMMA FailedCall ==
    ASSUME NEW k
    PROVE  /\ Failed(k).pc \in {"pausing", "idle"}
           /\ Failed(k).pc = "pausing" => Failed(k).envs = k.envs
  BY IdleIs, CallAtIs DEF Failed

\* No step of a subscription or of another producer touches what is sent.
sendVars == <<sdkClosed, sdkTransport, sdkCall, sdkSent, sdkStream, sdkLate, sdkOk>>

SendNext ==
    \/ \E c \in SdkCaller :
        \/ \E b \in SdkBatch : SdkSend(c, b)
        \/ EnterTransport(c) \/ PublishEnvelope(c) \/ PublishFails(c) \/ Retry(c) \/ GiveUp(c)
        \/ CloseClient(c) \/ CloseTransport(c)
    \/ \E m \in sdkLate : StoreLate(m)

LEMMA SendNextStep == [SdkNext]_sdkVars => SendNext \/ UNCHANGED sendVars
  BY Zenon DEF SdkNext, SendNext, sdkVars, sendVars, Subscribe, HandleMessage, SubscriptionEnds,
         OtherPublishes

LEMMA SendCoreStep == SendCore /\ (SendNext \/ UNCHANGED sendVars) => SendCore'
  <1> SUFFICES ASSUME SendCore, SendNext \/ UNCHANGED sendVars PROVE SendCore'
    BY Zenon
  <1>1. CASE UNCHANGED sendVars
    BY Zenon, <1>1 DEF SendCore, sendVars, NilMeansStored, Known
  <1>2. ASSUME NEW c \in SdkCaller, NEW b \in SdkBatch, SdkSend(c, b) PROVE SendCore'
    BY Zenon, <1>2, SendStep
  <1>4. ASSUME NEW c \in SdkCaller, EnterTransport(c) PROVE SendCore'
    <2> DEFINE k == sdkCall[c]
               g == CallAt("publishing", k.envs, 1, k.attempt)
               j == IF sdkTransport = "closed" THEN Failed(k) ELSE g
    <2>1. k.pc = "entering" /\ sdkCall' = [sdkCall EXCEPT ![c] = j]
          /\ UNCHANGED <<sdkSent, sdkStream, sdkLate, sdkOk>>
      BY Zenon, <1>4 DEF EnterTransport
    <2>2. g.pc = "publishing" /\ g.next = 1 /\ g.envs = k.envs
      BY CallAtIs
    <2>3. \/ ~Sending(j)
          \/ Sending(k) /\ j.envs = k.envs /\ (j.pc = "publishing" => j.next = 1)
      <3>1. Sending(k)
        BY Zenon, <2>1 DEF Sending
      <3> HIDE DEF g, k
      <3>2. CASE sdkTransport = "closed"
        <4>1. j = Failed(k)
          BY Zenon, <3>2
        <4> HIDE DEF j
        <4>2. j.pc \in {"pausing", "idle"} /\ (j.pc = "pausing" => j.envs = k.envs)
          BY Zenon, <4>1, FailedCall
        <4>3. CASE j.pc = "pausing"
          <5>1. j.pc # "publishing"
            BY Zenon, <4>3
          <5> QED
            BY <3>1, <4>2, <4>3, <5>1, Zenon
        <4>4. CASE j.pc = "idle"
          BY Zenon, <4>4 DEF Sending
        <4> QED
          BY Zenon, <4>2, <4>3, <4>4
      <3>3. CASE sdkTransport # "closed"
        <4>1. j = g
          BY Zenon, <3>3
        <4> HIDE DEF j
        <4> QED
          BY Zenon, <2>2, <3>1, <4>1
      <3> QED
        BY Zenon, <3>2, <3>3
    <2> HIDE DEF j
    <2> QED
      BY Zenon, <2>1, <2>3, CallStep
  <1>5. ASSUME NEW c \in SdkCaller, PublishEnvelope(c) PROVE SendCore'
    <2> DEFINE k == sdkCall[c]
               g == CallAt("publishing", k.envs, k.next + 1, k.attempt)
    <2>1. /\ k.pc = "publishing" /\ UNCHANGED <<sdkSent, sdkLate>>
          /\ sdkStream' = sdkStream \cup {k.envs[k.next]}
      BY Zenon, <1>5 DEF PublishEnvelope, Store
    <2>4. /\ \A x \in sdkStream : x \in sdkStream'
          /\ \A x \in Known' : x \in Known \/ x = k.envs[k.next]
          /\ k.envs[k.next] \in sdkStream'
      BY Zenon, <2>1 DEF Known
    <2>2. CASE k.next + 1 \in DOMAIN k.envs
      <3>1. sdkCall' = [sdkCall EXCEPT ![c] = g] /\ UNCHANGED sdkOk
        BY Zenon, <1>5, <2>2 DEF PublishEnvelope
      <3>2. g.envs = k.envs /\ g.next = k.next + 1
        BY CallAtIs
      <3> HIDE DEF g
      <3> QED
        BY Zenon, <2>1, <2>2, <2>4, <3>1, <3>2, StoreStep
    <2>3. CASE k.next + 1 \notin DOMAIN k.envs
      <3>1. sdkCall' = [sdkCall EXCEPT ![c] = IdleSdkCall] /\ sdkOk' = sdkOk \cup {k.envs}
        BY Zenon, <1>5, <2>3 DEF PublishEnvelope
      <3> QED
        BY Zenon, <2>1, <2>3, <2>4, <3>1, IdleIs, StoreStep
    <2> QED
      BY Zenon, <2>2, <2>3
  <1>6. ASSUME NEW c \in SdkCaller, PublishFails(c) PROVE SendCore'
    <2> DEFINE k == sdkCall[c]
               j == Failed(k)
    <2>1. /\ k.pc = "publishing" /\ sdkCall' = [sdkCall EXCEPT ![c] = j]
          /\ sdkLate' = sdkLate \cup IF SdkAccepts(k.envs[k.next]) THEN {k.envs[k.next]} ELSE {}
          /\ UNCHANGED <<sdkSent, sdkStream, sdkOk>>
      BY Zenon, <1>6 DEF PublishFails
    <2>2. /\ j.pc # "publishing" /\ Sending(k)
          /\ ~Sending(j) \/ j.envs = k.envs
      BY Zenon, <2>1, FailedCall DEF Sending
    <2> HIDE DEF j
    <2>3. /\ \A x \in sdkStream : x \in sdkStream'
          /\ \A x \in Known' : x \in Known \/ x = k.envs[k.next]
      BY Zenon, <2>1 DEF Known
    <2> QED
      BY Zenon, <2>1, <2>2, <2>3, StoreStep
  <1>7. ASSUME NEW c \in SdkCaller, Retry(c) PROVE SendCore'
    <2> DEFINE k == sdkCall[c]
               j == CallAt("entering", k.envs, k.next, k.attempt + 1)
    <2>1. /\ k.pc = "pausing" /\ UNCHANGED <<sdkSent, sdkStream, sdkLate, sdkOk>>
          /\ sdkCall' = [sdkCall EXCEPT ![c] = j]
      BY Zenon, <1>7 DEF Retry
    <2>2. j.pc = "entering" /\ j.envs = k.envs /\ Sending(k)
      BY <2>1, CallAtIs DEF Sending
    <2> HIDE DEF j
    <2> QED
      BY Zenon, <2>1, <2>2, CallStep
  <1>8. ASSUME NEW c \in SdkCaller, GiveUp(c) PROVE SendCore'
    BY Zenon, <1>8, IdleIs, CallStep DEF GiveUp
  <1>9. ASSUME NEW c \in SdkCaller, CloseClient(c) PROVE SendCore'
    <2> DEFINE j == CallAt("closing", << >>, 0, 0)
    <2>1. sdkCall' = [sdkCall EXCEPT ![c] = j] /\ UNCHANGED <<sdkSent, sdkStream, sdkLate, sdkOk>>
      BY Zenon, <1>9 DEF CloseClient
    <2>2. ~Sending(j)
      BY CallAtIs DEF Sending
    <2> HIDE DEF j
    <2> QED
      BY Zenon, <2>1, <2>2, CallStep
  <1>10. ASSUME NEW c \in SdkCaller, CloseTransport(c) PROVE SendCore'
    BY Zenon, <1>10, IdleIs, CallStep DEF CloseTransport
  <1>11. ASSUME NEW m \in sdkLate, StoreLate(m) PROVE SendCore'
    BY Zenon, <1>11, LateStep
  <1> QED
    BY Zenon, <1>1, <1>2, <1>4, <1>5, <1>6, <1>7, <1>8, <1>9, <1>10, <1>11 DEF SendNext

\* A step of one caller, and what it may do to the closed flags.
LEMMA ClosedKept ==
    ASSUME SendCore, ClosedInv, NEW c \in SdkCaller, NEW j, sdkCall' = [sdkCall EXCEPT ![c] = j],
           \/ /\ UNCHANGED <<sdkClosed, sdkTransport>> /\ j.pc # "closing"
              /\ j.pc = "publishing" => sdkTransport # "closed" \/ sdkCall[c].pc = "publishing"
           \/ sdkClosed' /\ UNCHANGED sdkTransport /\ j.pc = "closing"
           \/ UNCHANGED sdkClosed /\ j.pc = "idle" /\ sdkCall[c].pc = "closing" /\ Readers = {}
    PROVE  ClosedInv'
  <1>1. \A d \in SdkCaller : sdkCall'[d] = IF d = c THEN j ELSE sdkCall[d]
    BY Zenon DEF SendCore
  <1>2. \A d \in SdkCaller : sdkCall'[d].pc = "closing" => sdkClosed'
    BY <1>1 DEF ClosedInv
  <1>3. (Readers = {} => \A d \in SdkCaller : sdkCall[d].pc # "publishing")
        /\ ((\A d \in SdkCaller : sdkCall'[d].pc # "publishing") => Readers' = {})
    BY Zenon DEF Readers
  <1>4. sdkTransport' = "closed" => sdkClosed' /\ Readers' = {}
    BY Zenon, <1>1, <1>3 DEF ClosedInv, ClosedIsQuiet
  <1> QED
    BY Zenon, <1>2, <1>4 DEF ClosedInv, ClosedIsQuiet

LEMMA ClosedStep == SendCore /\ ClosedInv /\ (SendNext \/ UNCHANGED sendVars) => ClosedInv'
  <1> SUFFICES ASSUME SendCore, ClosedInv, SendNext \/ UNCHANGED sendVars PROVE ClosedInv'
    BY Zenon
  <1>1. CASE UNCHANGED sendVars
    BY Zenon, <1>1 DEF ClosedInv, sendVars, ClosedIsQuiet, Readers
  <1>2. ASSUME NEW c \in SdkCaller, NEW j, sdkCall' = [sdkCall EXCEPT ![c] = j],
               UNCHANGED <<sdkClosed, sdkTransport>>, j.pc \in {"entering", "pausing", "idle"}
        PROVE  ClosedInv'
    BY Zenon, <1>2, ClosedKept
  <1>3. ASSUME NEW c \in SdkCaller, NEW b \in SdkBatch, SdkSend(c, b) PROVE ClosedInv'
    BY <1>2, <1>3, CallAtIs DEF SdkSend
  <1>4. ASSUME NEW c \in SdkCaller, EnterTransport(c) PROVE ClosedInv'
    <2>1. CASE sdkTransport = "closed"
      <3>1. sdkCall' = [sdkCall EXCEPT ![c] = Failed(sdkCall[c])] /\ UNCHANGED <<sdkClosed, sdkTransport>>
        BY Zenon, <1>4, <2>1 DEF EnterTransport
      <3> QED
        BY Zenon, <1>2, <3>1, FailedCall
    <2>2. CASE sdkTransport # "closed"
      <3> DEFINE k == sdkCall[c]
                 j == CallAt("publishing", k.envs, 1, k.attempt)
      <3>1. /\ sdkCall' = [sdkCall EXCEPT ![c] = j] /\ UNCHANGED <<sdkClosed, sdkTransport>>
            /\ ~Closing
        BY Zenon, <1>4, <2>2 DEF EnterTransport
      <3>2. j.pc = "publishing"
        BY CallAtIs
      <3> HIDE DEF j
      <3> QED
        BY Zenon, <2>2, <3>1, <3>2, ClosedKept
    <2> QED
      BY Zenon, <2>1, <2>2
  <1>5. ASSUME NEW c \in SdkCaller, PublishEnvelope(c) PROVE ClosedInv'
    <2> DEFINE k == sdkCall[c]
    <2>1. UNCHANGED <<sdkClosed, sdkTransport>> /\ k.pc = "publishing"
      BY Zenon, <1>5 DEF PublishEnvelope
    <2>2. CASE k.next + 1 \in DOMAIN k.envs
      <3> DEFINE j == CallAt("publishing", k.envs, k.next + 1, k.attempt)
      <3>1. sdkCall' = [sdkCall EXCEPT ![c] = j]
        BY Zenon, <1>5, <2>2 DEF PublishEnvelope
      <3>2. j.pc = "publishing"
        BY CallAtIs
      <3> HIDE DEF j
      <3> QED
        BY Zenon, <2>1, <3>1, <3>2, ClosedKept
    <2>3. CASE k.next + 1 \notin DOMAIN k.envs
      <3>1. sdkCall' = [sdkCall EXCEPT ![c] = IdleSdkCall]
        BY Zenon, <1>5, <2>3 DEF PublishEnvelope
      <3> QED
        BY Zenon, <1>2, <2>1, <3>1, IdleIs
    <2> QED
      BY Zenon, <2>2, <2>3
  <1>6. ASSUME NEW c \in SdkCaller, PublishFails(c) PROVE ClosedInv'
    BY Zenon, <1>2, <1>6, FailedCall DEF PublishFails
  <1>7. ASSUME NEW c \in SdkCaller, Retry(c) PROVE ClosedInv'
    <2> DEFINE k == sdkCall[c]
               j == CallAt("entering", k.envs, k.next, k.attempt + 1)
    <2>1. sdkCall' = [sdkCall EXCEPT ![c] = j] /\ UNCHANGED <<sdkClosed, sdkTransport>>
      BY Zenon, <1>7 DEF Retry
    <2>2. j.pc = "entering"
      BY CallAtIs
    <2> HIDE DEF j
    <2> QED
      BY Zenon, <1>2, <2>1, <2>2
  <1>8. ASSUME NEW c \in SdkCaller, GiveUp(c) PROVE ClosedInv'
    BY Zenon, <1>8, IdleIs, ClosedKept DEF GiveUp
  <1>9. ASSUME NEW c \in SdkCaller, CloseClient(c) PROVE ClosedInv'
    <2>1. sdkCall' = [sdkCall EXCEPT ![c] = CallAt("closing", << >>, 0, 0)] /\ UNCHANGED sdkTransport
      BY Zenon, <1>9 DEF CloseClient
    <2>2. sdkClosed'
      BY <1>9, Zenon DEF CloseClient
    <2> QED
      BY Zenon, <2>1, <2>2, CallAtIs, ClosedKept
  <1>10. ASSUME NEW c \in SdkCaller, CloseTransport(c) PROVE ClosedInv'
    BY Zenon, <1>10, IdleIs, ClosedKept DEF CloseTransport
  <1>11. ASSUME NEW m \in sdkLate, StoreLate(m) PROVE ClosedInv'
    BY Zenon, <1>11 DEF StoreLate, ClosedInv, ClosedIsQuiet, Readers
  <1> QED
    BY Zenon, <1>1, <1>3, <1>4, <1>5, <1>6, <1>7, <1>8, <1>9, <1>10, <1>11 DEF SendNext

-----------------------------------------------------------------------------
(* The Go SDK's client: subscriptions *)

Wanted(m, b) == m.tenant = "own" /\ m.type = b.ruleSet /\ m.valid

\* A subscription, beside what the property says of it: what is due is for it,
\* and a message in the channel that is for it is due.
SubOK(b) ==
    /\ b.handled \subseteq b.due
    /\ b.live => b.due \subseteq b.messages \cup b.handled
    /\ \A m \in b.due : Wanted(m, b)
    /\ \A m \in b.messages : Wanted(m, b) => m \in b.due

SubInv ==
    /\ sdkSub = [s \in SdkSubscriber |-> sdkSub[s]]
    /\ \A s \in SdkSubscriber : SubOK(sdkSub[s])

\* The fields of a subscription.
LEMMA SubscriptionIs ==
    ASSUME NEW l, NEW r, NEW m, NEW d, NEW h
    PROVE  LET b == SubscriptionTo(l, r, m, d, h)
           IN  b.ruleSet = r /\ b.messages = m /\ b.due = d /\ b.handled = h
  BY Zenon DEF SubscriptionTo

LEMMA EmptyOK == \A l, r : SubOK(SubscriptionTo(l, r, {}, {}, {}))
  BY SubscriptionIs DEF SubOK

\* The two route definitions agree: of the routes an event may come on, its rule
\* set's and the legacy one, a subscription to its rule set takes those on which
\* the event is due to it.
LEMMA RoutesAgree ==
    ASSUME NEW b, NEW m, NEW route, route \in {<< >>, m.type}, Wanted(m, b)
    PROVE  route \in natsSubscriptionFilters(b.ruleSet) <=> DueTo(b, m, route)
  BY Zenon DEF Wanted, natsSubscriptionFilters, DueTo

LEMMA DeliverOK ==
    ASSUME NEW m, NEW route, SubInv, sdkSub' = Deliver(m, route), route \in {<< >>, m.type}
    PROVE  SubInv'
  <1>1. sdkSub' = [s \in SdkSubscriber |-> sdkSub'[s]]
    BY Zenon DEF Deliver
  <1>2. ASSUME NEW s \in SdkSubscriber PROVE SubOK(sdkSub'[s])
    <2> DEFINE b == sdkSub[s]
               in == IF route \in natsSubscriptionFilters(b.ruleSet) THEN {m} ELSE {}
               owed == IF DueTo(b, m, route) THEN {m} ELSE {}
               g == SubscriptionTo(TRUE, b.ruleSet, b.messages \cup in, b.due \cup owed, b.handled)
    <2>1. SubOK(b)
      BY Zenon DEF SubInv
    <2>2. CASE ~b.live
      <3>1. sdkSub'[s] = b
        BY Zenon, <2>2 DEF Deliver
      <3> QED
        BY Zenon, <2>1, <3>1
    <2>3. CASE b.live
      <3>1. sdkSub'[s] = g
        BY Zenon, <2>3 DEF Deliver
      <3>2. in \subseteq {m} /\ owed \subseteq {m}
        BY Zenon
      <3>7. DueTo(b, m, route) => Wanted(m, b)
        BY Zenon DEF DueTo, Wanted
      <3>3. owed \subseteq in
        BY Zenon, <3>7, RoutesAgree
      <3>4. (Wanted(m, b) => in \subseteq owed) /\ (owed # {} => Wanted(m, b))
        BY Zenon, <3>7, RoutesAgree
      <3> HIDE DEF in, owed
      <3>5. g.ruleSet = b.ruleSet /\ g.messages = b.messages \cup in /\ g.due = b.due \cup owed
            /\ g.handled = b.handled
        BY Zenon DEF SubscriptionTo
      <3> HIDE DEF g
      <3>6. SubOK(g)
        <4>1. \A x : Wanted(x, g) <=> Wanted(x, b)
          BY Zenon, <3>5 DEF Wanted
        <4>2. g.handled \subseteq g.due /\ g.due \subseteq g.messages \cup g.handled
          BY Zenon, <2>1, <2>3, <3>3, <3>5 DEF SubOK
        <4>3. \A x \in g.messages : Wanted(x, g) => x \in g.due
          BY Zenon, <2>1, <3>2, <3>4, <3>5, <4>1 DEF SubOK
        <4>4. \A x \in g.due : Wanted(x, g)
          BY Zenon, <2>1, <3>2, <3>4, <3>5, <4>1 DEF SubOK
        <4> QED
          BY Zenon, <4>2, <4>3, <4>4 DEF SubOK
      <3> QED
        BY Zenon, <3>1, <3>6
    <2> QED
      BY Zenon, <2>2, <2>3
  <1> QED
    BY Zenon, <1>1, <1>2 DEF SubInv

LEMMA SubStep == SubInv /\ [SdkNext]_sdkVars => SubInv'
  <1> SUFFICES ASSUME SubInv, [SdkNext]_sdkVars PROVE SubInv'
    BY Zenon
  <1>1. CASE UNCHANGED sdkSub
    BY Zenon, <1>1 DEF SubInv
  <1>2. ASSUME NEW m, Store(m) PROVE SubInv'
    <2>1. CASE sdkKind = "nats"
      BY Zenon, <1>2, <2>1, DeliverOK DEF Store, natsSubjectForEnvelope
    <2>2. CASE sdkKind # "nats"
      BY Zenon, <1>1, <1>2, <2>2 DEF Store
    <2> QED
      BY Zenon, <2>1, <2>2
  <1>3. ASSUME NEW s \in SdkSubscriber, NEW g, SubOK(g), sdkSub' = [sdkSub EXCEPT ![s] = g] PROVE SubInv'
    <2>1. \A t \in SdkSubscriber : sdkSub'[t] = IF t = s THEN g ELSE sdkSub[t]
      BY Zenon, <1>3 DEF SubInv
    <2>2. sdkSub' = [t \in SdkSubscriber |-> sdkSub'[t]]
      BY Zenon, <1>3 DEF SubInv
    <2> QED
      BY Zenon, <1>3, <2>1, <2>2 DEF SubInv
  <1>4. ASSUME NEW c \in SdkCaller,
               \/ \E b \in SdkBatch : SdkSend(c, b)
               \/ EnterTransport(c) \/ Retry(c) \/ GiveUp(c) \/ CloseClient(c) \/ CloseTransport(c)
        PROVE  SubInv'
    BY Zenon, <1>1, <1>4 DEF SdkSend, EnterTransport, Retry, GiveUp, CloseClient, CloseTransport
  <1>5. ASSUME NEW c \in SdkCaller, PublishEnvelope(c) \/ PublishFails(c) PROVE SubInv'
    BY Zenon, <1>1, <1>2, <1>5 DEF PublishEnvelope, PublishFails
  <1>11. ASSUME NEW m \in sdkLate, StoreLate(m) PROVE SubInv'
    BY Zenon, <1>2, <1>11 DEF StoreLate
  <1>6. ASSUME NEW s \in SdkSubscriber, NEW r, Subscribe(s, r) PROVE SubInv'
    BY Zenon, <1>3, <1>6, EmptyOK DEF Subscribe
  <1>7. ASSUME NEW s \in SdkSubscriber, NEW m \in sdkSub[s].messages, HandleMessage(s, m) PROVE SubInv'
    <2> DEFINE b == sdkSub[s]
               got == IF m.tenant = "own" /\ m.type = b.ruleSet THEN {m} ELSE {}
               g == SubscriptionTo(TRUE, b.ruleSet, b.messages \ {m}, b.due, b.handled \cup got)
    <2>1. SubOK(b)
      BY Zenon DEF SubInv
    <2>2. CASE sdkSub' = [sdkSub EXCEPT ![s] = Ended(b)]
      BY Zenon, <1>3, <2>2, EmptyOK DEF Ended
    <2>3. CASE m.valid /\ sdkSub' = [sdkSub EXCEPT ![s] = g]
      <3>1. got \subseteq {m} /\ (got # {} => Wanted(m, b)) /\ (Wanted(m, b) => m \in got)
        BY Zenon, <2>3 DEF Wanted
      <3> HIDE DEF got
      <3>2. g.ruleSet = b.ruleSet /\ g.messages = b.messages \ {m} /\ g.due = b.due
            /\ g.handled = b.handled \cup got
        BY Zenon DEF SubscriptionTo
      <3>8. b.live
        BY Zenon, <1>7 DEF HandleMessage
      <3> HIDE DEF g
      <3>3. \A x : Wanted(x, g) <=> Wanted(x, b)
        BY Zenon, <3>2 DEF Wanted
      <3>4. g.handled \subseteq g.due /\ \A x \in g.messages : Wanted(x, g) => x \in g.due
        BY Zenon, <2>1, <3>1, <3>2, <3>3, <1>7 DEF SubOK
      <3>5. g.due \subseteq g.messages \cup g.handled
        BY Zenon, <2>1, <3>1, <3>2, <3>8 DEF SubOK
      <3>6. \A x \in g.due : Wanted(x, g)
        BY Zenon, <2>1, <3>2, <3>3 DEF SubOK
      <3>7. SubOK(g)
        BY Zenon, <3>4, <3>5, <3>6 DEF SubOK
      <3> QED
        BY Zenon, <2>3, <3>7, <1>3
    <2> QED
      BY Zenon, <1>7, <2>2, <2>3 DEF HandleMessage
  <1>8. ASSUME NEW s \in SdkSubscriber, SubscriptionEnds(s) PROVE SubInv'
    BY Zenon, <1>3, <1>8, EmptyOK DEF SubscriptionEnds, Ended
  <1>9. ASSUME NEW m \in OtherMessage, OtherPublishes(m) PROVE SubInv'
    BY Zenon, <1>9, DeliverOK DEF OtherPublishes
  <1>10. CASE UNCHANGED sdkVars
    BY Zenon, <1>1, <1>10 DEF sdkVars
  <1> QED
    BY Zenon, <1>4, <1>5, <1>6, <1>7, <1>8, <1>9, <1>10, <1>11 DEF SdkNext

LEMMA SdkStarts == SdkInit => SendCore /\ ClosedInv /\ SubInv
  <1> SUFFICES ASSUME SdkInit PROVE SendCore /\ ClosedInv /\ SubInv
    BY Zenon
  <1>1. \A c \in SdkCaller : sdkCall[c] = IdleSdkCall
    BY Zenon DEF SdkInit
  <1>2. SendCore
    <2>1. sdkCall = [c \in SdkCaller |-> sdkCall[c]] /\ sdkSent = 0 /\ Known = {} /\ sdkOk = {}
      BY DEF SdkInit, Known
    <2>2. \A c \in SdkCaller : ~Sending(sdkCall[c])
      BY Zenon, <1>1, IdleIs
    <2> QED
      BY Zenon, <2>1, <2>2 DEF SendCore, CallOK, NumbersDiffer, OneID, NilMeansStored
  <1>3. ClosedInv
    <2>1. sdkTransport = "open"
      BY Zenon DEF SdkInit
    <2> QED
      BY Zenon, <1>1, <2>1, IdleIs DEF ClosedInv, ClosedIsQuiet
  <1>4. SubInv
    <2>1. SubOK(NoSubscription)
      BY Zenon, EmptyOK DEF NoSubscription
    <2>2. sdkSub = [s \in SdkSubscriber |-> sdkSub[s]] /\ \A s \in SdkSubscriber : sdkSub[s] = NoSubscription
      BY Zenon DEF SdkInit
    <2> QED
      BY Zenon, <2>1, <2>2 DEF SubInv
  <1> QED
    BY Zenon, <1>2, <1>3, <1>4

LEMMA SdkInvGives == SendCore /\ ClosedInv /\ SubInv => SdkKeepsEvents
  BY Zenon DEF SendCore, ClosedInv, SubInv, SubOK, OneID, Known, SdkKeepsEvents, StoredUnderOneID,
         SubscriptionSeesAll

(***************************************************************************)
(* For any number of callers, batches, retries and subscriptions, and      *)
(* whenever Close comes and copies of failed attempts arrive: nil means    *)
(* stored, the copies that retries leave have one id and the batch's       *)
(* order, no call publishes on a closed transport, and a live subscription *)
(* sees every event of its rule set, except what another producer sends on *)
(* a route the client is not configured for.                               *)
(***************************************************************************)
THEOREM ClientKeepsEvents == SdkSpec => []SdkKeepsEvents
  <1>1. SendCore /\ ClosedInv /\ SubInv /\ [SdkNext]_sdkVars => (SendCore /\ ClosedInv /\ SubInv)'
    BY Zenon, SendNextStep, SendCoreStep, ClosedStep, SubStep
  <1> QED
    BY <1>1, SdkStarts, SdkInvGives, PTL DEF SdkSpec
===============================================================================
