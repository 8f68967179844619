---------------------------- MODULE EodAccounting ----------------------------
(***************************************************************************)
(* What happens to an account around 22:00 UTC: the overnight financing    *)
(* (settlement/swap.accrual.service.ts), the daily snapshot of the account *)
(* (daily.snapshot.service.ts), both started at once on every worker, and  *)
(* the audit at 03:00 that looks for nights nobody charged                 *)
(* (enhanced.reconciliation.service.ts).  Amounts are counted in nights.   *)
(***************************************************************************)
EXTENDS Integers, FiniteSets, Functions, FiniteSetsExt

CONSTANTS
    EodWorkers,
    Held,           \* positions of one account
    ClassOf,        \* position -> asset class of its symbol
    FirstDow,       \* day of the week of day 1; 0 is Sunday
    MaxDays,
    MaxEodFaults    \* Redis failures, crashes, missing quotes, failed queries

ASSUME EodAssumption ==
    /\ FirstDow \in 0..6 /\ MaxDays \in Nat \ {0}
    /\ Held \subseteq DOMAIN ClassOf

VARIABLES
    day, late,          \* the date, and whether it is past 22:00
    opened,             \* position -> moment, or Never
    held,               \* positions that are open
    swaps,              \* SwapAccrual rows, each with its ledger entry
    due,                \* workers whose 22:00 timer has just fired
    holders,            \* workers that hold the lock of the accrual
    accrual,            \* worker -> its run under way, or Idle
    snapping,           \* dates of the snapshots under way
    daily,              \* AccountDailySnapshot: date -> swaps of the day, or None
    audit, report,      \* audit under way, and the last report
    eodFaults

eodVars == <<day, late, opened, held, swaps, due, holders, accrual, snapping,
             daily, audit, report, eodFaults>>
clock == <<day, late>>
book == <<opened, held>>
runs == <<due, holders, accrual>>

EodFault == eodFaults < MaxEodFaults /\ eodFaults' = eodFaults + 1

Never == 0
Moment == 2 * day + IF late THEN 1 ELSE 0     \* 22:00 of date d is 2d + 1
Idle == [date |-> 0, rest |-> {}]
None == -1
NoReport == [date |-> 0, swap |-> "SKIPPED"]
NoAudit == [date |-> 0, held |-> {}]

EodInit ==
    /\ day = 1 /\ late = FALSE
    /\ opened = [p \in Held |-> Never] /\ held = {}
    /\ swaps = {}
    /\ due = {} /\ holders = {} /\ accrual = [w \in EodWorkers |-> Idle]
    /\ snapping = {} /\ daily = [d \in 1..MaxDays |-> None]
    /\ audit = NoAudit /\ report = NoReport
    /\ eodFaults = 0
---------------------------------------------------------------------------
\* nightsForAccrualDate(): three nights on Wednesday where settlement is T+2,
\* none on Saturday where the market is closed.
Dow(d) == (FirstDow + d - 1) % 7
Triple == {"FX_MAJOR", "FX_MINOR", "COMMODITY"}
Nights(p, d) ==
    IF Dow(d) = 6 /\ ClassOf[p] # "CRYPTO" THEN 0
    ELSE IF Dow(d) = 3 /\ ClassOf[p] \in Triple THEN 3 ELSE 1

Open(p) ==
    /\ opened[p] = Never
    /\ opened' = [opened EXCEPT ![p] = Moment] /\ held' = held \cup {p}
    /\ UNCHANGED <<clock, swaps, runs, snapping, daily, audit, report, eodFaults>>
Close(p) ==
    /\ p \in held /\ held' = held \ {p}
    /\ UNCHANGED <<clock, opened, swaps, runs, snapping, daily, audit, report, eodFaults>>

\* eodJobs(): both jobs start, neither awaited, on every worker.
Rollover ==
    /\ ~late /\ late' = TRUE
    /\ due' = EodWorkers /\ snapping' = snapping \cup {day}
    /\ UNCHANGED <<day, book, swaps, holders, accrual, daily, audit, report, eodFaults>>
\* The timers have fired by midnight; the runs they started may last longer.
Midnight ==
    /\ late /\ day < MaxDays /\ due = {}
    /\ late' = FALSE /\ day' = day + 1
    /\ UNCHANGED <<book, swaps, runs, snapping, daily, audit, report, eodFaults>>

\* tryAcquire() refuses a second worker, unless Redis fails.
StartAccrual(w) ==
    /\ w \in due /\ accrual[w] = Idle
    /\ due' = due \ {w}
    /\ \/ /\ IF holders = {} THEN UNCHANGED eodFaults ELSE EodFault
          /\ holders' = holders \cup {w}
          /\ accrual' = [accrual EXCEPT ![w] = [date |-> day, rest |-> held]]
       \/ /\ holders # {}
          /\ UNCHANGED <<holders, accrual, eodFaults>>
    /\ UNCHANGED <<clock, book, swaps, snapping, daily, audit, report>>

ChargedByWorker(w, p, d) == \E s \in swaps : s.position = p /\ s.date = d /\ s.by = w
Charged(w, p, d) == \E s \in swaps : s.position = p /\ s.date = d

\* accruePosition(): the check, the row, the ledger entry and the wallet are one
\* serializable transaction.  Without a quote, or when the transaction fails, the
\* night is passed over.
Accrue(w, p) ==
    LET d == accrual[w].date
    IN  /\ p \in accrual[w].rest
        /\ accrual' = [accrual EXCEPT ![w].rest = @ \ {p}]
        /\ \/ /\ Nights(p, d) > 0 /\ ~Charged(w, p, d)
              /\ swaps' = swaps \cup {[position |-> p, date |-> d, nights |-> Nights(p, d),
                                       posted |-> day, by |-> w]}
              /\ UNCHANGED eodFaults
           \/ /\ Nights(p, d) = 0 \/ Charged(w, p, d)
              /\ UNCHANGED <<swaps, eodFaults>>
           \/ EodFault /\ UNCHANGED swaps
        /\ UNCHANGED <<clock, book, due, holders, snapping, daily, audit, report>>
EndAccrual(w) ==
    /\ accrual[w] # Idle /\ accrual[w].rest = {}
    /\ accrual' = [accrual EXCEPT ![w] = Idle]
    /\ holders' = holders \ {w}
    /\ UNCHANGED <<clock, book, swaps, due, snapping, daily, audit, report, eodFaults>>
---------------------------------------------------------------------------
\* snapshotUser() adds up what was posted on the date.
PostedUpTo(d) == {s \in swaps : s.posted <= d}
PostedOn(d) == {s \in swaps : s.posted = d}
SwapsOfDay(d) == MapThenSumSet(LAMBDA s : s.nights, PostedOn(d))

\* The run of a date ends with the account's row, which a second worker's may
\* still write again, or is lost.
SnapshotAccount(d) ==
    /\ d \in snapping
    /\ \/ daily' = [daily EXCEPT ![d] = SwapsOfDay(d)] /\ UNCHANGED <<snapping, eodFaults>>
       \/ UNCHANGED <<daily, eodFaults>> /\ snapping' = snapping \ {d} /\ daily[d] # None
       \/ EodFault /\ snapping' = snapping \ {d} /\ UNCHANGED daily
    /\ UNCHANGED <<clock, book, swaps, runs, audit, report>>

\* A worker dies: its run ends where it is and its lock expires.
CrashEod(w) ==
    /\ EodFault
    /\ accrual[w] # Idle
    /\ accrual' = [accrual EXCEPT ![w] = Idle]
    /\ due' = due \ {w} /\ holders' = holders \ {w}
    /\ UNCHANGED <<clock, book, swaps, snapping, daily, audit, report>>
---------------------------------------------------------------------------
\* runDailyAudit(), at 03:00 and on demand, of the nights: first the positions
\* that yesterday ended with, then their rows.
OpenedByEndOf(p, d) == opened[p] <= 2 * d + 1

StartAudit ==
    /\ audit = NoAudit /\ day > 1
    /\ audit' = [date |-> day - 1, held |-> {p \in held : OpenedByEndOf(p, day - 1)}]
    /\ UNCHANGED <<clock, book, swaps, runs, snapping, daily, report, eodFaults>>

PaidSince(d) == {s.position : s \in {x \in swaps : x.date >= d}}
PaidFor(d) == {s.position : s \in {x \in swaps : x.date = d}}
Verdict(checked, paid) ==
    IF checked = {} THEN "SKIPPED" ELSE IF checked \subseteq paid THEN "OK" ELSE "MISMATCH"
EndAudit ==
    /\ audit # NoAudit
    /\ audit' = NoAudit
    /\ \/ /\ report' = [date |-> audit.date, swap |-> Verdict(audit.held, PaidFor(audit.date))]
          /\ UNCHANGED eodFaults
       \/ /\ EodFault
          /\ report' = [date |-> audit.date, swap |-> "SKIPPED"]
    /\ UNCHANGED <<clock, book, swaps, runs, snapping, daily>>

EodNext ==
    \/ \E p \in Held : Open(p) \/ Close(p)
    \/ Rollover \/ Midnight
    \/ \E w \in EodWorkers :
        StartAccrual(w) \/ EndAccrual(w) \/ CrashEod(w) \/ \E p \in Held : Accrue(w, p)
    \/ \E d \in 1..MaxDays : SnapshotAccount(d)
    \/ StartAudit \/ EndAudit
---------------------------------------------------------------------------
\* Whatever workers run at 22:00 and however long they take, a position pays
\* each night once (the promise in the head of swap.accrual.service.ts).
OneChargePerNight ==
    \A s, t \in swaps : s.position = t.position /\ s.date = t.date => s = t

\* A charge is in the snapshot of one day at most, though a run may begin before
\* midnight and post after it.
SnapshotsCountOnce ==
    MapThenSumSet(LAMBDA d : IF daily[d] = None THEN 0 ELSE daily[d], DOMAIN daily)
        <= MapThenSumSet(LAMBDA s : s.nights, swaps)

\* A swap check that ended OK overlooked no position: whatever was open at 22:00
\* of the audited day and still is has paid that night.
CleanAuditMeansCharged ==
    report.swap = "OK" =>
        \A p \in Held : (p \in held /\ opened[p] <= 2 * report.date) =>
            \E s \in swaps : s.position = p /\ s.date = report.date

\* All of them: a night is charged once, is counted once, and the audit does not
\* vouch for a missing one.
EodSound == OneChargePerNight /\ SnapshotsCountOnce /\ CleanAuditMeansCharged
=============================================================================
