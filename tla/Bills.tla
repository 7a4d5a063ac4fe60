-------------------------------- MODULE Bills --------------------------------
(***************************************************************************)
(* The bills found in the mail of one client: bill_service.py,             *)
(* bill_reminder_task.py and routers/bills.py.                             *)
(*                                                                         *)
(* Bills with the last digits of an account belong to a series, here one;  *)
(* a bill without them is never linked.  Days count from the first         *)
(* reminder: t3 on day 0, t1 on day 1, overdue on day 2, and day 3 comes   *)
(* after them all.                                                         *)
(*                                                                         *)
(* Several processes run a scheduler on the one job store (DeadlineAlerts):*)
(* each that reads the store before a due job is deleted has it to run.    *)
(*                                                                         *)
(* Left out: the extraction of the amount and the biller, pure functions   *)
(* of the body; the list and its buckets, which store nothing; the         *)
(* recipients of a reminder.                                               *)
(***************************************************************************)
EXTENDS Naturals, FiniteSets, Sequences

CONSTANTS MaxBills,     \* bound: bills stored
          Dated,        \* the bills with a due date, in the order of arrival
          Scans,        \* scans of the client's mailboxes, one per user
          Schedulers,   \* processes with a scheduler
          LastMail,     \* bound: the last day a bill mail arrives
          MaxBillFaults \* bound: crashes and refused commits

ASSUME BillsAssumption ==
  /\ {MaxBills, LastMail, MaxBillFaults} \subseteq Nat
  /\ Dated \subseteq 1..MaxBills

VARIABLES
  bills,      \* the bills rows, in the order of their ids
  jobs,       \* reminder jobs in the store
  day,        \* today
  intake,       \* bill mails in progress
  due,        \* per process: jobs it has fetched and not yet run
  firing,     \* per process: the reminder in progress
  paying,     \* the bill whose payment is committed and its jobs not removed
  reminded,   \* history: reminders sent of a bill
  uncounted,  \* history: those of them whose count a fault lost
  stale,      \* history: bills of which two reminders had read the same count
  billFaults  \* bound: faults so far

billVars == << bills, jobs, day, intake, due, firing, paying, reminded, uncounted,
               stale, billFaults >>

Ids       == 1..MaxBills
Tiers     == {"bill_t3", "bill_t1", "bill_overdue"}
DayOf(t)  == CASE t = "bill_t3" -> 0 [] t = "bill_t1" -> 1 [] t = "bill_overdue" -> 2
Keys      == {"none", "series"}
Quiet     == [at |-> "away", parent |-> 0, key |-> "none"]
NotFiring == [bill |-> 0, count |-> 0, late |-> "no", sent |-> "no"]

ReminderMaxPerBill == 3

BillsInit ==
  /\ bills = << >>
  /\ jobs = {}
  /\ day = 0
  /\ intake = [s \in Scans |-> Quiet]
  /\ due = [p \in Schedulers |-> {}]
  /\ firing = [p \in Schedulers |-> NotFiring]
  /\ paying = 0
  /\ reminded = [b \in Ids |-> 0]
  /\ uncounted = [b \in Ids |-> 0]
  /\ stale = {}
  /\ billFaults = 0

-----------------------------------------------------------------------------
Stored == DOMAIN bills
Heads  == {b \in Stored : bills[b].key = "series" /\ bills[b].parent = 0}

BillFault == billFaults < MaxBillFaults /\ billFaults' = billFaults + 1

\* A reminder and a bill mail take seconds: what was begun is over when the day
\* ends.
NextDay ==
  /\ \A s \in Scans : intake[s] = Quiet
  /\ \A p \in Schedulers : due[p] = {} /\ firing[p] = NotFiring
  /\ day < 3 /\ day' = day + 1
  /\ UNCHANGED << bills, jobs, intake, due, firing, paying, reminded, uncounted, stale,
                  billFaults >>

(***************************************************************************)
(* upsert_bill.                                                            *)
(***************************************************************************)
\* A bill mail: the head of its series is looked up, if it has one.
ReadParent(s) ==
  /\ intake[s] = Quiet /\ Len(bills) < MaxBills /\ day <= LastMail
  /\ \E key \in Keys, parent \in Heads \cup {0} :
       /\ parent # 0 <=> key = "series" /\ Heads # {}
       /\ intake' = [intake EXCEPT ![s] = [at |-> "insert", parent |-> parent, key |-> key]]
  /\ UNCHANGED << bills, jobs, day, due, firing, paying, reminded, uncounted, stale, billFaults >>

\* ux_bills_recurrence_key.
KeyFree(s) == intake[s].key = "series" /\ intake[s].parent = 0 => Heads = {}

\* Insert and commit.  Without a due date nothing is left to do.
Insert(s) ==
  /\ intake[s].at = "insert" /\ Len(bills) < MaxBills /\ KeyFree(s)
  /\ bills' = Append(bills, [key |-> intake[s].key, parent |-> intake[s].parent,
                             status |-> "pending", count |-> 0])
  /\ intake' = [intake EXCEPT ![s] =
                IF Len(bills) + 1 \in Dated
                THEN [at |-> "schedule", parent |-> Len(bills) + 1, key |-> "none"]
                ELSE Quiet]
  /\ UNCHANGED << jobs, day, due, firing, paying, reminded, uncounted, stale, billFaults >>

\* The index refuses a second head, or the session fails: the bill is lost,
\* for its mail counts as seen.
InsertFails(s) ==
  /\ intake[s].at = "insert"
  /\ \/ ~KeyFree(s) /\ UNCHANGED billFaults
     \/ BillFault
  /\ intake' = [intake EXCEPT ![s] = Quiet]
  /\ UNCHANGED << bills, jobs, day, due, firing, paying, reminded, uncounted, stale >>

Future == {t \in Tiers : DayOf(t) >= day}

ScheduleBillReminders(s) ==
  /\ intake[s].at = "schedule"
  /\ jobs' = jobs \cup ({intake[s].parent} \X Future)
  /\ intake' = [intake EXCEPT ![s] = Quiet]
  /\ UNCHANGED << bills, day, due, firing, paying, reminded, uncounted, stale, billFaults >>

(***************************************************************************)
(* fire_reminder.                                                          *)
(***************************************************************************)
\* A due job leaves the store for every process that saw it there; it is
\* dropped when it is more than a day late (misfire_grace_time).
Fetch ==
  /\ \E j \in jobs, ps \in SUBSET Schedulers :
       /\ DayOf(j[2]) <= day
       /\ ps = {} <=> DayOf(j[2]) + 1 < day
       /\ jobs' = jobs \ {j}
       /\ due' = [p \in Schedulers |-> IF p \in ps THEN due[p] \cup {j} ELSE due[p]]
  /\ UNCHANGED << bills, day, intake, firing, paying, reminded, uncounted, stale, billFaults >>

Wanted(b) == bills[b].status # "paid" /\ bills[b].count < ReminderMaxPerBill

\* The bill is read; a reminder nobody needs ends here.
FireReminder(p) ==
  /\ firing[p] = NotFiring
  /\ \E j \in due[p] :
       /\ due' = [due EXCEPT ![p] = @ \ {j}]
       /\ firing' = IF Wanted(j[1])
                    THEN [firing EXCEPT ![p] = [bill |-> j[1], count |-> bills[j[1]].count,
                                                late |-> "no", sent |-> "no"]]
                    ELSE firing
       /\ stale' = IF Wanted(j[1]) /\ \E q \in Schedulers : firing[q].bill = j[1]
                   THEN stale \cup {j[1]} ELSE stale
  /\ UNCHANGED << bills, jobs, day, intake, paying, reminded, uncounted, billFaults >>

\* dispatch_non_notice_alert swallows what a sender raises, so that the budget
\* is spent whatever became of the mail.
Remind(p) ==
  /\ firing[p].bill # 0 /\ firing[p].sent = "no"
  /\ reminded' = [reminded EXCEPT ![firing[p].bill] = @ + 1]
  /\ firing' = [firing EXCEPT ![p].sent = "yes"]
  /\ UNCHANGED << bills, jobs, day, intake, due, paying, uncounted, stale, billFaults >>

\* Seeded fault: what was sent is not counted.
Uncounted(p) == firing[p].count

Counted(p) == firing[p].count + 1

\* The commit, of the count that was read before.
CountReminder(p) ==
  /\ firing[p].sent = "yes"
  /\ bills' = [bills EXCEPT ![firing[p].bill].count = Counted(p)]
  /\ firing' = [firing EXCEPT ![p] = NotFiring]
  /\ UNCHANGED << jobs, day, intake, due, paying, reminded, uncounted, stale, billFaults >>

\* The recipients cannot be read, so that nothing is sent nor counted; the commit
\* after the dispatch fails; or the process dies, with all it has fetched.
ReminderFails(p) ==
  /\ firing[p].bill # 0 /\ BillFault
  /\ uncounted' = IF firing[p].sent = "yes"
                  THEN [uncounted EXCEPT ![firing[p].bill] = @ + 1] ELSE uncounted
  /\ firing' = [firing EXCEPT ![p] = NotFiring]
  /\ due' \in {due, [due EXCEPT ![p] = {}]}
  /\ UNCHANGED << bills, jobs, day, intake, paying, reminded, uncounted, stale >>

(***************************************************************************)
(* mark_paid, and one row of a bulk payment.                               *)
(***************************************************************************)
MarkPaid(b) ==
  /\ paying = 0 /\ paying' = b
  /\ bills' = [bills EXCEPT ![b].status = "paid"]
  /\ firing' = [p \in Schedulers |->
                  [firing[p] EXCEPT !.late = IF firing[p].bill = b THEN "yes" ELSE @]]
  /\ UNCHANGED << jobs, day, intake, due, reminded, uncounted, stale, billFaults >>

\* After the strict audit row, which may fail, the jobs go.
RemoveJobs ==
  /\ paying # 0 /\ paying' = 0
  /\ \/ jobs' = jobs \ ({paying} \X Tiers) /\ UNCHANGED billFaults
     \/ BillFault /\ UNCHANGED jobs
  /\ UNCHANGED << bills, day, intake, due, firing, reminded, uncounted, stale >>

-----------------------------------------------------------------------------
BillsNext ==
  \/ NextDay \/ Fetch \/ RemoveJobs
  \/ \E s \in Scans : ReadParent(s) \/ Insert(s) \/ InsertFails(s) \/ ScheduleBillReminders(s)
  \/ \E p \in Schedulers : FireReminder(p) \/ Remind(p) \/ CountReminder(p) \/ ReminderFails(p)
  \/ \E b \in Stored : MarkPaid(b)

-----------------------------------------------------------------------------
(***************************************************************************)
(* Properties.                                                             *)
(***************************************************************************)
\* The rows, the jobs and the operations keep their types: what is scheduled,
\* fetched, fired or paid is a stored bill, and no reminder is begun above the
\* maximum.
BillsTypeOK ==
  /\ bills \in Seq([key : Keys, parent : Nat, status : {"pending", "paid"}, count : Nat])
  /\ Len(bills) <= MaxBills
  /\ \A b \in Stored : bills[b].count <= ReminderMaxPerBill
  /\ jobs \subseteq Stored \X Tiers
  /\ day \in 0..3
  /\ intake \in [Scans -> [at : {"away", "insert", "schedule"}, parent : Nat,
                         key : Keys]]
  /\ \A s \in Scans : intake[s].at = "schedule" => intake[s].parent \in Stored
  /\ due \in [Schedulers -> SUBSET (Stored \X Tiers)]
  /\ firing \in [Schedulers -> [bill : Nat, count : Nat, late : {"no", "yes"},
                              sent : {"no", "yes"}]]
  /\ \A p \in Schedulers :
       /\ firing[p] = NotFiring \/ firing[p].bill \in Stored
       /\ firing[p].count < ReminderMaxPerBill
  /\ paying \in Stored \cup {0}
  /\ reminded \in [Ids -> Nat] /\ uncounted \in [Ids -> Nat]
  /\ stale \subseteq Stored
  /\ billFaults \in 0..MaxBillFaults

\* However many mailboxes of the client receive the bills of a series, it has
\* one head, and every later bill of the series hangs on it.
OneHeadPerSeries ==
  /\ Cardinality(Heads) <= 1
  /\ \A b \in Stored : bills[b].key = "series" => b \in Heads \/ bills[b].parent \in Heads

\* A reminder that goes out is due, though every process may have fetched its job
\* and the jobs may outlive the payment: the bill was not paid before its reminder
\* was begun, and of the three there may be, fewer are out - besides those whose
\* count was lost after the mails had left, and unless two processes had the same
\* bill in hand at once.
RemindersAreDue ==
  [][\A b \in Stored : reminded'[b] # reminded[b] =>
       /\ bills[b].status = "paid" =>
            \E p \in Schedulers : firing[p].bill = b /\ firing[p].late = "yes"
       /\ reminded[b] < ReminderMaxPerBill + uncounted[b] \/ b \in stale]_billVars
=============================================================================
