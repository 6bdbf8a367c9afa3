----------------------------- MODULE MailQueue -----------------------------
(***************************************************************************)
(* The mail module: a mail is stored, then a job for it is added to the    *)
(* BullMQ queue; a worker renders and sends it and writes the outcome; the *)
(* retry handler queues failed mails again.  One action per await.  Reads  *)
(* may be answered by TypeORM's query cache (redis.host is mandatory, so   *)
(* it is always on), which no write invalidates.                           *)
(* BullMQ is external: one attempt per job, and the job of a crashed worker*)
(* is found stalled and run again, or given up.                            *)
(***************************************************************************)
EXTENDS Naturals, FiniteSets

CONSTANTS
    Mail,       \* mails (a bound)
    Worker,     \* jobs processed at once, over all processes
    Retry,      \* RetryFailedMails commands executed at once
    MaxAttempts, \* a mail that failed as often is not retried (canRetry: 5)
    MaxJobs,    \* a bound: no retry begins that could give a mail one more job
    MaxCrashes, \* a bound: how often a worker dies
    NoMail      \* a query that found no row; a worker without a job

MailStatus == {"PENDING", "SENT", "FAILED"}

MailRow == [status : MailStatus \cup {"none", "deleted"}, attempts : Nat]

WorkerState == [pc : {"idle", "template", "smtp", "markSent", "readMail", "markFailed", "ack"},
                mail : Mail \cup {NoMail}, attempts : Nat]

RetryState == [pc : {"idle", "mark", "queue"}, todo : SUBSET Mail, mail : Mail \cup {NoMail}]

\* The cached answers, {} or {answer}: the template, each mail's attempts by
\* id, the retryable mails.
CacheState == [template : SUBSET {"active", "inactive", "none"},
               mail : [Mail -> SUBSET ({NoMail} \cup Nat)], failed : SUBSET SUBSET Mail]

Idle == [pc |-> "idle", mail |-> NoMail, attempts |-> 0]
IdleRetry == [pc |-> "idle", todo |-> {}, mail |-> NoMail]

ASSUME MailConstants ==
    /\ MaxAttempts \in Nat \ {0}
    /\ IsFiniteSet(Worker)
    /\ MaxJobs \in Nat /\ MaxCrashes \in Nat
    /\ NoMail \notin Mail /\ NoMail \notin Nat

VARIABLES
    template,   \* the template of these mails: "active", "inactive" or "none"
    mail,       \* the mail table
    producer,   \* the handler that sends each mail: "idle", "queue", "done", "failed"
    queued,     \* jobs waiting, per mail
    worker,     \* the jobs being processed
    retry,      \* the retry commands being executed
    cache,      \* TypeORM's query cache
    sent,       \* messages the SMTP server accepted, per mail
    jobs,       \* history: job runs the queue owed each mail, redeliveries included
    faulted,    \* history: mails a failing await or a crash left without a job
    strayed,    \* history: mails given a job that was not due
    crashes

vars == <<template, mail, producer, queued, worker, retry, cache, sent, jobs, faulted, strayed,
          crashes>>

TypeOK ==
    /\ template \in {"active", "inactive", "none"}
    /\ mail \in [Mail -> MailRow]
    /\ producer \in [Mail -> {"idle", "queue", "done", "failed"}]
    /\ queued \in [Mail -> Nat]
    /\ worker \in [Worker -> WorkerState]
    /\ retry \in [Retry -> RetryState]
    /\ cache \in CacheState
    /\ sent \in [Mail -> Nat]
    /\ jobs \in [Mail -> Nat]
    /\ faulted \subseteq Mail
    /\ strayed \subseteq Mail
    /\ crashes \in 0..MaxCrashes

Init ==
    /\ template = "active"
    /\ mail = [m \in Mail |-> [status |-> "none", attempts |-> 0]]
    /\ producer = [m \in Mail |-> "idle"]
    /\ queued = [m \in Mail |-> 0]
    /\ worker = [w \in Worker |-> Idle]
    /\ retry = [r \in Retry |-> IdleRetry]
    /\ cache = [template |-> {}, mail |-> [m \in Mail |-> {}], failed |-> {}]
    /\ sent = [m \in Mail |-> 0]
    /\ jobs = [m \in Mail |-> 0]
    /\ faulted = {} /\ strayed = {}
    /\ crashes = 0

\* The answer to a read: the cached one, or what the table says.
Answer(cached, fresh) == IF cached = {} THEN fresh ELSE CHOOSE x \in cached : TRUE
Kept(answer) == {answer}

ReadTemplate == Answer(cache.template, template)
RememberTemplate == cache' = [cache EXCEPT !.template = Kept(ReadTemplate)]

\* findById, also the re-read in update, which has written these attempts: the
\* attempts of the row, or no row.
Stored(m) == mail[m].status \in MailStatus
Reread(m, attempts) == Answer(cache.mail[m], IF Stored(m) THEN attempts ELSE NoMail)
ReadAttempts(m) == Reread(m, mail[m].attempts)
Remember(m, attempts) == cache' = [cache EXCEPT !.mail[m] = Kept(Reread(m, attempts))]
RememberMail(m) == Remember(m, mail[m].attempts)

\* UPDATE ... WHERE id: no row, no effect.
Update(m, row) == mail' = IF Stored(m) THEN [mail EXCEPT ![m] = row] ELSE mail

AddJob(m) ==
    /\ queued' = [queued EXCEPT ![m] = @ + 1]
    /\ jobs' = [jobs EXCEPT ![m] = @ + 1]

Goto(w, label) == worker' = [worker EXCEPT ![w].pc = label]

----------------------------------------------------------------------------
(* Producers: SendMailHandler, UserCreatedEmailEventHandler, the magic link *)
(* and the OAuth handlers all store the mail, then add its job.             *)

\* mailRepository.create: refused without a template.
CreateMail(m) ==
    /\ producer[m] = "idle"
    /\ RememberTemplate
    /\ IF ReadTemplate # "none" /\ template # "none"
       THEN /\ mail' = [mail EXCEPT ![m].status = "PENDING"]
            /\ producer' = [producer EXCEPT ![m] = "queue"]
       ELSE producer' = [producer EXCEPT ![m] = "failed"] /\ UNCHANGED mail
    /\ UNCHANGED <<template, queued, worker, retry, sent, jobs, faulted, strayed, crashes>>

\* addToQueue.
QueueMail(m) ==
    /\ producer[m] = "queue"
    /\ AddJob(m)
    /\ producer' = [producer EXCEPT ![m] = "done"]
    /\ UNCHANGED <<template, mail, worker, retry, cache, sent, faulted, strayed, crashes>>

\* Redis refuses the job, or the process dies before it is added.
ProducerFails(m) ==
    /\ producer[m] = "queue"
    /\ producer' = [producer EXCEPT ![m] = "failed"]
    /\ faulted' = faulted \cup {m}
    /\ UNCHANGED <<template, mail, queued, worker, retry, cache, sent, jobs, strayed, crashes>>

----------------------------------------------------------------------------
(* MailProcessor.process: MailService.sendMail *)

\* The queue hands a waiting job to a free worker.
TakeJob(w, m) ==
    /\ worker[w].pc = "idle"
    /\ queued[m] > 0
    /\ queued' = [queued EXCEPT ![m] = @ - 1]
    /\ worker' = [worker EXCEPT ![w] = [pc |-> "template", mail |-> m, attempts |-> 0]]
    /\ UNCHANGED <<template, mail, producer, retry, cache, sent, jobs, faulted, strayed, crashes>>

\* findByName; a missing or inactive template throws, a rejected read too.
FindTemplate(w) ==
    /\ worker[w].pc = "template"
    /\ RememberTemplate
    /\ \/ ReadTemplate = "active" /\ Goto(w, "smtp")
       \/ Goto(w, "readMail")
    /\ UNCHANGED <<template, mail, producer, queued, retry, sent, jobs, faulted,
                   strayed, crashes>>

\* Mutant of Smtp: a failed call is repeated on the spot.
SmtpAgain(w) ==
    LET m == worker[w].mail IN
    /\ worker[w].pc = "smtp"
    /\ sent[m] < MaxJobs + 2
    /\ sent' = [sent EXCEPT ![m] = @ + 1]
    /\ Goto(w, "markSent") \/ UNCHANGED worker
    /\ UNCHANGED <<template, mail, producer, queued, retry, cache, jobs, faulted,
                   strayed, crashes>>

\* mailerService.sendMail: accepted, rejected, or accepted with an error.
Smtp(w) ==
    LET m == worker[w].mail IN
    /\ worker[w].pc = "smtp"
    /\ \/ sent' = [sent EXCEPT ![m] = @ + 1] /\ Goto(w, "markSent")
       \/ sent' = [sent EXCEPT ![m] = @ + 1] /\ Goto(w, "readMail")
       \/ Goto(w, "readMail") /\ UNCHANGED sent
    /\ UNCHANGED <<template, mail, producer, queued, retry, cache, jobs, faulted,
                   strayed, crashes>>

\* update to SENT: an UPDATE and a re-read; either may reject, and the
\* re-read throws when the row is gone: then the catch marks it FAILED.
MarkSent(w) ==
    LET m == worker[w].mail IN
    /\ worker[w].pc = "markSent"
    /\ \/ /\ Update(m, [mail[m] EXCEPT !.status = "SENT"])
          /\ RememberMail(m)
          /\ Goto(w, IF ReadAttempts(m) = NoMail THEN "readMail" ELSE "ack")
       \/ /\ Update(m, [mail[m] EXCEPT !.status = "SENT"])
          /\ Goto(w, "readMail")
          /\ UNCHANGED cache
       \/ Goto(w, "readMail") /\ UNCHANGED <<mail, cache>>
    /\ UNCHANGED <<template, producer, queued, retry, sent, jobs, faulted, strayed, crashes>>

\* Mutant of ReadMail: no "|| 0" for a row that is gone.
ReadMailUnguarded(w) ==
    LET m == worker[w].mail IN
    /\ worker[w].pc = "readMail"
    /\ RememberMail(m)
    /\ worker' = [worker EXCEPT ![w] =
            [pc |-> "markFailed", mail |-> m, attempts |-> ReadAttempts(m)]]
    /\ UNCHANGED <<template, mail, producer, queued, retry, sent, jobs, faulted,
                   strayed, crashes>>

\* catch: findById, for the attempts so far.
ReadMail(w) ==
    LET m == worker[w].mail IN
    /\ worker[w].pc = "readMail"
    /\ RememberMail(m)
    /\ worker' = [worker EXCEPT ![w] =
            [pc |-> "markFailed", mail |-> m,
             attempts |-> IF ReadAttempts(m) = NoMail THEN 0 ELSE ReadAttempts(m)]]
    /\ UNCHANGED <<template, mail, producer, queued, retry, sent, jobs, faulted,
                   strayed, crashes>>

\* update to FAILED; whatever its re-read says, the handler throws.
MarkFailed(w) ==
    LET m == worker[w].mail IN
    /\ worker[w].pc = "markFailed"
    /\ Update(m, [status |-> "FAILED", attempts |-> worker[w].attempts + 1])
    /\ Remember(m, worker[w].attempts + 1)
    /\ Goto(w, "ack")
    /\ UNCHANGED <<template, producer, queued, retry, sent, jobs, faulted, strayed, crashes>>

\* The catch itself fails: the mail keeps the status it had.
CatchFails(w) ==
    /\ worker[w].pc \in {"readMail", "markFailed"}
    /\ Goto(w, "ack")
    /\ faulted' = faulted \cup {worker[w].mail}
    /\ UNCHANGED <<template, mail, producer, queued, retry, cache, sent, jobs, strayed, crashes>>

\* BullMQ moves the job to completed or failed: it is over either way.
Ack(w) ==
    /\ worker[w].pc = "ack"
    /\ worker' = [worker EXCEPT ![w] = Idle]
    /\ UNCHANGED <<template, mail, producer, queued, retry, cache, sent, jobs, faulted,
                   strayed, crashes>>

\* The worker's process dies; its job is found stalled, and run again by
\* another worker (though its outcome may be written already), or given up if
\* it had stalled before.
Crash(w) ==
    LET m == worker[w].mail IN
    /\ worker[w].pc # "idle"
    /\ crashes < MaxCrashes
    /\ crashes' = crashes + 1
    /\ worker' = [worker EXCEPT ![w] = Idle]
    /\ \/ /\ AddJob(m)
          /\ strayed' = IF worker[w].pc = "ack" THEN strayed \cup {m} ELSE strayed
          /\ UNCHANGED faulted
       \/ faulted' = faulted \cup {m} /\ UNCHANGED <<queued, jobs, strayed>>
    /\ UNCHANGED <<template, mail, producer, retry, cache, sent>>

----------------------------------------------------------------------------
(* RetryFailedMailsHandler.execute *)

\* Mutant of CanRetry: one more.
CanRetryOnceMore(m) == mail[m].status = "FAILED" /\ mail[m].attempts <= MaxAttempts

CanRetry(m) == mail[m].status = "FAILED" /\ mail[m].attempts < MaxAttempts

\* Mutant of Retryable: a mail is judged by its attempts alone.
RetryableByAttempts == {m \in Mail : Stored(m) /\ mail[m].attempts < MaxAttempts}

\* findFailedMails and the filter.
Retryable == {m \in Mail : CanRetry(m)}

RetryFind(r) ==
    LET found == Answer(cache.failed, Retryable) IN
    /\ retry[r].pc = "idle"
    /\ \A m \in Mail : jobs[m] + Cardinality({q \in Retry : retry[q].pc # "idle"}) < MaxJobs
    /\ cache' = [cache EXCEPT !.failed = Kept(found)]
    /\ retry' = [retry EXCEPT ![r].pc = IF found = {} THEN "idle" ELSE "mark",
                              ![r].todo = found]
    /\ UNCHANGED <<template, mail, producer, queued, worker, sent, jobs, faulted,
                   strayed, crashes>>

\* update to PENDING of the next mail on the list, whatever it has become;
\* a row that is gone throws, and the rest of the list is dropped.
RetryMark(r) ==
    /\ retry[r].pc = "mark"
    /\ \E m \in retry[r].todo :
          /\ Update(m, [mail[m] EXCEPT !.status = "PENDING"])
          /\ RememberMail(m)
          /\ retry' = [retry EXCEPT ![r] =
                IF ReadAttempts(m) = NoMail THEN IdleRetry
                ELSE [pc |-> "queue", todo |-> retry[r].todo \ {m}, mail |-> m]]
          /\ strayed' = IF CanRetry(m) THEN strayed ELSE strayed \cup {m}
    /\ UNCHANGED <<template, producer, queued, worker, sent, jobs, faulted, crashes>>

\* Mutant of RetryQueue: the job is keyed by the mail, so that BullMQ drops
\* it while an earlier one is known.
RetryQueueKeyed(r) ==
    LET m == retry[r].mail IN
    /\ retry[r].pc = "queue"
    /\ IF queued[m] > 0 \/ \E w \in Worker : worker[w].mail = m
       THEN UNCHANGED <<queued, jobs>> ELSE AddJob(m)
    /\ retry' = [retry EXCEPT ![r] = IF retry[r].todo = {} THEN IdleRetry
                                     ELSE [retry[r] EXCEPT !.pc = "mark", !.mail = NoMail]]
    /\ UNCHANGED <<template, mail, producer, worker, cache, sent, faulted, strayed, crashes>>

\* addToQueue, then the next mail.
RetryQueue(r) ==
    /\ retry[r].pc = "queue"
    /\ AddJob(retry[r].mail)
    /\ retry' = [retry EXCEPT ![r] = IF retry[r].todo = {} THEN IdleRetry
                                     ELSE [retry[r] EXCEPT !.pc = "mark", !.mail = NoMail]]
    /\ UNCHANGED <<template, mail, producer, worker, cache, sent, faulted, strayed, crashes>>

\* An await rejects or the process dies: the rest of the list is dropped.
RetryFails(r) ==
    /\ retry[r].pc # "idle"
    /\ retry' = [retry EXCEPT ![r] = IdleRetry]
    /\ faulted' = IF retry[r].pc = "queue" THEN faulted \cup {retry[r].mail} ELSE faulted
    /\ UNCHANGED <<template, mail, producer, queued, worker, cache, sent, jobs, strayed, crashes>>

----------------------------------------------------------------------------
\* createTemplate, isActive as given.
CreateTemplate ==
    /\ template = "none"
    /\ template' \in {"active", "inactive"}
    /\ UNCHANGED <<mail, producer, queued, worker, retry, cache, sent, jobs, faulted,
                   strayed, crashes>>

\* updateTemplate: isActive.
ToggleTemplate ==
    /\ template # "none"
    /\ template' = IF template = "active" THEN "inactive" ELSE "active"
    /\ UNCHANGED <<mail, producer, queued, worker, retry, cache, sent, jobs, faulted,
                   strayed, crashes>>

\* deleteTemplate: the mails go with it (onDelete: CASCADE).
DeleteTemplate ==
    /\ template # "none"
    /\ template' = "none"
    /\ mail' = [m \in Mail |-> IF Stored(m) THEN [mail[m] EXCEPT !.status = "deleted"]
                                            ELSE mail[m]]
    /\ UNCHANGED <<producer, queued, worker, retry, cache, sent, jobs, faulted, strayed, crashes>>

\* redis.duration (1000 ms) is over for a cached answer.
CacheExpires ==
    /\ \/ cache.template # {} /\ cache' = [cache EXCEPT !.template = {}]
       \/ cache.failed # {} /\ cache' = [cache EXCEPT !.failed = {}]
       \/ \E m \in Mail : /\ cache.mail[m] # {}
                          /\ cache' = [cache EXCEPT !.mail[m] = {}]
    /\ UNCHANGED <<template, mail, producer, queued, worker, retry, sent, jobs, faulted,
                   strayed, crashes>>

WorkerStep(w) ==
    \/ FindTemplate(w) \/ Smtp(w) \/ MarkSent(w) \/ ReadMail(w) \/ MarkFailed(w)
    \/ CatchFails(w) \/ Ack(w)
RetryStep(r) == RetryMark(r) \/ RetryQueue(r) \/ RetryFails(r)

Next ==
    \/ \E m \in Mail : CreateMail(m) \/ QueueMail(m) \/ ProducerFails(m)
    \/ \E w \in Worker, m \in Mail : TakeJob(w, m)
    \/ \E w \in Worker : WorkerStep(w) \/ Crash(w)
    \/ \E r \in Retry : RetryFind(r) \/ RetryStep(r)
    \/ CreateTemplate \/ ToggleTemplate \/ DeleteTemplate \/ CacheExpires

Spec == Init /\ [][Next]_vars

\* The queue hands out its jobs, and every await settles.
Fairness ==
    /\ \A w \in Worker : WF_vars(\E m \in Mail : TakeJob(w, m)) /\ WF_vars(WorkerStep(w))
    /\ \A m \in Mail : WF_vars(QueueMail(m) \/ ProducerFails(m))
    /\ \A r \in Retry : WF_vars(RetryStep(r))

FairSpec == Spec /\ Fairness

----------------------------------------------------------------------------
(* Properties *)

\* Something still has the mail in hand.
InHand(m, stages) ==
    \/ producer[m] = "queue"
    \/ queued[m] > 0
    \/ \E w \in Worker : worker[w].mail = m /\ worker[w].pc \in stages
    \/ \E r \in Retry : retry[r].mail = m \/ m \in retry[r].todo

Sending == {"template", "smtp", "markSent", "readMail", "markFailed"}

\* A mail that says PENDING is on its way: unless an await failed or a
\* process died between its row and its job, something will still write an
\* outcome, even with overlapping retries, duplicate jobs and stale reads.
PendingIsInHand ==
    \A m \in Mail : mail[m].status = "PENDING" /\ m \notin faulted => InHand(m, Sending)

\* Nobody is sent a mail more often than jobs were run for it, retries and
\* redeliveries counted.
OneMessagePerJob == \A m \in Mail : sent[m] <= jobs[m]

\* Sent, or deleted with its template, and nothing has it in hand: nor does a
\* cached answer still list it as failed.
Over(m) ==
    /\ mail[m].status \in {"SENT", "deleted"}
    /\ ~InHand(m, Sending \cup {"ack"})
    /\ \A list \in cache.failed : m \notin list

\* A mail that is over stays over: no retry picks it up, so that it is never
\* sent again nor marked FAILED after all.  Only a list a retry holds, or will
\* be answered from the cache, brings a mail back.
SentStaysSent == [][\A m \in Mail : Over(m) => Over(m)']_vars

\* mail.module.ts:75, "Failed email retry (up to 5 attempts)".
AttemptsCapped == \A m \in Mail : mail[m].attempts <= MaxAttempts

\* What is left of it: a mail is attempted more often only after a retry queued
\* it though it could not be retried any more (its list was stale), or after a
\* job whose outcome was written was run again.  Stale attempts, faults and
\* other redeliveries do not get past the limit.
CappedUnlessStrayed == \A m \in Mail \ strayed : mail[m].attempts <= MaxAttempts

\* Every job ends: a mail that is PENDING gets an outcome, is deleted with
\* its template, or is one that a fault left without a job.
PendingIsSettled ==
    \A m \in Mail :
        mail[m].status = "PENDING" ~> mail[m].status # "PENDING" \/ m \in faulted

=============================================================================
