--------------------------- MODULE MailQueueProofs ---------------------------
(***************************************************************************)
(* Proofs about MailQueue, for any mails, workers, retry commands and      *)
(* bounds, with any answers of the query cache.  The invariant adds to the *)
(* typing that nothing has a mail in hand before its row exists (RowOK),   *)
(* what a worker and a retry hold (WorkerOK, RetryOK), who has a PENDING   *)
(* mail in hand (PendingOK) and that a job sends at most once (JobsOK).    *)
(* The bound on attempts rests on a second one, in the last section: one   *)
(* hand at a time has a mail (CapOK).                                      *)
(***************************************************************************)
EXTENDS MailQueue, FiniteSetTheorems, TLAPS

\* Nothing has the mail in hand; no answer about it is remembered.
Away(m) ==
    /\ producer[m] # "queue" /\ queued[m] = 0
    /\ \A w \in Worker : worker[w].mail # m
    /\ \A r \in Retry : retry[r].mail # m /\ m \notin retry[r].todo

Unread(m) == (\A S \in cache.failed : m \notin S) /\ cache.mail[m] = {}

\* A mail has a row before anything knows of it; a read that found none found
\* the row deleted.
RowOf(m) ==
    /\ mail[m].status = "none" => Away(m) /\ Unread(m)
    /\ producer[m] = "idle" => mail[m].status = "none"
    /\ NoMail \in cache.mail[m] => mail[m].status = "deleted"

RowOK == \A m \in Mail : RowOf(m)

WorkerOK ==
    \A w \in Worker :
        /\ worker[w].pc # "idle" => worker[w].mail \in Mail
        /\ worker[w].pc = "idle" => worker[w].mail = NoMail

RetryOK ==
    \A r \in Retry :
        /\ retry[r].pc = "queue" => retry[r].mail \in Mail
        /\ retry[r].pc # "queue" => retry[r].mail = NoMail

\* PendingIsInHand, without the retries that have the mail on their list only:
\* these may drop it.
Held(m) ==
    \/ producer[m] = "queue"
    \/ queued[m] > 0
    \/ \E w \in Worker : worker[w].mail = m /\ worker[w].pc \in Sending
    \/ \E r \in Retry : retry[r].mail = m

PendingOK == \A m \in Mail : mail[m].status = "PENDING" /\ m \notin faulted => Held(m)

\* The jobs of a mail that have not reached the SMTP server.
Unsent(m) == {w \in Worker : worker[w].mail = m /\ worker[w].pc \in {"template", "smtp"}}

JobsOK == \A m \in Mail : sent[m] + queued[m] + Cardinality(Unsent(m)) <= jobs[m]

IInv == TypeOK /\ RowOK /\ WorkerOK /\ RetryOK /\ PendingOK /\ JobsOK

----------------------------------------------------------------------------
\* The fields of the records.
LEMMA Fields ==
  ASSUME TypeOK
  PROVE  /\ \A m \in Mail : mail[m] \in MailRow /\ mail[m].attempts \in Nat
         /\ \A w \in Worker : /\ worker[w] \in WorkerState /\ worker[w].attempts \in Nat
                              /\ worker[w].mail \in Mail \cup {NoMail}
         /\ \A r \in Retry : /\ retry[r] \in RetryState /\ retry[r].todo \subseteq Mail
                             /\ retry[r].mail \in Mail \cup {NoMail}
         /\ cache.template \subseteq {"active", "inactive", "none"}
         /\ cache.mail \in [Mail -> SUBSET ({NoMail} \cup Nat)]
         /\ cache.failed \subseteq SUBSET Mail
BY DEF TypeOK, MailRow, WorkerState, RetryState, CacheState

\* What the reads return: what the table says, or a cached answer.
LEMMA TemplateRead ==
  ASSUME TypeOK PROVE ReadTemplate \in {"active", "inactive", "none"}
<1>1. cache.template \subseteq {"active", "inactive", "none"}
  BY Fields
<1>2. template \in {"active", "inactive", "none"}
  BY DEF TypeOK
<1>3. cache.template # {} => (CHOOSE x \in cache.template : TRUE) \in cache.template
  OBVIOUS
<1>4. QED
  BY <1>1, <1>2, <1>3 DEF ReadTemplate, Answer

LEMMA AttemptsRead ==
  ASSUME TypeOK, NEW m \in Mail, NEW attempts \in Nat
  PROVE  /\ Reread(m, attempts) \in {NoMail} \cup Nat
         /\ Reread(m, attempts) = NoMail => NoMail \in cache.mail[m] \/ ~Stored(m)
         /\ Reread(m, attempts) # NoMail =>
               Reread(m, attempts) = attempts \/ Reread(m, attempts) \in cache.mail[m]
<1>1. cache.mail[m] \subseteq {NoMail} \cup Nat
  BY Fields
<1>2. cache.mail[m] # {} => (CHOOSE x \in cache.mail[m] : TRUE) \in cache.mail[m]
  OBVIOUS
<1>3. NoMail \notin Nat
  BY MailConstants
<1>4. QED
  BY <1>1, <1>2, <1>3 DEF Reread, Answer

LEMMA FailedRead ==
  ASSUME TypeOK
  PROVE  /\ Answer(cache.failed, Retryable) \subseteq Mail
         /\ Answer(cache.failed, Retryable) \in cache.failed \cup {Retryable}
<1>1. cache.failed \subseteq SUBSET Mail
  BY Fields
<1>2. cache.failed # {} => (CHOOSE x \in cache.failed : TRUE) \in cache.failed
  OBVIOUS
<1>3. Retryable \subseteq Mail
  BY DEF Retryable
<1>4. QED
  BY <1>1, <1>2, <1>3 DEF Answer

\* What a read leaves in the cache.
LEMMA TemplateRemembered ==
  ASSUME TypeOK, RememberTemplate
  PROVE  cache' \in CacheState /\ cache'.mail = cache.mail /\ cache'.failed = cache.failed
<1>1. Kept(ReadTemplate) \subseteq {"active", "inactive", "none"}
  BY TemplateRead DEF Kept
<1>2. QED
  BY <1>1 DEF TypeOK, CacheState, RememberTemplate

LEMMA MailRemembered ==
  ASSUME TypeOK, NEW m \in Mail, NEW attempts \in Nat, Remember(m, attempts)
  PROVE  /\ cache' \in CacheState /\ cache'.failed = cache.failed
         /\ cache'.mail[m] = {Reread(m, attempts)}
         /\ \A n \in Mail \ {m} : cache'.mail[n] = cache.mail[n]
<1>1. Kept(Reread(m, attempts)) \subseteq {NoMail} \cup Nat
  BY AttemptsRead DEF Kept
<1>2. cache' = [cache EXCEPT !.mail = [cache.mail EXCEPT ![m] = Kept(Reread(m, attempts))]]
  BY DEF Remember
<1>3. cache.mail \in [Mail -> SUBSET ({NoMail} \cup Nat)]
  BY Fields
<1>4. [cache.mail EXCEPT ![m] = Kept(Reread(m, attempts))]
        \in [Mail -> SUBSET ({NoMail} \cup Nat)]
  BY <1>1, <1>3
<1>5. /\ cache' \in CacheState /\ cache'.failed = cache.failed
      /\ cache'.mail = [cache.mail EXCEPT ![m] = Kept(Reread(m, attempts))]
  BY <1>2, <1>4 DEF TypeOK, CacheState
<1>6. QED
  BY <1>3, <1>5 DEF Kept

\* The reads and updates of a worker and of a retry are such reads.
LEMMA RowReads ==
  ASSUME TypeOK, NEW m \in Mail
  PROVE  /\ mail[m].attempts \in Nat /\ ReadAttempts(m) = Reread(m, mail[m].attempts)
         /\ RememberMail(m) <=> Remember(m, mail[m].attempts)
BY Fields DEF ReadAttempts, RememberMail

\* An UPDATE changes the row of its mail only, if there is one.
LEMMA Updated ==
  ASSUME TypeOK, NEW m \in Mail, NEW row \in MailRow, Update(m, row)
  PROVE  /\ mail' \in [Mail -> MailRow]
         /\ \A n \in Mail \ {m} : mail'[n] = mail[n]
         /\ Stored(m) => mail'[m] = row
         /\ ~Stored(m) => mail'[m] = mail[m]
BY DEF Update, TypeOK

LEMMA StatusRow ==
  ASSUME TypeOK, NEW m \in Mail, NEW status \in MailStatus
  PROVE  /\ [mail[m] EXCEPT !.status = status] \in MailRow
         /\ [mail[m] EXCEPT !.status = status].status = status
BY Fields DEF MailRow

\* A worker goes on with its mail.
LEMMA Moved ==
  ASSUME TypeOK, NEW w \in Worker, NEW label, Goto(w, label),
         label \in {"smtp", "markSent", "readMail", "markFailed", "ack"}
  PROVE  /\ worker' \in [Worker -> WorkerState]
         /\ worker'[w].pc = label /\ worker'[w].mail = worker[w].mail
         /\ \A v \in Worker \ {w} : worker'[v] = worker[v]
<1>1. worker' = [worker EXCEPT ![w] = [worker[w] EXCEPT !.pc = label]]
  BY DEF Goto, TypeOK
<1>2. /\ [worker[w] EXCEPT !.pc = label] \in WorkerState
      /\ [worker[w] EXCEPT !.pc = label].pc = label
      /\ [worker[w] EXCEPT !.pc = label].mail = worker[w].mail
  BY Fields DEF WorkerState
<1>3. QED
  BY <1>1, <1>2 DEF TypeOK

\* A worker without a job.
LEMMA Stopped ==
  ASSUME TypeOK, NEW w \in Worker, worker' = [worker EXCEPT ![w] = Idle]
  PROVE  /\ worker' \in [Worker -> WorkerState]
         /\ worker'[w].pc = "idle" /\ worker'[w].mail = NoMail
         /\ \A v \in Worker \ {w} : worker'[v] = worker[v]
BY DEF TypeOK, WorkerState, Idle

\* A retry without a list.
LEMMA Dropped ==
  ASSUME TypeOK, NEW r \in Retry, retry' = [retry EXCEPT ![r] = IdleRetry]
  PROVE  /\ retry' \in [Retry -> RetryState]
         /\ retry'[r].pc = "idle" /\ retry'[r].mail = NoMail /\ retry'[r].todo = {}
         /\ \A s \in Retry \ {r} : retry'[s] = retry[s]
BY DEF TypeOK, RetryState, IdleRetry

\* A retry that goes on with its list.
LEMMA ListResumed ==
  ASSUME NEW x \in RetryState
  PROVE  /\ [x EXCEPT !.pc = "mark", !.mail = NoMail] \in RetryState
         /\ [x EXCEPT !.pc = "mark", !.mail = NoMail].pc = "mark"
         /\ [x EXCEPT !.pc = "mark", !.mail = NoMail].todo = x.todo
         /\ [x EXCEPT !.pc = "mark", !.mail = NoMail].mail = NoMail
BY DEF RetryState

\* A job more, for one mail.
LEMMA Added ==
  ASSUME TypeOK, NEW m \in Mail, AddJob(m)
  PROVE  /\ queued' \in [Mail -> Nat] /\ jobs' \in [Mail -> Nat]
         /\ queued'[m] = queued[m] + 1 /\ jobs'[m] = jobs[m] + 1
         /\ \A n \in Mail \ {m} : queued'[n] = queued[n] /\ jobs'[n] = jobs[n]
BY DEF TypeOK, AddJob
\* What each step of a retry does to its list.
LEMMA RetryFound ==
  ASSUME TypeOK, NEW r \in Retry, RetryFind(r)
  PROVE  /\ retry' \in [Retry -> RetryState]
         /\ retry'[r].pc \in {"idle", "mark"} /\ retry'[r].mail = retry[r].mail
         /\ retry'[r].todo = Answer(cache.failed, Retryable)
         /\ \A s \in Retry \ {r} : retry'[s] = retry[s]
<1> DEFINE found == Answer(cache.failed, Retryable)
           label == IF found = {} THEN "idle" ELSE "mark"
<1>1. found \in SUBSET Mail /\ label \in {"idle", "mark"} /\ retry[r] \in RetryState
  BY FailedRead DEF TypeOK
<1>2. retry' = [retry EXCEPT ![r] = [retry[r] EXCEPT !.pc = label, !.todo = found]]
  BY DEF RetryFind, TypeOK
<1> HIDE DEF found, label
<1>3. /\ [retry[r] EXCEPT !.pc = label, !.todo = found] \in RetryState
      /\ [retry[r] EXCEPT !.pc = label, !.todo = found].pc = label
      /\ [retry[r] EXCEPT !.pc = label, !.todo = found].todo = found
      /\ [retry[r] EXCEPT !.pc = label, !.todo = found].mail = retry[r].mail
  BY <1>1 DEF RetryState
<1>4. retry \in [Retry -> RetryState]
  BY DEF TypeOK
<1>5. /\ retry' \in [Retry -> RetryState]
      /\ retry'[r].pc = label /\ retry'[r].mail = retry[r].mail /\ retry'[r].todo = found
      /\ \A s \in Retry \ {r} : retry'[s] = retry[s]
  BY <1>2, <1>3, <1>4
<1>6. QED
  BY <1>1, <1>5 DEF found

LEMMA RetryMarked ==
  ASSUME TypeOK, NEW r \in Retry, RetryMark(r)
  PROVE  \E m \in retry[r].todo :
            /\ m \in Mail
            /\ Update(m, [mail[m] EXCEPT !.status = "PENDING"]) /\ RememberMail(m)
            /\ retry' \in [Retry -> RetryState]
            /\ \/ ReadAttempts(m) = NoMail /\ retry'[r] = IdleRetry
               \/ /\ ReadAttempts(m) # NoMail
                  /\ retry'[r] = [pc |-> "queue", todo |-> retry[r].todo \ {m}, mail |-> m]
            /\ \A s \in Retry \ {r} : retry'[s] = retry[s]
            /\ m \in strayed' \/ CanRetry(m)
<1>1. PICK m \in retry[r].todo :
         /\ Update(m, [mail[m] EXCEPT !.status = "PENDING"])
         /\ RememberMail(m)
         /\ m \in strayed' \/ CanRetry(m)
         /\ retry' = [retry EXCEPT ![r] =
               IF ReadAttempts(m) = NoMail THEN IdleRetry
               ELSE [pc |-> "queue", todo |-> retry[r].todo \ {m}, mail |-> m]]
  BY DEF RetryMark
<1>2. m \in Mail /\ retry[r].todo \subseteq Mail
  BY Fields
<1>3. IdleRetry \in RetryState
      /\ [pc |-> "queue", todo |-> retry[r].todo \ {m}, mail |-> m] \in RetryState
  BY <1>2 DEF RetryState, IdleRetry
<1>4. retry \in [Retry -> RetryState]
  BY DEF TypeOK
<1>5. /\ retry' \in [Retry -> RetryState]
      /\ \A s \in Retry \ {r} : retry'[s] = retry[s]
  BY <1>1, <1>3, <1>4
<1>6. retry'[r] = IF ReadAttempts(m) = NoMail THEN IdleRetry
                  ELSE [pc |-> "queue", todo |-> retry[r].todo \ {m}, mail |-> m]
  BY <1>1, <1>4
<1>7. QED
  BY <1>1, <1>2, <1>5, <1>6

LEMMA RetryQueued ==
  ASSUME TypeOK, NEW r \in Retry, RetryQueue(r)
  PROVE  /\ retry' \in [Retry -> RetryState]
         /\ retry'[r].pc \in {"idle", "mark"} /\ retry'[r].mail = NoMail
         /\ retry'[r].todo = retry[r].todo
         /\ \A s \in Retry \ {r} : retry'[s] = retry[s]
<1>1. retry \in [Retry -> RetryState] /\ retry[r] \in RetryState
  BY DEF TypeOK
<1> DEFINE next == IF retry[r].todo = {} THEN IdleRetry
                   ELSE [retry[r] EXCEPT !.pc = "mark", !.mail = NoMail]
<1>2. retry' = [retry EXCEPT ![r] = next]
  BY DEF RetryQueue
<1>3. /\ next \in RetryState /\ next.pc \in {"idle", "mark"}
      /\ next.mail = NoMail /\ next.todo = retry[r].todo
  <2>1. CASE retry[r].todo = {}
    BY <2>1 DEF IdleRetry, RetryState
  <2>2. CASE retry[r].todo # {}
    BY <1>1, <2>2, ListResumed
  <2>3. QED
    BY <2>1, <2>2
<1> HIDE DEF next
<1>4. QED
  BY <1>1, <1>2, <1>3

----------------------------------------------------------------------------
\* The actions keep the variables in their ranges: producers and queue,
LEMMA ProducerType ==
  ASSUME TypeOK, NEW m \in Mail, CreateMail(m) \/ QueueMail(m) \/ ProducerFails(m)
  PROVE  TypeOK'
<1>1. CASE CreateMail(m)
  <2>1. cache' \in CacheState
    BY <1>1, TemplateRemembered DEF CreateMail
  <2>2. mail' \in [Mail -> MailRow]
    <3>1. [mail[m] EXCEPT !.status = "PENDING"] \in MailRow
      BY StatusRow DEF MailStatus
    <3>2. UNCHANGED mail \/ mail' = [mail EXCEPT ![m] = [mail[m] EXCEPT !.status = "PENDING"]]
      BY <1>1 DEF CreateMail, TypeOK
    <3>3. QED
      BY <3>1, <3>2 DEF TypeOK
  <2>3. QED
    BY <1>1, <2>1, <2>2 DEF CreateMail, TypeOK
<1>2. CASE QueueMail(m)
  BY <1>2, Added DEF QueueMail, TypeOK
<1>3. CASE ProducerFails(m)
  BY <1>3 DEF ProducerFails, TypeOK
<1>4. QED
  BY <1>1, <1>2, <1>3

\* a worker's job from the queue to its end,
LEMMA WorkerType ==
  ASSUME TypeOK, WorkerOK, NEW w \in Worker,
         WorkerStep(w) \/ Crash(w) \/ (\E m \in Mail : TakeJob(w, m))
  PROVE  TypeOK'
<1>1. ASSUME NEW m \in Mail, TakeJob(w, m) PROVE TypeOK'
  <2>1. [pc |-> "template", mail |-> m, attempts |-> 0] \in WorkerState
    BY DEF WorkerState
  <2>2. queued' \in [Mail -> Nat]
    BY <1>1 DEF TakeJob, TypeOK
  <2>3. QED
    BY <1>1, <2>1, <2>2 DEF TakeJob, TypeOK
<1>2. CASE FindTemplate(w)
  <2>1. cache' \in CacheState /\ worker' \in [Worker -> WorkerState]
    BY <1>2, TemplateRemembered, Moved DEF FindTemplate
  <2>2. QED
    BY <1>2, <2>1 DEF FindTemplate, TypeOK
<1>3. worker[w].pc # "idle" => worker[w].mail \in Mail
  BY DEF WorkerOK
<1>4. CASE Smtp(w)
  <2>1. worker' \in [Worker -> WorkerState]
    BY <1>4, Moved DEF Smtp
  <2>2. sent' \in [Mail -> Nat]
    BY <1>3, <1>4 DEF Smtp, TypeOK
  <2>3. QED
    BY <1>4, <2>1, <2>2 DEF Smtp, TypeOK
<1>5. CASE MarkSent(w)
  <2>1. worker' \in [Worker -> WorkerState]
    BY <1>5, Moved DEF MarkSent
  <2>2. mail' \in [Mail -> MailRow]
    BY <1>3, <1>5, StatusRow, Updated DEF MarkSent, MailStatus, TypeOK
  <2>3. cache' \in CacheState
    BY <1>3, <1>5, RowReads, MailRemembered DEF MarkSent, TypeOK
  <2>4. QED
    BY <1>5, <2>1, <2>2, <2>3 DEF MarkSent, TypeOK
<1>6. CASE ReadMail(w)
  <2>1. worker[w].mail \in Mail
    BY <1>3, <1>6 DEF ReadMail
  <2>2. cache' \in CacheState
    BY <1>6, <2>1, RowReads, MailRemembered DEF ReadMail
  <2>3. worker' \in [Worker -> WorkerState]
    BY <1>6, <2>1, RowReads, AttemptsRead DEF ReadMail, WorkerState, TypeOK
  <2>4. QED
    BY <1>6, <2>2, <2>3 DEF ReadMail, TypeOK
<1>7. CASE MarkFailed(w)
  <2>1. worker[w].mail \in Mail
    BY <1>3, <1>7 DEF MarkFailed
  <2>2. [status |-> "FAILED", attempts |-> worker[w].attempts + 1] \in MailRow
    BY Fields DEF MailRow, MailStatus
  <2>3. mail' \in [Mail -> MailRow]
    BY <1>7, <2>1, <2>2, Updated DEF MarkFailed
  <2>4. cache' \in CacheState
    BY <1>7, <2>1, Fields, MailRemembered DEF MarkFailed
  <2>5. worker' \in [Worker -> WorkerState]
    BY <1>7, Moved DEF MarkFailed
  <2>6. QED
    BY <1>7, <2>3, <2>4, <2>5 DEF MarkFailed, TypeOK
<1>8. CASE CatchFails(w)
  <2>1. worker' \in [Worker -> WorkerState]
    BY <1>8, Moved DEF CatchFails
  <2>2. QED
    BY <1>3, <1>8, <2>1 DEF CatchFails, TypeOK
<1>9. CASE Ack(w)
  <2>1. worker' \in [Worker -> WorkerState]
    BY <1>9, Stopped DEF Ack
  <2>2. QED
    BY <1>9, <2>1 DEF Ack, TypeOK
<1>10. CASE Crash(w)
  <2>1. worker' \in [Worker -> WorkerState]
    BY <1>10, Stopped DEF Crash
  <2>2. worker[w].mail \in Mail
    BY <1>3, <1>10 DEF Crash
  <2>3. /\ queued' \in [Mail -> Nat] /\ jobs' \in [Mail -> Nat]
        /\ faulted' \subseteq Mail /\ strayed' \subseteq Mail
    BY <1>10, <2>2, Added DEF Crash, TypeOK
  <2>4. crashes' \in 0..MaxCrashes
    BY <1>10, MailConstants DEF Crash, TypeOK
  <2>5. QED
    BY <1>10, <2>1, <2>3, <2>4 DEF Crash, TypeOK
<1>11. QED
  BY <1>1, <1>2, <1>4, <1>5, <1>6, <1>7, <1>8, <1>9, <1>10 DEF WorkerStep

\* retries,
LEMMA RetryType ==
  ASSUME TypeOK, RetryOK, NEW r \in Retry, RetryFind(r) \/ RetryStep(r)
  PROVE  TypeOK'
<1>1. CASE RetryFind(r)
  <2>1. Kept(Answer(cache.failed, Retryable)) \subseteq SUBSET Mail
    BY FailedRead DEF Kept
  <2>2. cache' = [cache EXCEPT !.failed = Kept(Answer(cache.failed, Retryable))]
    BY <1>1 DEF RetryFind
  <2>3. cache' \in CacheState
    BY <2>1, <2>2 DEF CacheState, TypeOK
  <2>4. QED
    BY <1>1, <2>3, RetryFound DEF RetryFind, TypeOK
<1>2. CASE RetryMark(r)
  <2>1. mail' \in [Mail -> MailRow]
    BY <1>2, RetryMarked, StatusRow, Updated DEF MailStatus
  <2>2. cache' \in CacheState /\ retry' \in [Retry -> RetryState]
    BY <1>2, RetryMarked, RowReads, MailRemembered
  <2>3. strayed' \subseteq Mail
    BY <1>2, Fields DEF RetryMark, TypeOK
  <2>4. QED
    BY <1>2, <2>1, <2>2, <2>3 DEF RetryMark, TypeOK
<1>3. CASE RetryQueue(r)
  <2>1. retry[r].mail \in Mail
    BY <1>3 DEF RetryQueue, RetryOK
  <2>2. queued' \in [Mail -> Nat] /\ jobs' \in [Mail -> Nat]
    BY <1>3, <2>1, Added DEF RetryQueue
  <2>3. retry' \in [Retry -> RetryState]
    BY <1>3, RetryQueued
  <2>4. QED
    BY <1>3, <2>2, <2>3 DEF RetryQueue, TypeOK
<1>4. CASE RetryFails(r)
  <2>1. retry' \in [Retry -> RetryState]
    BY <1>4, Dropped DEF RetryFails
  <2>2. retry[r].pc = "queue" => retry[r].mail \in Mail
    BY DEF RetryOK
  <2>3. faulted' \subseteq Mail
    BY <1>4, <2>2 DEF RetryFails, TypeOK
  <2>4. QED
    BY <1>4, <2>1, <2>3 DEF RetryFails, TypeOK
<1>5. QED
  BY <1>1, <1>2, <1>3, <1>4 DEF RetryStep

\* templates and the cache.
Around == CreateTemplate \/ ToggleTemplate \/ DeleteTemplate \/ CacheExpires

LEMMA AroundType ==
  ASSUME TypeOK, Around
  PROVE  TypeOK'
<1>1. CASE CreateTemplate \/ ToggleTemplate
  BY <1>1 DEF CreateTemplate, ToggleTemplate, TypeOK
<1>2. CASE DeleteTemplate
  <2>1. \A m \in Mail : [mail[m] EXCEPT !.status = "deleted"] \in MailRow /\ mail[m] \in MailRow
    BY Fields DEF MailRow
  <2>2. mail' \in [Mail -> MailRow]
    BY <1>2, <2>1 DEF DeleteTemplate
  <2>3. QED
    BY <1>2, <2>2 DEF DeleteTemplate, TypeOK
<1>3. CASE CacheExpires
  <2>1. cache' \in CacheState
    BY <1>3 DEF CacheExpires, TypeOK, CacheState
  <2>2. QED
    BY <1>3, <2>1 DEF CacheExpires, TypeOK
<1>4. QED
  BY <1>1, <1>2, <1>3 DEF Around

LEMMA TypeStep ==
  ASSUME TypeOK, WorkerOK, RetryOK, Next
  PROVE  TypeOK'
BY ProducerType, WorkerType, RetryType, AroundType DEF Next, Around
----------------------------------------------------------------------------
\* A worker with a job has a mail; a retry has one exactly while it queues it.
LEMMA HandsStep ==
  ASSUME TypeOK, WorkerOK, RetryOK, Next
  PROVE  WorkerOK' /\ RetryOK'
<1>1. ASSUME NEW w \in Worker, NEW m \in Mail, TakeJob(w, m) PROVE WorkerOK' /\ RetryOK'
  <2>1. /\ UNCHANGED retry /\ worker'[w].mail = m /\ worker'[w].pc = "template"
        /\ \A v \in Worker \ {w} : worker'[v] = worker[v]
    BY <1>1 DEF TakeJob, TypeOK
  <2>2. QED
    BY <2>1 DEF WorkerOK, RetryOK
<1>2. ASSUME NEW w \in Worker, WorkerStep(w) \/ Crash(w) PROVE WorkerOK' /\ RetryOK'
  <2>1. CASE ReadMail(w)
    <3>1. /\ UNCHANGED retry /\ worker'[w].mail = worker[w].mail /\ worker[w].pc # "idle"
          /\ worker'[w].pc = "markFailed"
          /\ \A v \in Worker \ {w} : worker'[v] = worker[v]
      BY <2>1 DEF ReadMail, TypeOK
    <3>2. QED
      BY <3>1 DEF WorkerOK, RetryOK
  <2>2. CASE Ack(w) \/ Crash(w)
    <3>1. /\ UNCHANGED retry /\ worker'[w].pc = "idle" /\ worker'[w].mail = NoMail
          /\ \A v \in Worker \ {w} : worker'[v] = worker[v]
      BY <2>2, Stopped DEF Ack, Crash
    <3>2. QED
      BY <3>1 DEF WorkerOK, RetryOK
  <2>3. CASE FindTemplate(w) \/ Smtp(w) \/ MarkSent(w) \/ MarkFailed(w) \/ CatchFails(w)
    <3>1. UNCHANGED retry /\ worker[w].pc # "idle"
          /\ \E label \in {"smtp", "markSent", "readMail", "markFailed", "ack"} : Goto(w, label)
      BY <2>3 DEF FindTemplate, Smtp, MarkSent, MarkFailed, CatchFails
    <3>2. /\ worker'[w].mail = worker[w].mail /\ worker'[w].pc # "idle"
          /\ \A v \in Worker \ {w} : worker'[v] = worker[v]
      BY <3>1, Moved
    <3>3. QED
      BY <3>1, <3>2 DEF WorkerOK, RetryOK
  <2>4. QED
    BY <1>2, <2>1, <2>2, <2>3 DEF WorkerStep
<1>3. ASSUME NEW r \in Retry, RetryFind(r) \/ RetryStep(r) PROVE WorkerOK' /\ RetryOK'
  <2>1. UNCHANGED worker /\ \A s \in Retry \ {r} : retry'[s] = retry[s]
    BY <1>3 DEF RetryFind, RetryStep, RetryMark, RetryQueue, RetryFails, TypeOK
  <2>2. /\ retry'[r].pc = "queue" => retry'[r].mail \in Mail
        /\ retry'[r].pc # "queue" => retry'[r].mail = NoMail
    <3>1. CASE RetryFind(r)
      BY <3>1, RetryFound DEF RetryFind, RetryOK
    <3>2. CASE RetryMark(r)
      <4>1. PICK m \in Mail :
               \/ retry'[r] = IdleRetry
               \/ retry'[r] = [pc |-> "queue", todo |-> retry[r].todo \ {m}, mail |-> m]
        BY <3>2, RetryMarked
      <4>2. QED
        BY <4>1 DEF IdleRetry
    <3>3. CASE RetryQueue(r) \/ RetryFails(r)
      BY <3>3, RetryQueued, Dropped DEF RetryFails
    <3>4. QED
      BY <1>3, <3>1, <3>2, <3>3 DEF RetryStep
  <2>3. QED
    BY <2>1, <2>2 DEF WorkerOK, RetryOK
<1>4. ASSUME NEW m \in Mail, CreateMail(m) \/ QueueMail(m) \/ ProducerFails(m)
      PROVE  WorkerOK' /\ RetryOK'
  BY <1>4 DEF CreateMail, QueueMail, ProducerFails, WorkerOK, RetryOK
<1>5. ASSUME Around PROVE WorkerOK' /\ RetryOK'
  BY <1>5 DEF Around, CreateTemplate, ToggleTemplate, DeleteTemplate, CacheExpires, WorkerOK, RetryOK
<1>6. QED
  BY <1>1, <1>2, <1>3, <1>4, <1>5 DEF Next, Around

----------------------------------------------------------------------------
\* A row stays a row, a deleted one deleted; the cache forgets, or knows so.
LEMMA RowStays ==
  ASSUME TypeOK, RowOK, WorkerOK, Next, NEW m \in Mail, mail[m].status # "none"
  PROVE  /\ mail'[m].status # "none" /\ producer'[m] # "idle"
         /\ mail[m].status = "deleted" => mail'[m].status = "deleted"
         /\ NoMail \in cache'.mail[m] => mail'[m].status = "deleted"
<1> DEFINE Goal == /\ mail'[m].status # "none" /\ producer'[m] # "idle"
                   /\ mail[m].status = "deleted" => mail'[m].status = "deleted"
                   /\ NoMail \in cache'.mail[m] => mail'[m].status = "deleted"
<1>1. /\ producer[m] # "idle"
      /\ NoMail \in cache.mail[m] => mail[m].status = "deleted"
      /\ ~Stored(m) => mail[m].status = "deleted"
  <2>1. mail[m].status \in MailStatus \cup {"none", "deleted"}
    BY Fields DEF MailRow
  <2>2. QED
    BY <2>1 DEF RowOK, RowOf, Stored
<1>2. ASSUME NEW n \in Mail, CreateMail(n) PROVE Goal
  <2>1. cache'.mail = cache.mail
    BY <1>2, TemplateRemembered DEF CreateMail
  <2>2. n # m /\ mail'[m] = mail[m] /\ producer'[m] = producer[m]
    BY <1>1, <1>2 DEF CreateMail, TypeOK
  <2>3. QED
    BY <1>1, <2>1, <2>2
<1>3. ASSUME NEW n \in Mail, QueueMail(n) \/ ProducerFails(n) PROVE Goal
  BY <1>1, <1>3 DEF QueueMail, ProducerFails, TypeOK
<1>4. ASSUME UNCHANGED <<mail, producer>>, cache'.mail[m] \subseteq cache.mail[m] PROVE Goal
  BY <1>1, <1>4
<1>5. ASSUME NEW n \in Mail, NEW attempts \in Nat, Remember(n, attempts),
             UNCHANGED <<mail, producer>>
      PROVE  Goal
  <2>1. CASE n = m
    <3>1. NoMail \in cache'.mail[m] => mail[m].status = "deleted"
      BY <1>1, <1>5, <2>1, MailRemembered, AttemptsRead
    <3>2. QED
      BY <1>1, <1>5, <3>1
  <2>2. CASE n # m
    BY <1>1, <1>5, <2>2, MailRemembered
  <2>3. QED
    BY <2>1, <2>2
<1>6. ASSUME NEW n \in Mail, NEW row \in MailRow, Update(n, row), row.status \in MailStatus,
             UNCHANGED producer,
             UNCHANGED cache \/ \E attempts \in Nat : Remember(n, attempts)
      PROVE  Goal
  <2>1. /\ mail'[m].status # "none"
        /\ mail[m].status = "deleted" => mail'[m].status = "deleted"
    <3>1. /\ \A k \in Mail \ {n} : mail'[k] = mail[k]
          /\ Stored(n) => mail'[n] = row
          /\ ~Stored(n) => mail'[n] = mail[n]
      BY <1>6, Updated
    <3>2. Stored(n) => mail[n].status # "deleted"
      BY DEF Stored, MailStatus
    <3>3. row.status # "none"
      BY <1>6 DEF MailStatus
    <3>4. QED
      BY <3>1, <3>2, <3>3
  <2>2. NoMail \in cache'.mail[m] => mail[m].status = "deleted"
    BY <1>1, <1>6, MailRemembered, AttemptsRead
  <2>3. QED
    BY <1>1, <1>6, <2>1, <2>2
<1>7. ASSUME NEW w \in Worker, WorkerStep(w) \/ Crash(w) \/ (\E n \in Mail : TakeJob(w, n))
      PROVE  Goal
  <2>1. worker[w].pc # "idle" => worker[w].mail \in Mail
    BY DEF WorkerOK
  <2>2. CASE FindTemplate(w)
    <3>1. cache'.mail = cache.mail /\ UNCHANGED <<mail, producer>>
      BY <2>2, TemplateRemembered DEF FindTemplate
    <3>2. QED
      BY <1>4, <3>1
  <2>3. CASE MarkSent(w)
    <3>1. worker[w].mail \in Mail /\ UNCHANGED producer
      BY <2>1, <2>3 DEF MarkSent
    <3>2. /\ [mail[worker[w].mail] EXCEPT !.status = "SENT"] \in MailRow
          /\ [mail[worker[w].mail] EXCEPT !.status = "SENT"].status \in MailStatus
      BY <3>1, StatusRow DEF MailStatus
    <3>3. \/ /\ Update(worker[w].mail, [mail[worker[w].mail] EXCEPT !.status = "SENT"])
             /\ RememberMail(worker[w].mail) \/ UNCHANGED cache
          \/ UNCHANGED <<mail, cache>>
      BY <2>3 DEF MarkSent
    <3>4. QED
      BY <1>4, <1>6, <3>1, <3>2, <3>3, RowReads
  <2>4. CASE ReadMail(w)
    BY <1>5, <2>1, <2>4, RowReads DEF ReadMail
  <2>5. CASE MarkFailed(w)
    <3>1. worker[w].mail \in Mail
      BY <2>1, <2>5 DEF MarkFailed
    <3>2. [status |-> "FAILED", attempts |-> worker[w].attempts + 1] \in MailRow
      BY Fields DEF MailRow, MailStatus
    <3>3. Remember(worker[w].mail, worker[w].attempts + 1) /\ worker[w].attempts + 1 \in Nat
      BY <2>5, Fields DEF MarkFailed
    <3>4. QED
      BY <1>6, <2>5, <3>1, <3>2, <3>3 DEF MarkFailed, MailStatus
  <2>6. CASE Smtp(w) \/ CatchFails(w) \/ Ack(w) \/ Crash(w) \/ (\E n \in Mail : TakeJob(w, n))
    BY <1>4, <2>6 DEF Smtp, CatchFails, Ack, Crash, TakeJob
  <2>7. QED
    BY <1>7, <2>2, <2>3, <2>4, <2>5, <2>6 DEF WorkerStep
<1>8. ASSUME NEW r \in Retry, RetryFind(r) \/ RetryStep(r) PROVE Goal
  <2>1. CASE RetryFind(r)
    <3>1. cache'.mail = cache.mail /\ UNCHANGED <<mail, producer>>
      BY <2>1 DEF RetryFind, TypeOK, CacheState
    <3>2. QED
      BY <1>4, <3>1
  <2>2. CASE RetryMark(r)
    <3>1. PICK n \in Mail : /\ Update(n, [mail[n] EXCEPT !.status = "PENDING"])
                            /\ RememberMail(n)
      BY <2>2, RetryMarked
    <3>2. /\ [mail[n] EXCEPT !.status = "PENDING"] \in MailRow
          /\ [mail[n] EXCEPT !.status = "PENDING"].status \in MailStatus
      BY StatusRow DEF MailStatus
    <3>3. QED
      BY <1>6, <2>2, <3>1, <3>2, RowReads DEF RetryMark
  <2>3. CASE RetryQueue(r) \/ RetryFails(r)
    BY <1>4, <2>3 DEF RetryQueue, RetryFails
  <2>4. QED
    BY <1>8, <2>1, <2>2, <2>3 DEF RetryStep
<1>9. CASE CreateTemplate \/ ToggleTemplate
  BY <1>4, <1>9 DEF CreateTemplate, ToggleTemplate
<1>10. CASE DeleteTemplate
  <2>1. mail'[m].status = "deleted"
    BY <1>1, <1>10, Fields DEF DeleteTemplate, MailRow
  <2>2. QED
    BY <1>1, <1>10, <2>1 DEF DeleteTemplate
<1>11. CASE CacheExpires
  <2>1. cache'.mail[m] \subseteq cache.mail[m]
    BY <1>11 DEF CacheExpires, TypeOK, CacheState
  <2>2. QED
    BY <1>4, <1>11, <2>1 DEF CacheExpires
<1>12. QED
  BY <1>2, <1>3, <1>7, <1>8, <1>9, <1>10, <1>11 DEF Next
\* A mail that nothing has in hand, and that no retry could find, stays so:
\* its row changes only when it is created or deleted with its template.
LEMMA AwayStep ==
  ASSUME TypeOK, WorkerOK, RetryOK, Next, NEW m \in Mail, Away(m), ~CreateMail(m),
         m \notin Answer(cache.failed, Retryable)
  PROVE  Away(m)' /\ (mail'[m] = mail[m] \/ DeleteTemplate)
<1>1. /\ producer[m] # "queue" /\ queued[m] = 0
      /\ \A w \in Worker : worker[w].mail # m
      /\ \A r \in Retry : retry[r].mail # m /\ m \notin retry[r].todo
      /\ NoMail # m
  BY MailConstants DEF Away
<1> DEFINE Goal == Away(m)' /\ (mail'[m] = mail[m] \/ DeleteTemplate)
<1>2. ASSUME mail'[m] = mail[m] \/ DeleteTemplate, producer'[m] # "queue", queued'[m] = 0,
             \A w \in Worker : worker'[w].mail # m,
             \A r \in Retry : retry'[r].mail # m /\ m \notin retry'[r].todo
      PROVE  Goal
  BY <1>2 DEF Away
<1> HIDE DEF Goal
<1>3. ASSUME NEW n \in Mail, CreateMail(n) PROVE Goal
  <2>1. n # m /\ UNCHANGED <<queued, worker, retry>>
    BY <1>3 DEF CreateMail
  <2>2. mail'[m] = mail[m] /\ producer'[m] = producer[m]
    BY <1>3, <2>1 DEF CreateMail, TypeOK
  <2>3. QED
    BY <1>1, <1>2, <2>1, <2>2
<1>4. ASSUME NEW n \in Mail, QueueMail(n) \/ ProducerFails(n) PROVE Goal
  <2>1. n # m /\ UNCHANGED <<mail, worker, retry, cache>>
    BY <1>1, <1>4 DEF QueueMail, ProducerFails
  <2>2. producer'[m] = producer[m] /\ queued'[m] = queued[m]
    BY <1>4, <2>1, Added DEF QueueMail, ProducerFails, TypeOK
  <2>3. QED
    BY <1>1, <1>2, <2>1, <2>2
<1>5. ASSUME NEW w \in Worker, NEW n \in Mail, TakeJob(w, n) PROVE Goal
  <2>1. n # m /\ UNCHANGED <<mail, producer, retry, cache>>
    BY <1>1, <1>5 DEF TakeJob
  <2>2. /\ queued'[m] = queued[m] /\ worker'[w].mail = n
        /\ \A v \in Worker \ {w} : worker'[v] = worker[v]
    BY <1>5, <2>1 DEF TakeJob, TypeOK
  <2>3. QED
    BY <1>1, <1>2, <2>1, <2>2
<1>6. ASSUME NEW w \in Worker, WorkerStep(w) \/ Crash(w) PROVE Goal
  <2>1. worker[w].mail \in Mail /\ worker[w].mail # m
    BY <1>1, <1>6
       DEF WorkerOK, WorkerStep, FindTemplate, Smtp, MarkSent, ReadMail, MarkFailed, CatchFails,
           Ack, Crash
  <2>2. UNCHANGED <<producer, retry>>
    BY <1>6
       DEF WorkerStep, FindTemplate, Smtp, MarkSent, ReadMail, MarkFailed, CatchFails, Ack, Crash
  <2>3. mail'[m] = mail[m]
    <3>1. CASE MarkSent(w)
      <4>1. [mail[worker[w].mail] EXCEPT !.status = "SENT"] \in MailRow
        BY <2>1, StatusRow DEF MailStatus
      <4>2. QED
        BY <2>1, <3>1, <4>1, Updated DEF MarkSent
    <3>2. CASE MarkFailed(w)
      <4>1. [status |-> "FAILED", attempts |-> worker[w].attempts + 1] \in MailRow
        BY Fields DEF MailRow, MailStatus
      <4>2. QED
        BY <2>1, <3>2, <4>1, Updated DEF MarkFailed
    <3>3. QED
      BY <1>6, <3>1, <3>2
         DEF WorkerStep, FindTemplate, Smtp, ReadMail, CatchFails, Ack, Crash
  <2>4. queued'[m] = 0
    BY <1>1, <1>6, <2>1, Added
       DEF WorkerStep, FindTemplate, Smtp, MarkSent, ReadMail, MarkFailed, CatchFails, Ack, Crash
  <2>5. \A v \in Worker : worker'[v].mail \in {worker[v].mail, NoMail}
    <3>1. CASE \E label \in {"smtp", "markSent", "readMail", "markFailed", "ack"} : Goto(w, label)
      BY <3>1, Moved
    <3>2. CASE worker' = [worker EXCEPT ![w] = Idle]
      BY <3>2, Stopped
    <3>3. CASE ReadMail(w)
      BY <3>3 DEF ReadMail, TypeOK
    <3>4. QED
      BY <1>6, <3>1, <3>2, <3>3
         DEF WorkerStep, FindTemplate, Smtp, MarkSent, MarkFailed, CatchFails, Ack, Crash
  <2>6. QED
    BY <1>1, <1>2, <2>2, <2>3, <2>4, <2>5
<1>7. ASSUME NEW r \in Retry, RetryFind(r) PROVE Goal
  <2>1. \A s \in Retry : retry'[s].mail # m /\ m \notin retry'[s].todo
    BY <1>1, <1>7, RetryFound
  <2>2. UNCHANGED <<mail, producer, queued, worker>>
    BY <1>7 DEF RetryFind
  <2>3. QED
    BY <1>1, <1>2, <2>1, <2>2
<1>8. ASSUME NEW r \in Retry, RetryMark(r) PROVE Goal
  <2>1. PICK n \in retry[r].todo :
            /\ n \in Mail
            /\ Update(n, [mail[n] EXCEPT !.status = "PENDING"])
            /\ \/ retry'[r] = IdleRetry
               \/ retry'[r] = [pc |-> "queue", todo |-> retry[r].todo \ {n}, mail |-> n]
            /\ \A s \in Retry \ {r} : retry'[s] = retry[s]
    BY <1>8, RetryMarked
  <2>2. n # m
    BY <1>1
  <2>3. mail'[m] = mail[m]
    <3>1. [mail[n] EXCEPT !.status = "PENDING"] \in MailRow
      BY <2>1, StatusRow DEF MailStatus
    <3>2. QED
      BY <2>1, <2>2, <3>1, Updated
  <2>4. \A s \in Retry : retry'[s].mail # m /\ m \notin retry'[s].todo
    BY <1>1, <2>1, <2>2 DEF IdleRetry
  <2>5. UNCHANGED <<producer, queued, worker>>
    BY <1>8 DEF RetryMark
  <2>6. QED
    BY <1>1, <1>2, <2>3, <2>4, <2>5
<1>9. ASSUME NEW r \in Retry, RetryQueue(r) \/ RetryFails(r) PROVE Goal
  <2>1. UNCHANGED <<mail, producer, worker>>
    BY <1>9 DEF RetryQueue, RetryFails
  <2>2. \A s \in Retry : retry'[s].mail # m /\ m \notin retry'[s].todo
    BY <1>1, <1>9, RetryQueued, Dropped DEF RetryFails
  <2>3. queued'[m] = queued[m]
    <3>1. CASE RetryFails(r)
      BY <3>1 DEF RetryFails
    <3>2. CASE RetryQueue(r)
      <4>1. retry[r].mail \in Mail \ {m} /\ AddJob(retry[r].mail)
        BY <1>1, <3>2 DEF RetryQueue, RetryOK
      <4>2. QED
        BY <4>1, Added
    <3>3. QED
      BY <1>9, <3>1, <3>2
  <2>4. QED
    BY <1>1, <1>2, <2>1, <2>2, <2>3
<1>10. ASSUME Around PROVE Goal
  <2>1. UNCHANGED <<producer, queued, worker, retry>>
    BY <1>10 DEF Around, CreateTemplate, ToggleTemplate, DeleteTemplate, CacheExpires
  <2>2. mail'[m] = mail[m] \/ DeleteTemplate
    BY <1>10 DEF Around, CreateTemplate, ToggleTemplate, CacheExpires
  <2>3. QED
    BY <1>1, <1>2, <2>1, <2>2
<1>11. Goal
  BY <1>3, <1>4, <1>5, <1>6, <1>7, <1>8, <1>9, <1>10 DEF Next, RetryStep, Around
<1>12. QED
  BY <1>11 DEF Goal

\* No list of failed mails that names it comes to be remembered,
LEMMA UnlistedStep ==
  ASSUME TypeOK, WorkerOK, Next, NEW m \in Mail, \A S \in cache.failed : m \notin S,
         m \notin Answer(cache.failed, Retryable)
  PROVE  \A S \in cache'.failed : m \notin S
<1> DEFINE Goal == \A S \in cache'.failed : m \notin S
<1>1. CASE cache'.failed \subseteq cache.failed
  BY <1>1
<1>2. ASSUME NEW n \in Mail, NEW attempts \in Nat, Remember(n, attempts) PROVE Goal
  BY <1>1, <1>2, MailRemembered
<1>3. ASSUME NEW r \in Retry, RetryFind(r) PROVE Goal
  <2>1. cache'.failed = Kept(Answer(cache.failed, Retryable))
    BY <1>3 DEF RetryFind, TypeOK, CacheState
  <2>2. QED
    BY <2>1 DEF Kept
<1>4. ASSUME NEW r \in Retry, RetryMark(r) PROVE Goal
  BY <1>2, <1>4, RetryMarked, RowReads
<1>5. ASSUME NEW w \in Worker, WorkerStep(w) PROVE Goal
  <2>1. worker[w].mail \in Mail
    BY <1>5 DEF WorkerOK, WorkerStep, FindTemplate, Smtp, MarkSent, ReadMail, MarkFailed,
                CatchFails, Ack
  <2>2. \/ UNCHANGED cache \/ RememberTemplate
        \/ \E attempts \in Nat : Remember(worker[w].mail, attempts)
    BY <1>5, <2>1, Fields, RowReads
       DEF WorkerStep, FindTemplate, Smtp, MarkSent, ReadMail, MarkFailed, CatchFails, Ack
  <2>3. QED
    BY <1>1, <1>2, <2>1, <2>2, TemplateRemembered
<1>6. CASE CacheExpires
  BY <1>1, <1>6 DEF CacheExpires, TypeOK, CacheState
<1>7. QED
  BY <1>1, <1>3, <1>4, <1>5, <1>6, TemplateRemembered
     DEF Next, RetryStep, CreateMail, QueueMail, ProducerFails, TakeJob, Crash, RetryQueue,
         RetryFails, CreateTemplate, ToggleTemplate, DeleteTemplate

\* nor any other answer about it, when nothing has it in hand.
LEMMA UnreadStep ==
  ASSUME TypeOK, WorkerOK, Next, NEW m \in Mail, Away(m), Unread(m),
         m \notin Answer(cache.failed, Retryable)
  PROVE  Unread(m)'
<1>1. (\A S \in cache.failed : m \notin S) /\ cache.mail[m] = {}
  BY DEF Unread
<1>2. CASE cache'.failed \subseteq cache.failed /\ cache'.mail[m] \subseteq cache.mail[m]
  BY <1>1, <1>2 DEF Unread
<1>3. CASE RememberTemplate
  BY <1>2, <1>3, TemplateRemembered
<1>4. ASSUME NEW n \in Mail \ {m}, NEW attempts \in Nat, Remember(n, attempts)
      PROVE  Unread(m)'
  BY <1>2, <1>4, MailRemembered
<1>5. ASSUME NEW r \in Retry, RetryFind(r) PROVE Unread(m)'
  <2>1. /\ cache'.failed = Kept(Answer(cache.failed, Retryable))
        /\ cache'.mail = cache.mail
    BY <1>5 DEF RetryFind, TypeOK, CacheState
  <2>2. QED
    BY <1>1, <2>1 DEF Kept, Unread
<1>6. ASSUME NEW r \in Retry, RetryMark(r) PROVE Unread(m)'
  <2>1. PICK n \in retry[r].todo : n \in Mail /\ RememberMail(n)
    BY <1>6, RetryMarked
  <2>2. n # m
    BY DEF Away
  <2>3. QED
    BY <1>4, <2>1, <2>2, RowReads
<1>7. ASSUME NEW w \in Worker, WorkerStep(w) PROVE Unread(m)'
  <2>1. worker[w].mail \in Mail \ {m}
    BY <1>7 DEF Away, WorkerOK, WorkerStep, FindTemplate, Smtp, MarkSent, ReadMail, MarkFailed,
                CatchFails, Ack
  <2>2. \/ UNCHANGED cache \/ RememberTemplate
        \/ \E attempts \in Nat : Remember(worker[w].mail, attempts)
    BY <1>7, <2>1, Fields, RowReads
       DEF WorkerStep, FindTemplate, Smtp, MarkSent, ReadMail, MarkFailed, CatchFails, Ack
  <2>3. QED
    BY <1>2, <1>3, <1>4, <2>1, <2>2
<1>8. CASE CacheExpires
  <2>1. cache'.failed \subseteq cache.failed /\ cache'.mail[m] \subseteq cache.mail[m]
    BY <1>8 DEF CacheExpires, TypeOK, CacheState
  <2>2. QED
    BY <1>2, <2>1
<1>9. QED
  BY <1>2, <1>3, <1>5, <1>6, <1>7, <1>8
     DEF Next, RetryStep, CreateMail, QueueMail, ProducerFails, TakeJob, Crash, RetryQueue,
         RetryFails, CreateTemplate, ToggleTemplate, DeleteTemplate

\* Before its row exists nothing comes to know of a mail.
LEMMA RowStarts ==
  ASSUME TypeOK, RowOK, WorkerOK, RetryOK, Next, NEW m \in Mail, mail[m].status = "none"
  PROVE  RowOf(m)'
<1>1. Away(m) /\ Unread(m)
  BY DEF RowOK, RowOf
<1>2. m \notin Answer(cache.failed, Retryable)
  BY <1>1, FailedRead DEF Unread, Retryable, CanRetry
<1>3. Unread(m)'
  BY <1>1, <1>2, UnreadStep
<1>4. CASE CreateMail(m)
  <2>1. UNCHANGED <<queued, worker, retry>>
    BY <1>4 DEF CreateMail
  <2>2. CASE mail' = [mail EXCEPT ![m].status = "PENDING"]
             /\ producer' = [producer EXCEPT ![m] = "queue"]
    <3>1. /\ mail'[m] = [mail[m] EXCEPT !.status = "PENDING"]
          /\ producer'[m] = "queue"
      BY <2>2 DEF TypeOK
    <3>2. mail'[m].status = "PENDING"
      BY <3>1, StatusRow DEF MailStatus
    <3>3. QED
      BY <1>3, <3>1, <3>2 DEF RowOf, Unread
  <2>3. CASE UNCHANGED mail /\ producer' = [producer EXCEPT ![m] = "failed"]
    <3>1. mail'[m].status = "none" /\ producer'[m] = "failed"
      BY <2>3 DEF TypeOK
    <3>2. Away(m)'
      BY <1>1, <2>1, <3>1 DEF Away
    <3>3. QED
      BY <1>3, <3>1, <3>2 DEF RowOf, Unread
  <2>4. QED
    BY <1>4, <2>2, <2>3 DEF CreateMail
<1>5. CASE ~CreateMail(m)
  <2>1. Away(m)' /\ (mail'[m] = mail[m] \/ DeleteTemplate)
    BY <1>1, <1>2, <1>5, AwayStep
  <2>2. mail'[m] = mail[m]
    BY <2>1 DEF DeleteTemplate, Stored, MailStatus
  <2>3. QED
    BY <1>3, <2>1, <2>2 DEF RowOf, Unread
<1>6. QED
  BY <1>4, <1>5

LEMMA RowStep ==
  ASSUME TypeOK, RowOK, WorkerOK, RetryOK, Next
  PROVE  RowOK'
<1>1. ASSUME NEW m \in Mail PROVE RowOf(m)'
  <2>1. CASE mail[m].status = "none"
    BY <2>1, RowStarts
  <2>2. CASE mail[m].status # "none"
    BY <2>2, RowStays DEF RowOf
  <2>3. QED
    BY <2>1, <2>2
<1>2. QED
  BY <1>1 DEF RowOK
----------------------------------------------------------------------------
\* Whoever has a PENDING mail in hand passes it on, writes its outcome, or
\* fails.
LEMMA PendingStep ==
  ASSUME TypeOK, RowOK, WorkerOK, RetryOK, PendingOK, Next
  PROVE  PendingOK'
<1> SUFFICES ASSUME NEW m \in Mail, mail'[m].status = "PENDING", m \notin faulted'
             PROVE  Held(m)'
  BY DEF PendingOK
<1>1. ASSUME mail[m].status = "PENDING", m \notin faulted PROVE Held(m)
  BY <1>1 DEF PendingOK
<1>2. ASSUME NEW n \in Mail, CreateMail(n) PROVE Held(m)'
  <2>1. UNCHANGED <<queued, worker, retry, faulted>>
    BY <1>2 DEF CreateMail
  <2>2. CASE mail'[m] = mail[m]
    <3>1. producer[m] = "queue" => producer'[m] = "queue"
      BY <1>2 DEF CreateMail, TypeOK
    <3>2. QED
      BY <1>1, <2>1, <2>2, <3>1 DEF Held
  <2>3. CASE mail'[m] # mail[m]
    <3>1. producer'[m] = "queue"
      BY <1>2, <2>3 DEF CreateMail, TypeOK
    <3>2. QED
      BY <3>1 DEF Held
  <2>4. QED
    BY <2>2, <2>3
<1>3. ASSUME NEW n \in Mail, QueueMail(n) PROVE Held(m)'
  <2>1. UNCHANGED <<mail, worker, retry, faulted>> /\ AddJob(n)
    BY <1>3 DEF QueueMail
  <2>2. queued[m] \in Nat
    BY DEF TypeOK
  <2>3. CASE n = m
    <3>1. queued'[m] > 0
      BY <2>1, <2>2, <2>3, Added
    <3>2. QED
      BY <3>1 DEF Held
  <2>4. CASE n # m
    <3>1. queued'[m] = queued[m] /\ producer'[m] = producer[m]
      BY <1>3, <2>1, <2>4, Added DEF QueueMail, TypeOK
    <3>2. QED
      BY <1>1, <2>1, <3>1 DEF Held
  <2>5. QED
    BY <2>3, <2>4
<1>4. ASSUME NEW n \in Mail, ProducerFails(n) PROVE Held(m)'
  <2>1. n # m /\ m \notin faulted /\ UNCHANGED <<mail, queued, worker, retry>>
    BY <1>4 DEF ProducerFails
  <2>2. producer'[m] = producer[m]
    BY <1>4, <2>1 DEF ProducerFails, TypeOK
  <2>3. QED
    BY <1>1, <2>1, <2>2 DEF Held
<1>5. ASSUME NEW w \in Worker, NEW n \in Mail, TakeJob(w, n) PROVE Held(m)'
  <2>1. /\ worker'[w].mail = n /\ worker'[w].pc = "template"
        /\ \A v \in Worker \ {w} : worker'[v] = worker[v]
    BY <1>5 DEF TakeJob, TypeOK
  <2>2. CASE n = m
    BY <2>1, <2>2 DEF Held, Sending
  <2>3. CASE n # m
    <3>1. queued'[m] = queued[m] /\ UNCHANGED <<mail, producer, retry, faulted>>
      BY <1>5, <2>3 DEF TakeJob, TypeOK
    <3>2. worker[w].pc \notin Sending
      BY <1>5 DEF TakeJob, Sending
    <3>3. QED
      BY <1>1, <2>1, <3>1, <3>2 DEF Held
  <2>4. QED
    BY <2>2, <2>3
<1>6. ASSUME NEW w \in Worker, WorkerStep(w) \/ Crash(w) PROVE Held(m)'
  <2>1. UNCHANGED <<producer, retry>> /\ worker[w].mail \in Mail
    BY <1>6
       DEF WorkerOK, WorkerStep, FindTemplate, Smtp, MarkSent, ReadMail, MarkFailed, CatchFails,
           Ack, Crash
  <2>2. faulted \subseteq faulted'
    BY <1>6
       DEF WorkerStep, FindTemplate, Smtp, MarkSent, ReadMail, MarkFailed, CatchFails, Ack, Crash
  <2>3. \A v \in Worker \ {w} : worker'[v] = worker[v]
    BY <1>6 DEF WorkerStep, FindTemplate, Smtp, MarkSent, ReadMail, MarkFailed, CatchFails,
                Ack, Crash, Goto, TypeOK
  <2>4. queued[m] > 0 => queued'[m] > 0
    <3>1. CASE UNCHANGED queued
      BY <3>1 DEF TypeOK
    <3>2. CASE AddJob(worker[w].mail)
      BY <2>1, <3>2, Added DEF TypeOK
    <3>3. QED
      BY <1>6, <3>1, <3>2
         DEF WorkerStep, FindTemplate, Smtp, MarkSent, ReadMail, MarkFailed, CatchFails, Ack, Crash
  <2>5. mail[m].status = "PENDING"
    <3>1. ASSUME NEW row \in MailRow, Update(worker[w].mail, row), row.status # "PENDING"
          PROVE  mail[m].status = "PENDING"
      <4>1. mail'[m] = mail[m] \/ mail'[m] = row
        BY <2>1, <3>1, Updated
      <4>2. QED
        BY <3>1, <4>1
    <3>2. CASE MarkSent(w)
      <4>1. /\ [mail[worker[w].mail] EXCEPT !.status = "SENT"] \in MailRow
            /\ [mail[worker[w].mail] EXCEPT !.status = "SENT"].status = "SENT"
        BY <2>1, StatusRow DEF MailStatus
      <4>2. QED
        BY <3>1, <3>2, <4>1 DEF MarkSent
    <3>3. CASE MarkFailed(w)
      <4>1. [status |-> "FAILED", attempts |-> worker[w].attempts + 1] \in MailRow
        BY Fields DEF MailRow, MailStatus
      <4>2. QED
        BY <3>1, <3>3, <4>1 DEF MarkFailed
    <3>4. QED
      BY <1>6, <3>2, <3>3 DEF WorkerStep, FindTemplate, Smtp, ReadMail, CatchFails, Ack, Crash
  <2>6. Held(m)
    BY <1>1, <2>2, <2>5
  <2>7. CASE \/ worker[w].mail # m \/ worker[w].pc \notin Sending
             \/ worker'[w].mail = m /\ worker'[w].pc \in Sending
    BY <2>1, <2>3, <2>4, <2>6, <2>7 DEF Held, TypeOK
  <2>8. CASE worker[w].mail = m /\ worker[w].pc \in Sending
    <3>1. CASE FindTemplate(w) \/ Smtp(w)
      <4>1. \E label \in {"smtp", "markSent", "readMail"} : Goto(w, label)
        BY <3>1 DEF FindTemplate, Smtp
      <4>2. worker'[w].mail = m /\ worker'[w].pc \in Sending
        BY <2>8, <4>1, Moved DEF Sending
      <4>3. QED
        BY <2>7, <4>2
    <3>2. CASE ReadMail(w)
      <4>1. worker'[w].mail = m /\ worker'[w].pc \in Sending
        BY <2>8, <3>2 DEF ReadMail, Sending, TypeOK
      <4>2. QED
        BY <2>7, <4>1
    <3>3. CASE MarkSent(w)
      <4>1. ~Update(m, [mail[m] EXCEPT !.status = "SENT"])
        <5>1. /\ [mail[m] EXCEPT !.status = "SENT"] \in MailRow
              /\ [mail[m] EXCEPT !.status = "SENT"].status = "SENT"
          BY StatusRow DEF MailStatus
        <5>2. Stored(m)
          BY <2>5 DEF Stored, MailStatus
        <5>3. QED
          BY <5>1, <5>2, Updated
      <4>2. Goto(w, "readMail")
        BY <2>8, <3>3, <4>1 DEF MarkSent
      <4>3. worker'[w].mail = m /\ worker'[w].pc \in Sending
        BY <2>8, <4>2, Moved DEF Sending
      <4>4. QED
        BY <2>7, <4>3
    <3>4. CASE MarkFailed(w)
      <4>1. [status |-> "FAILED", attempts |-> worker[w].attempts + 1] \in MailRow
        BY Fields DEF MailRow, MailStatus
      <4>2. Stored(m) /\ Update(m, [status |-> "FAILED", attempts |-> worker[w].attempts + 1])
        BY <2>5, <2>8, <3>4 DEF Stored, MailStatus, MarkFailed
      <4>3. mail'[m] = [status |-> "FAILED", attempts |-> worker[w].attempts + 1]
        BY <4>1, <4>2, Updated
      <4>4. QED
        BY <4>3
    <3>5. CASE CatchFails(w) \/ Ack(w)
      BY <2>8, <3>5 DEF CatchFails, Ack, Sending
    <3>6. CASE Crash(w)
      <4>1. AddJob(m)
        BY <2>8, <3>6 DEF Crash
      <4>2. queued'[m] > 0
        BY <4>1, Added DEF TypeOK
      <4>3. QED
        BY <4>2 DEF Held
    <3>7. QED
      BY <1>6, <3>1, <3>2, <3>3, <3>4, <3>5, <3>6 DEF WorkerStep
  <2>9. QED
    BY <2>7, <2>8
<1>7. ASSUME NEW r \in Retry, RetryFind(r) PROVE Held(m)'
  <2>1. \A s \in Retry : retry'[s].mail = retry[s].mail
    BY <1>7, RetryFound
  <2>2. UNCHANGED <<mail, producer, queued, worker, faulted>>
    BY <1>7 DEF RetryFind
  <2>3. QED
    BY <1>1, <2>1, <2>2 DEF Held
<1>8. ASSUME NEW r \in Retry, RetryMark(r) PROVE Held(m)'
  <2>1. PICK n \in retry[r].todo :
            /\ n \in Mail
            /\ Update(n, [mail[n] EXCEPT !.status = "PENDING"])
            /\ \/ ReadAttempts(n) = NoMail /\ retry'[r] = IdleRetry
               \/ retry'[r] = [pc |-> "queue", todo |-> retry[r].todo \ {n}, mail |-> n]
            /\ \A s \in Retry \ {r} : retry'[s] = retry[s]
    BY <1>8, RetryMarked
  <2>2. [mail[n] EXCEPT !.status = "PENDING"] \in MailRow
    BY <2>1, StatusRow DEF MailStatus
  <2>3. UNCHANGED <<producer, queued, worker, faulted>> /\ retry[r].mail = NoMail
    BY <1>8 DEF RetryMark, RetryOK
  <2>4. CASE retry'[r].mail = m
    BY <2>4 DEF Held
  <2>5. CASE n # m
    <3>1. mail'[m] = mail[m]
      BY <2>1, <2>2, <2>5, Updated
    <3>2. NoMail # m
      BY MailConstants
    <3>3. QED
      BY <1>1, <2>1, <2>3, <3>1, <3>2 DEF Held
  <2>6. CASE n = m /\ ReadAttempts(m) = NoMail
    <3>1. ~Stored(m)
      BY <2>6, RowReads, AttemptsRead DEF RowOK, RowOf, Stored, MailStatus
    <3>2. mail'[m] = mail[m]
      BY <2>1, <2>2, <2>6, <3>1, Updated
    <3>3. QED
      BY <3>1, <3>2 DEF Stored, MailStatus
  <2>7. QED
    BY <2>1, <2>4, <2>5, <2>6
<1>9. ASSUME NEW r \in Retry, RetryQueue(r) PROVE Held(m)'
  <2>1. /\ retry[r].mail \in Mail /\ AddJob(retry[r].mail)
        /\ UNCHANGED <<mail, producer, worker, faulted>>
    BY <1>9 DEF RetryQueue, RetryOK
  <2>2. \A s \in Retry \ {r} : retry'[s] = retry[s]
    BY <1>9, RetryQueued
  <2>3. CASE retry[r].mail = m
    <3>1. queued'[m] > 0
      BY <2>1, <2>3, Added DEF TypeOK
    <3>2. QED
      BY <3>1 DEF Held
  <2>4. CASE retry[r].mail # m
    <3>1. queued'[m] = queued[m]
      BY <2>1, <2>4, Added
    <3>2. QED
      BY <1>1, <2>1, <2>2, <2>4, <3>1 DEF Held
  <2>5. QED
    BY <2>3, <2>4
<1>10. ASSUME NEW r \in Retry, RetryFails(r) PROVE Held(m)'
  <2>1. /\ retry[r].mail # m /\ m \notin faulted
        /\ UNCHANGED <<mail, producer, queued, worker>>
    BY <1>10, MailConstants DEF RetryFails, RetryOK
  <2>2. \A s \in Retry \ {r} : retry'[s] = retry[s]
    BY <1>10, Dropped DEF RetryFails
  <2>3. QED
    BY <1>1, <2>1, <2>2 DEF Held
<1>11. ASSUME Around PROVE Held(m)'
  <2>1. UNCHANGED <<producer, queued, worker, retry, faulted>>
    BY <1>11 DEF Around, CreateTemplate, ToggleTemplate, DeleteTemplate, CacheExpires
  <2>2. mail[m].status = "PENDING"
    <3>1. CASE DeleteTemplate
      <4>1. mail[m] \in MailRow
        BY Fields
      <4>2. ~Stored(m) \/ mail'[m].status = "deleted"
        BY <3>1, <4>1 DEF DeleteTemplate, MailRow
      <4>3. ~Stored(m) => mail'[m] = mail[m]
        BY <3>1 DEF DeleteTemplate
      <4>4. QED
        BY <4>2, <4>3
    <3>2. QED
      BY <1>11, <3>1 DEF Around, CreateTemplate, ToggleTemplate, CacheExpires
  <2>3. QED
    BY <1>1, <2>1, <2>2 DEF Held
<1>12. QED
  BY <1>2, <1>3, <1>4, <1>5, <1>6, <1>7, <1>8, <1>9, <1>10, <1>11 DEF Next, RetryStep, Around
----------------------------------------------------------------------------
\* The jobs of a mail that have not reached the server are finitely many.
LEMMA UnsentFinite ==
  ASSUME NEW m PROVE IsFiniteSet(Unsent(m)) /\ Cardinality(Unsent(m)) \in Nat
<1>1. Unsent(m) \subseteq Worker
  BY DEF Unsent
<1>2. IsFiniteSet(Unsent(m))
  BY <1>1, MailConstants, FS_Subset
<1>3. QED
  BY <1>2, FS_CardinalityType

\* Handing a job out, sending, and adding a job each keep the balance.
LEMMA JobsKept ==
  ASSUME TypeOK, JobsOK, NEW m \in Mail, Unsent(m)' \subseteq Unsent(m), sent'[m] = sent[m],
         \/ queued'[m] = queued[m] /\ jobs'[m] = jobs[m]
         \/ queued'[m] = queued[m] + 1 /\ jobs'[m] = jobs[m] + 1
  PROVE  sent'[m] + queued'[m] + Cardinality(Unsent(m)') <= jobs'[m]
<1>1. /\ IsFiniteSet(Unsent(m)) /\ Cardinality(Unsent(m)) \in Nat
  BY UnsentFinite
<1>2. Cardinality(Unsent(m)') \in Nat /\ Cardinality(Unsent(m)') <= Cardinality(Unsent(m))
  BY <1>1, FS_Subset, FS_CardinalityType
<1>3. /\ sent[m] \in Nat /\ queued[m] \in Nat /\ jobs[m] \in Nat
      /\ sent[m] + queued[m] + Cardinality(Unsent(m)) <= jobs[m]
  BY DEF TypeOK, JobsOK
<1>4. QED
  BY <1>1, <1>2, <1>3

LEMMA JobsStep ==
  ASSUME TypeOK, WorkerOK, RetryOK, JobsOK, Next
  PROVE  JobsOK'
<1> SUFFICES ASSUME NEW m \in Mail
             PROVE  sent'[m] + queued'[m] + Cardinality(Unsent(m)') <= jobs'[m]
  BY DEF JobsOK
<1> DEFINE Goal == sent'[m] + queued'[m] + Cardinality(Unsent(m)') <= jobs'[m]
<1>1. ASSUME UNCHANGED <<queued, worker, sent, jobs>> PROVE Goal
  BY <1>1, JobsKept DEF Unsent
<1>2. ASSUME NEW n \in Mail, AddJob(n), Unsent(m)' \subseteq Unsent(m), UNCHANGED sent PROVE Goal
  BY <1>2, Added, JobsKept
<1>3. ASSUME NEW n \in Mail, CreateMail(n) \/ QueueMail(n) \/ ProducerFails(n) PROVE Goal
  <2>1. UNCHANGED <<worker, sent>> /\ (UNCHANGED <<queued, jobs>> \/ AddJob(n))
    BY <1>3 DEF CreateMail, QueueMail, ProducerFails
  <2>2. Unsent(m)' = Unsent(m)
    BY <2>1 DEF Unsent
  <2>3. QED
    BY <1>1, <1>2, <2>1, <2>2
<1>4. ASSUME NEW w \in Worker, NEW n \in Mail, TakeJob(w, n) PROVE Goal
  <2>1. /\ worker[w].pc = "idle"
        /\ worker'[w].mail = n /\ worker'[w].pc = "template"
        /\ \A v \in Worker \ {w} : worker'[v] = worker[v]
        /\ UNCHANGED <<sent, jobs>>
    BY <1>4 DEF TakeJob, TypeOK
  <2>2. CASE n # m
    <3>1. Unsent(m)' \subseteq Unsent(m)
      BY <2>1, <2>2 DEF Unsent
    <3>2. queued'[m] = queued[m]
      BY <1>4, <2>2 DEF TakeJob, TypeOK
    <3>3. QED
      BY <2>1, <3>1, <3>2, JobsKept
  <2>3. CASE n = m
    <3>1. Unsent(m)' = Unsent(m) \cup {w} /\ w \notin Unsent(m)
      BY <2>1, <2>3 DEF Unsent
    <3>2. Cardinality(Unsent(m)') = Cardinality(Unsent(m)) + 1
      BY <3>1, UnsentFinite, FS_AddElement
    <3>3. queued'[m] = queued[m] - 1
      BY <1>4, <2>3 DEF TakeJob, TypeOK
    <3>4. sent[m] \in Nat /\ queued[m] \in Nat /\ jobs[m] \in Nat
          /\ Cardinality(Unsent(m)) \in Nat
          /\ sent[m] + queued[m] + Cardinality(Unsent(m)) <= jobs[m]
      BY UnsentFinite DEF TypeOK, JobsOK
    <3>5. QED
      BY <2>1, <3>2, <3>3, <3>4
  <2>4. QED
    BY <2>2, <2>3
<1>5. ASSUME NEW w \in Worker, Smtp(w) PROVE Goal
  <2>1. /\ worker[w].pc = "smtp" /\ worker[w].mail \in Mail
        /\ worker'[w].pc \notin {"template", "smtp"}
        /\ \A v \in Worker \ {w} : worker'[v] = worker[v]
        /\ UNCHANGED <<queued, jobs>>
    BY <1>5, Moved DEF Smtp, WorkerOK
  <2>2. CASE sent'[m] = sent[m]
    <3>1. Unsent(m)' \subseteq Unsent(m)
      BY <2>1 DEF Unsent
    <3>2. QED
      BY <2>1, <2>2, <3>1, JobsKept
  <2>3. CASE sent'[m] # sent[m]
    <3>1. worker[w].mail = m /\ sent'[m] = sent[m] + 1
      BY <1>5, <2>1, <2>3 DEF Smtp, TypeOK
    <3>2. Unsent(m)' = Unsent(m) \ {w} /\ w \in Unsent(m)
      BY <2>1, <3>1 DEF Unsent
    <3>3. Cardinality(Unsent(m)') = Cardinality(Unsent(m)) - 1
      BY <3>2, UnsentFinite, FS_RemoveElement
    <3>4. sent[m] \in Nat /\ queued[m] \in Nat /\ jobs[m] \in Nat
          /\ Cardinality(Unsent(m)) \in Nat
          /\ sent[m] + queued[m] + Cardinality(Unsent(m)) <= jobs[m]
      BY UnsentFinite DEF TypeOK, JobsOK
    <3>5. QED
      BY <2>1, <3>1, <3>3, <3>4
  <2>4. QED
    BY <2>2, <2>3
<1>6. ASSUME NEW w \in Worker, WorkerStep(w) \/ Crash(w), ~Smtp(w) PROVE Goal
  <2>1. UNCHANGED sent
    BY <1>6
       DEF WorkerStep, FindTemplate, Smtp, MarkSent, ReadMail, MarkFailed, CatchFails, Ack, Crash
  <2>2. Unsent(m)' \subseteq Unsent(m)
    <3>1. CASE FindTemplate(w)
      <4>1. /\ worker[w].pc = "template" /\ worker'[w].mail = worker[w].mail
            /\ \A v \in Worker \ {w} : worker'[v] = worker[v]
        BY <3>1, Moved DEF FindTemplate
      <4>2. QED
        BY <4>1 DEF Unsent
    <3>2. CASE MarkSent(w) \/ ReadMail(w) \/ MarkFailed(w) \/ CatchFails(w) \/ Ack(w) \/ Crash(w)
      <4>1. worker'[w].pc \notin {"template", "smtp"}
            /\ \A v \in Worker \ {w} : worker'[v] = worker[v]
        <5>1. CASE ReadMail(w)
          BY <5>1 DEF ReadMail, TypeOK
        <5>2. CASE Ack(w) \/ Crash(w)
          BY <5>2, Stopped DEF Ack, Crash
        <5>3. CASE MarkSent(w) \/ MarkFailed(w) \/ CatchFails(w)
          <6>1. \E label \in {"readMail", "ack"} : Goto(w, label)
            BY <5>3 DEF MarkSent, MarkFailed, CatchFails
          <6>2. QED
            BY <6>1, Moved
        <5>4. QED
          BY <3>2, <5>1, <5>2, <5>3
      <4>2. QED
        BY <4>1 DEF Unsent
    <3>3. QED
      BY <1>6, <3>1, <3>2 DEF WorkerStep
  <2>3. CASE UNCHANGED <<queued, jobs>>
    BY <2>1, <2>2, <2>3, JobsKept
  <2>4. CASE worker[w].mail \in Mail /\ AddJob(worker[w].mail)
    BY <1>2, <2>1, <2>2, <2>4
  <2>5. QED
    BY <1>6, <2>3, <2>4
       DEF WorkerStep, FindTemplate, MarkSent, ReadMail, MarkFailed, CatchFails, Ack, Crash, WorkerOK
<1>7. ASSUME NEW r \in Retry, RetryFind(r) \/ RetryStep(r) PROVE Goal
  <2>1. CASE RetryQueue(r)
    <3>1. retry[r].mail \in Mail /\ AddJob(retry[r].mail) /\ UNCHANGED <<worker, sent>>
      BY <2>1 DEF RetryQueue, RetryOK
    <3>2. Unsent(m)' = Unsent(m)
      BY <3>1 DEF Unsent
    <3>3. QED
      BY <1>2, <3>1, <3>2
  <2>2. QED
    BY <1>1, <1>7, <2>1 DEF RetryStep, RetryFind, RetryMark, RetryFails
<1>8. ASSUME Around PROVE Goal
  BY <1>1, <1>8 DEF Around, CreateTemplate, ToggleTemplate, DeleteTemplate, CacheExpires
<1>9. QED
  BY <1>3, <1>4, <1>5, <1>6, <1>7, <1>8 DEF Next, Around

----------------------------------------------------------------------------
LEMMA Initially == Init => IInv
<1> SUFFICES ASSUME Init PROVE IInv
  OBVIOUS
<1>1. /\ \A w \in Worker : worker[w] = Idle
      /\ \A r \in Retry : retry[r] = IdleRetry
  BY DEF Init
<1>2. TypeOK
  <2>1. Idle \in WorkerState /\ IdleRetry \in RetryState
    BY DEF Idle, WorkerState, IdleRetry, RetryState
  <2>2. [m \in Mail |-> [status |-> "none", attempts |-> 0]] \in [Mail -> MailRow]
    BY DEF MailRow
  <2>3. [template |-> {}, mail |-> [m \in Mail |-> {}], failed |-> {}] \in CacheState
    BY DEF CacheState
  <2>4. 0 \in 0..MaxCrashes
    BY MailConstants
  <2>5. worker \in [Worker -> WorkerState] /\ retry \in [Retry -> RetryState]
    BY <2>1 DEF Init
  <2>6. mail \in [Mail -> MailRow] /\ cache \in CacheState
    BY <2>2, <2>3 DEF Init
  <2>7. /\ template \in {"active", "inactive", "none"}
        /\ producer \in [Mail -> {"idle", "queue", "done", "failed"}]
        /\ queued \in [Mail -> Nat] /\ sent \in [Mail -> Nat] /\ jobs \in [Mail -> Nat]
        /\ faulted \subseteq Mail /\ strayed \subseteq Mail /\ crashes \in 0..MaxCrashes
    BY <2>4 DEF Init
  <2>8. QED
    BY <2>5, <2>6, <2>7 DEF TypeOK
<1>3. RowOK
  BY <1>1, MailConstants DEF Init, RowOK, RowOf, Away, Unread, Idle, IdleRetry
<1>4. WorkerOK /\ RetryOK
  BY <1>1 DEF WorkerOK, RetryOK, Idle, IdleRetry
<1>5. PendingOK
  BY DEF Init, PendingOK
<1>6. JobsOK
  <2>1. ASSUME NEW m \in Mail PROVE Unsent(m) = {}
    BY <1>1 DEF Unsent, Idle
  <2>2. ASSUME NEW m \in Mail PROVE Cardinality(Unsent(m)) = 0
    BY <2>1, FS_EmptySet
  <2>3. \A m \in Mail : sent[m] = 0 /\ queued[m] = 0 /\ jobs[m] = 0
    BY DEF Init
  <2>4. QED
    BY <2>2, <2>3 DEF JobsOK
<1>7. QED
  BY <1>2, <1>3, <1>4, <1>5, <1>6 DEF IInv

LEMMA Stutter == IInv /\ UNCHANGED vars => IInv'
<1> SUFFICES ASSUME IInv, UNCHANGED vars PROVE IInv'
  OBVIOUS
<1>1. TypeOK' /\ WorkerOK' /\ RetryOK'
  BY DEF IInv, vars, TypeOK, WorkerOK, RetryOK
<1>2. RowOK'
  BY DEF IInv, vars, RowOK, RowOf, Away, Unread
<1>3. PendingOK'
  BY DEF IInv, vars, PendingOK, Held
<1>4. JobsOK'
  BY DEF IInv, vars, JobsOK, Unsent
<1>5. QED
  BY <1>1, <1>2, <1>3, <1>4 DEF IInv

THEOREM Invariance == Spec => []IInv
<1>1. IInv /\ [Next]_vars => IInv'
  BY TypeStep, HandsStep, RowStep, PendingStep, JobsStep, Stutter DEF IInv
<1>2. QED
  BY <1>1, Initially, PTL DEF Spec

\* The tables, the queue, the workers, the retries and the cache stay in
\* their ranges: the "|| 0" of mail.service.ts keeps attempts a number even
\* for a row deleted under the worker.
THEOREM TypeCorrect == Spec => []TypeOK
<1>1. IInv => TypeOK
  BY DEF IInv
<1>2. QED
  BY <1>1, Invariance, PTL

\* For any number of workers, overlapping retries, crashes and stale reads: a
\* mail that says PENDING is on its way, unless a fault is on record.
THEOREM PendingHasAHand == Spec => []PendingIsInHand
<1>1. IInv => PendingIsInHand
  BY DEF IInv, PendingOK, Held, PendingIsInHand, InHand
<1>2. QED
  BY <1>1, Invariance, PTL

\* mail.service.ts sends once per run of a job: a mail goes out no more
\* often than jobs were run for it, redeliveries and retries counted.
THEOREM OneMessageEach == Spec => []OneMessagePerJob
<1>1. IInv => OneMessagePerJob
  <2>1. SUFFICES ASSUME IInv, NEW m \in Mail PROVE sent[m] <= jobs[m]
    BY DEF OneMessagePerJob
  <2>2. /\ sent[m] \in Nat /\ queued[m] \in Nat /\ jobs[m] \in Nat
        /\ Cardinality(Unsent(m)) \in Nat
        /\ sent[m] + queued[m] + Cardinality(Unsent(m)) <= jobs[m]
    BY <2>1, UnsentFinite DEF IInv, TypeOK, JobsOK
  <2>3. QED
    BY <2>2
<1>2. QED
  BY <1>1, Invariance, PTL
\* For any number of overlapping retries and any answers of the cache, nothing
\* brings back a mail that was sent or deleted, that nothing has in hand and
\* that no cached list of failed mails names.
THEOREM SentForGood == Spec => SentStaysSent
<1>1. ASSUME IInv, Next, NEW m \in Mail, Over(m) PROVE Over(m)'
  <2>1. TypeOK /\ RowOK /\ WorkerOK /\ RetryOK
    BY <1>1 DEF IInv
  <2>2. /\ mail[m].status \in {"SENT", "deleted"} /\ ~InHand(m, Sending \cup {"ack"})
        /\ \A list \in cache.failed : m \notin list
    BY <1>1 DEF Over
  <2>3. Away(m)
    <3>1. queued[m] = 0
      BY <2>1, <2>2 DEF InHand, TypeOK
    <3>2. ASSUME NEW w \in Worker PROVE worker[w].mail # m
      <4>1. worker[w].pc \in {"idle", "template", "smtp", "markSent", "readMail", "markFailed", "ack"}
        BY <2>1, Fields DEF WorkerState
      <4>2. QED
        BY <2>1, <2>2, <4>1, MailConstants DEF InHand, Sending, WorkerOK
    <3>3. QED
      BY <2>2, <3>1, <3>2 DEF InHand, Away
  <2>4. m \notin Answer(cache.failed, Retryable)
    BY <2>1, <2>2, FailedRead DEF Retryable, CanRetry
  <2>5. ~CreateMail(m)
    BY <2>1, <2>2 DEF CreateMail, RowOK, RowOf
  <2>6. Away(m)' /\ (mail'[m] = mail[m] \/ DeleteTemplate)
    BY <1>1, <2>1, <2>3, <2>4, <2>5, AwayStep
  <2>7. mail'[m].status \in {"SENT", "deleted"}
    <3>1. CASE DeleteTemplate
      BY <2>1, <2>2, <3>1, Fields DEF DeleteTemplate, MailRow
    <3>2. QED
      BY <2>2, <2>6, <3>1
  <2>8. ~InHand(m, Sending \cup {"ack"})'
    BY <2>6 DEF Away, InHand
  <2>9. \A list \in cache'.failed : m \notin list
    BY <1>1, <2>1, <2>2, <2>4, UnlistedStep
  <2>10. QED
    BY <2>7, <2>8, <2>9 DEF Over
<1>2. IInv /\ [Next]_vars => [\A m \in Mail : Over(m) => Over(m)']_vars
  BY <1>1
<1>3. QED
  BY <1>2, Invariance, PTL DEF Spec, SentStaysSent

----------------------------------------------------------------------------
(* A mail that never strayed is attempted MaxAttempts times at most: only one *)
(* hand at a time has it.                                                    *)

\* Who has a mail in hand: a worker until it has written an outcome, a retry
\* that has marked it and not queued it yet.
WorkerHas(w, m) == worker[w].mail = m /\ worker[w].pc \in Sending
NoWorker(m) == \A w \in Worker : ~WorkerHas(w, m)
NoRetry(m) == \A r \in Retry : retry[r].mail # m

\* One hand at a time.
OneHand(m) ==
    /\ queued[m] <= 1
    /\ producer[m] = "queue" => queued[m] = 0 /\ NoWorker(m) /\ NoRetry(m)
    /\ queued[m] = 1 => NoWorker(m) /\ NoRetry(m)
    /\ \A w \in Worker :
          WorkerHas(w, m) => NoRetry(m) /\ \A v \in Worker : WorkerHas(v, m) => v = w
    /\ \A r, q \in Retry : retry[r].mail = m /\ retry[q].mail = m => q = r

Settled(m) == producer[m] # "queue" /\ queued[m] = 0 /\ NoWorker(m) /\ NoRetry(m)

\* A mail that says FAILED is in nobody's hand, and one in a hand has an
\* attempt left.
Attempts(m) ==
    /\ mail[m].attempts <= MaxAttempts
    /\ mail[m].status = "none" => mail[m].attempts = 0
    /\ mail[m].status = "FAILED" => Settled(m)
    /\ ~Settled(m) => mail[m].attempts < MaxAttempts

\* The cache and a worker's catch know of no attempts the row has not had; a
\* cached answer is no newer than what the worker has read.
Known(m) ==
    /\ \A n \in cache.mail[m] \ {NoMail} : n <= mail[m].attempts
    /\ \A w \in Worker :
          WorkerHas(w, m) /\ worker[w].pc = "markFailed" =>
             /\ worker[w].attempts < MaxAttempts
             /\ \A n \in cache.mail[m] \ {NoMail} : n <= worker[w].attempts

CapOf(m) == OneHand(m) /\ Attempts(m) /\ Known(m)
CapOK == \A m \in Mail \ strayed : CapOf(m)

\* The worker still has the mail, as it had.
StillHas(w, m) ==
    /\ WorkerHas(w, m)
    /\ worker'[w].pc = "markFailed" =>
          worker[w].pc = "markFailed" /\ worker'[w].attempts = worker[w].attempts

\* A step that adds no hand, counts no attempt, and reads the mail only if no
\* worker is about to mark it.
LEMMA NoNewHand ==
  ASSUME TypeOK, NEW m \in Mail, CapOf(m),
         producer'[m] = "queue" => producer[m] = "queue",
         queued'[m] = queued[m],
         \A w \in Worker : WorkerHas(w, m)' => StillHas(w, m),
         \A r \in Retry : retry'[r].mail = m => retry[r].mail = m,
         mail'[m].attempts = mail[m].attempts,
         mail'[m].status = "none" => mail[m].status = "none",
         mail'[m].status = "FAILED" => mail[m].status = "FAILED",
         \/ cache'.mail[m] \subseteq cache.mail[m]
         \/ /\ cache'.mail[m] = {ReadAttempts(m)}
            /\ \A w \in Worker : ~(WorkerHas(w, m)' /\ worker'[w].pc = "markFailed")
  PROVE  CapOf(m)'
<1>1. NoWorker(m) => NoWorker(m)'
  BY DEF NoWorker, StillHas
<1>2. NoRetry(m) => NoRetry(m)'
  BY DEF NoRetry
<1>3. Settled(m) => Settled(m)'
  BY <1>1, <1>2 DEF Settled
<1>4. OneHand(m)'
  BY <1>1, <1>2 DEF CapOf, OneHand, StillHas
<1>5. Attempts(m)'
  BY <1>3 DEF CapOf, Attempts
<1>6. Known(m)'
  <2>1. \A n \in cache'.mail[m] \ {NoMail} : n \in cache.mail[m] \/ n = mail[m].attempts
    BY RowReads, AttemptsRead
  <2>2. \A n \in cache'.mail[m] \ {NoMail} : n <= mail'[m].attempts
    BY <2>1, RowReads DEF CapOf, Known
  <2>3. ASSUME NEW w \in Worker, WorkerHas(w, m)', worker'[w].pc = "markFailed"
        PROVE  /\ worker'[w].attempts < MaxAttempts
               /\ \A n \in cache'.mail[m] \ {NoMail} : n <= worker'[w].attempts
    BY <2>3 DEF CapOf, Known, StillHas
  <2>4. QED
    BY <2>2, <2>3 DEF Known
<1>7. QED
  BY <1>4, <1>5, <1>6 DEF CapOf

\* Nothing of the mail itself changes.
LEMMA HandsAsTheyWere ==
  ASSUME TypeOK, NEW m \in Mail, CapOf(m), UNCHANGED <<worker, retry>>,
         producer'[m] = "queue" => producer[m] = "queue",
         queued'[m] = queued[m], mail'[m] = mail[m],
         cache'.mail[m] \subseteq cache.mail[m]
  PROVE  CapOf(m)'
<1>1. \A w \in Worker : WorkerHas(w, m)' => StillHas(w, m)
  BY DEF WorkerHas, StillHas
<1>2. QED
  BY <1>1, NoNewHand

LEMMA CapProducer ==
  ASSUME TypeOK, RowOK, NEW m \in Mail, CapOf(m), NEW n \in Mail,
         CreateMail(n) \/ QueueMail(n) \/ ProducerFails(n)
  PROVE  CapOf(m)'
<1>1. UNCHANGED <<worker, retry>> /\ cache'.mail[m] = cache.mail[m]
  BY TemplateRemembered DEF CreateMail, QueueMail, ProducerFails
<1>2. NoWorker(m)' = NoWorker(m) /\ NoRetry(m)' = NoRetry(m)
  BY <1>1 DEF NoWorker, WorkerHas, NoRetry
<1>3. CASE CreateMail(n)
  <2>1. CASE n # m \/ (UNCHANGED mail /\ producer' = [producer EXCEPT ![n] = "failed"])
    <3>1. mail'[m] = mail[m] /\ queued' = queued
      BY <1>3, <2>1 DEF CreateMail, TypeOK
    <3>2. producer'[m] = "queue" => producer[m] = "queue"
      BY <1>3, <2>1 DEF CreateMail, TypeOK
    <3>3. QED
      BY <1>1, <3>1, <3>2, HandsAsTheyWere
  <2>2. CASE n = m /\ mail' = [mail EXCEPT ![m].status = "PENDING"]
    <3>1. mail[m].status = "none" /\ Away(m) /\ Unread(m)
      BY <1>3, <2>2 DEF CreateMail, RowOK, RowOf
    <3>2. mail' = [mail EXCEPT ![m] = [mail[m] EXCEPT !.status = "PENDING"]]
      BY <2>2 DEF TypeOK
    <3>3. mail'[m].status = "PENDING" /\ mail'[m].attempts = mail[m].attempts
      BY <3>2, Fields DEF TypeOK, MailRow
    <3>4. mail[m].attempts = 0
      BY <3>1 DEF CapOf, Attempts
    <3>5. queued'[m] = 0 /\ NoWorker(m)' /\ NoRetry(m)'
      BY <1>2, <1>3, <3>1 DEF CreateMail, Away, NoWorker, NoRetry, WorkerHas
    <3>6. OneHand(m)'
      BY <3>5 DEF OneHand, NoWorker, NoRetry
    <3>7. Attempts(m)'
      BY <3>3, <3>4, MailConstants DEF Attempts
    <3>8. Known(m)'
      BY <1>1, <3>1, <3>5 DEF Known, Unread, NoWorker
    <3>9. QED
      BY <3>6, <3>7, <3>8 DEF CapOf
  <2>3. QED
    BY <1>3, <2>1, <2>2 DEF CreateMail
<1>4. CASE QueueMail(n) /\ n = m
  <2>1. /\ producer[m] = "queue" /\ producer'[m] = "done"
        /\ queued'[m] = queued[m] + 1 /\ mail'[m] = mail[m]
    BY <1>4, Added DEF QueueMail, TypeOK
  <2>2. queued[m] = 0 /\ NoWorker(m) /\ NoRetry(m)
    BY <2>1 DEF CapOf, OneHand
  <2>3. queued'[m] = 1
    BY <2>1, <2>2
  <2>4. ~Settled(m)
    BY <2>1 DEF Settled
  <2>5. OneHand(m)'
    BY <1>2, <2>1, <2>2, <2>3 DEF OneHand, NoWorker, NoRetry
  <2>6. Attempts(m)'
    BY <2>1, <2>4 DEF CapOf, Attempts
  <2>7. Known(m)'
    BY <1>1, <1>2, <2>1, <2>2 DEF CapOf, Known, NoWorker
  <2>8. QED
    BY <2>5, <2>6, <2>7 DEF CapOf
<1>5. CASE ProducerFails(n) \/ (QueueMail(n) /\ n # m)
  <2>1. mail'[m] = mail[m] /\ queued'[m] = queued[m]
    BY <1>5, Added DEF ProducerFails, QueueMail
  <2>2. producer'[m] = "queue" => producer[m] = "queue"
    BY <1>5 DEF ProducerFails, QueueMail, TypeOK
  <2>3. QED
    BY <1>1, <2>1, <2>2, HandsAsTheyWere
<1>6. QED
  BY <1>3, <1>4, <1>5

\* A worker touches nothing of another mail than its own.
LEMMA OtherMail ==
  ASSUME TypeOK, WorkerOK, NEW m \in Mail, NEW w \in Worker, worker[w].mail # m,
         WorkerStep(w) \/ Crash(w)
  PROVE  /\ mail'[m] = mail[m] /\ queued'[m] = queued[m] /\ cache'.mail[m] = cache.mail[m]
         /\ UNCHANGED <<producer, retry>> /\ worker'[w].mail # m
         /\ \A v \in Worker \ {w} : worker'[v] = worker[v]
<1>1. PICK n \in Mail : n = worker[w].mail
  BY DEF WorkerOK, WorkerStep, FindTemplate, Smtp, MarkSent, ReadMail, MarkFailed, CatchFails,
         Ack, Crash
<1>2. n # m /\ NoMail # m
  BY <1>1, MailConstants
<1>3. mail'[m] = mail[m]
  <2>1. CASE MarkSent(w)
    <3>1. [mail[n] EXCEPT !.status = "SENT"] \in MailRow
      BY StatusRow DEF MailStatus
    <3>2. QED
      BY <1>1, <1>2, <2>1, <3>1, Updated DEF MarkSent
  <2>2. CASE MarkFailed(w)
    <3>1. [status |-> "FAILED", attempts |-> worker[w].attempts + 1] \in MailRow
      BY Fields DEF MailRow, MailStatus
    <3>2. QED
      BY <1>1, <1>2, <2>2, <3>1, Updated DEF MarkFailed
  <2>3. QED
    BY <2>1, <2>2 DEF WorkerStep, FindTemplate, Smtp, ReadMail, CatchFails, Ack, Crash
<1>4. queued'[m] = queued[m]
  BY <1>1, <1>2, Added
     DEF WorkerStep, FindTemplate, Smtp, MarkSent, ReadMail, MarkFailed, CatchFails, Ack, Crash
<1>5. cache'.mail[m] = cache.mail[m]
  <2>1. \/ UNCHANGED cache \/ RememberTemplate
        \/ \E attempts \in Nat : Remember(n, attempts)
    BY <1>1, Fields, RowReads
       DEF WorkerStep, FindTemplate, Smtp, MarkSent, ReadMail, MarkFailed, CatchFails, Ack, Crash
  <2>2. QED
    BY <1>2, <2>1, TemplateRemembered, MailRemembered
<1>6. UNCHANGED <<producer, retry>>
  BY DEF WorkerStep, FindTemplate, Smtp, MarkSent, ReadMail, MarkFailed, CatchFails, Ack, Crash
<1>7. worker'[w].mail # m /\ \A v \in Worker \ {w} : worker'[v] = worker[v]
  <2>1. CASE \E label \in {"smtp", "markSent", "readMail", "markFailed", "ack"} : Goto(w, label)
    BY <2>1, Moved
  <2>2. CASE worker' = [worker EXCEPT ![w] = Idle]
    BY <1>2, <2>2, Stopped
  <2>3. CASE ReadMail(w)
    BY <2>3 DEF ReadMail, TypeOK
  <2>4. QED
    BY <2>1, <2>2, <2>3
       DEF WorkerStep, FindTemplate, Smtp, MarkSent, MarkFailed, CatchFails, Ack, Crash
<1>8. QED
  BY <1>3, <1>4, <1>5, <1>6, <1>7

\* A job is taken: the hand goes from the queue to the worker.
LEMMA CapTake ==
  ASSUME TypeOK, NEW m \in Mail, CapOf(m), NEW w \in Worker, NEW n \in Mail, TakeJob(w, n)
  PROVE  CapOf(m)'
<1>1. /\ worker[w].pc = "idle" /\ UNCHANGED <<mail, producer, retry, cache>>
      /\ worker'[w] = [pc |-> "template", mail |-> n, attempts |-> 0]
      /\ \A v \in Worker \ {w} : worker'[v] = worker[v]
  BY DEF TakeJob, TypeOK
<1>2. \A v \in Worker : WorkerHas(v, m)' => (v = w /\ n = m) \/ StillHas(v, m)
  BY <1>1 DEF WorkerHas, StillHas
<1>3. CASE n # m
  <2>1. queued'[m] = queued[m]
    BY <1>3 DEF TakeJob, TypeOK
  <2>2. QED
    BY <1>1, <1>2, <1>3, <2>1, NoNewHand
<1>4. CASE n = m
  <2>1. queued[m] > 0 /\ queued'[m] = queued[m] - 1 /\ queued[m] \in Nat
    BY <1>4 DEF TakeJob, TypeOK
  <2>2. queued[m] = 1 /\ NoWorker(m) /\ NoRetry(m) /\ producer[m] # "queue"
    BY <2>1 DEF CapOf, OneHand
  <2>3. queued'[m] = 0
    BY <2>1, <2>2
  <2>4. \A v \in Worker : WorkerHas(v, m)' => v = w
    BY <1>2, <2>2 DEF NoWorker, StillHas
  <2>5. ~Settled(m)
    BY <2>2 DEF Settled
  <2>6. OneHand(m)'
    BY <1>1, <2>2, <2>3, <2>4 DEF OneHand, NoRetry
  <2>7. Attempts(m)'
    BY <1>1, <2>5 DEF CapOf, Attempts
  <2>8. Known(m)'
    BY <1>1, <2>4 DEF CapOf, Known
  <2>9. QED
    BY <2>6, <2>7, <2>8 DEF CapOf
<1>5. QED
  BY <1>3, <1>4

\* A worker's steps with its mail; a crash gives the mail back to the queue, or
\* to nobody.
LEMMA CapWorker ==
  ASSUME TypeOK, WorkerOK, NEW m \in Mail, CapOf(m), m \notin strayed',
         NEW w \in Worker, WorkerStep(w) \/ Crash(w)
  PROVE  CapOf(m)'
<1> DEFINE Fewer == \A v \in Worker : WorkerHas(v, m)' => StillHas(v, m)
<1>1. ASSUME NEW v \in Worker, worker'[v] = worker[v], WorkerHas(v, m)' PROVE StillHas(v, m)
  BY <1>1 DEF WorkerHas, StillHas
<1>2. CASE worker[w].mail # m
  <2>1. Fewer
    BY <1>1, <1>2, OtherMail DEF WorkerHas
  <2>2. QED
    BY <1>2, <2>1, OtherMail, NoNewHand
<1> SUFFICES ASSUME worker[w].mail = m PROVE CapOf(m)'
  BY <1>2
<1>3. UNCHANGED <<producer, retry>> /\ NoRetry(m)' = NoRetry(m)
  BY DEF WorkerStep, FindTemplate, Smtp, MarkSent, ReadMail, MarkFailed, CatchFails, Ack, Crash,
         NoRetry
<1>4. ASSUME worker[w].pc \in Sending
      PROVE  /\ WorkerHas(w, m) /\ ~Settled(m) /\ NoRetry(m)
             /\ producer[m] # "queue" /\ queued[m] = 0
             /\ \A v \in Worker : WorkerHas(v, m) => v = w
             /\ mail[m].attempts < MaxAttempts /\ mail[m].status # "FAILED"
  <2>1. WorkerHas(w, m)
    BY <1>4 DEF WorkerHas
  <2>2. ~Settled(m)
    BY <2>1 DEF Settled, NoWorker
  <2>3. /\ producer[m] # "queue" /\ queued[m] # 1 /\ queued[m] <= 1 /\ queued[m] \in Nat
    BY <2>1 DEF CapOf, OneHand, NoWorker, TypeOK
  <2>4. QED
    BY <2>1, <2>2, <2>3 DEF CapOf, OneHand, Attempts
<1>5. ASSUME NEW label \in {"smtp", "markSent", "readMail", "ack"},
             Goto(w, label), worker[w].pc \in Sending
      PROVE  Fewer /\ ~(WorkerHas(w, m)' /\ worker'[w].pc = "markFailed")
  <2>1. /\ worker'[w].pc = label
        /\ \A v \in Worker \ {w} : worker'[v] = worker[v]
    BY <1>5, Moved
  <2>2. WorkerHas(w, m)' => StillHas(w, m)
    BY <1>4, <1>5, <2>1 DEF StillHas
  <2>3. QED
    BY <1>1, <2>1, <2>2
<1>6. CASE FindTemplate(w) \/ Smtp(w) \/ CatchFails(w)
  <2>1. UNCHANGED <<queued, mail>> /\ worker[w].pc \in Sending
    BY <1>6 DEF FindTemplate, Smtp, CatchFails, Sending
  <2>2. \E label \in {"smtp", "markSent", "readMail", "ack"} : Goto(w, label)
    BY <1>6 DEF FindTemplate, Smtp, CatchFails
  <2>3. cache'.mail[m] = cache.mail[m]
    BY <1>6, TemplateRemembered DEF FindTemplate, Smtp, CatchFails
  <2>4. QED
    BY <1>3, <1>5, <2>1, <2>2, <2>3, NoNewHand
<1>7. CASE MarkSent(w)
  <2>1. UNCHANGED queued /\ worker[w].pc \in Sending
    BY <1>7 DEF MarkSent, Sending
  <2>2. Fewer /\ ~(WorkerHas(w, m)' /\ worker'[w].pc = "markFailed")
    BY <1>5, <1>7, <2>1 DEF MarkSent
  <2>3. UNCHANGED mail \/ Update(m, [mail[m] EXCEPT !.status = "SENT"])
    BY <1>7 DEF MarkSent
  <2>4. mail'[m].attempts = mail[m].attempts /\ mail'[m].status \in {mail[m].status, "SENT"}
    <3>1. /\ [mail[m] EXCEPT !.status = "SENT"] \in MailRow
          /\ [mail[m] EXCEPT !.status = "SENT"].status = "SENT"
      BY StatusRow DEF MailStatus
    <3>2. [mail[m] EXCEPT !.status = "SENT"].attempts = mail[m].attempts
      BY Fields DEF MailRow
    <3>3. QED
      BY <2>3, <3>1, <3>2, Updated
  <2>5. UNCHANGED cache \/ cache'.mail[m] = {ReadAttempts(m)}
    BY <1>7, RowReads, MailRemembered DEF MarkSent
  <2>6. \A v \in Worker : ~(WorkerHas(v, m)' /\ worker'[v].pc = "markFailed")
    BY <1>4, <2>1, <2>2 DEF StillHas
  <2>7. QED
    BY <1>3, <2>1, <2>2, <2>4, <2>5, <2>6, NoNewHand
<1>8. CASE ReadMail(w)
  <2>1. UNCHANGED <<queued, mail>> /\ worker[w].pc = "readMail" /\ RememberMail(m)
    BY <1>8 DEF ReadMail
  <2>2. PICK read : read = IF ReadAttempts(m) = NoMail THEN 0 ELSE ReadAttempts(m)
    OBVIOUS
  <2>3. /\ worker'[w] = [pc |-> "markFailed", mail |-> m, attempts |-> read]
        /\ \A v \in Worker \ {w} : worker'[v] = worker[v]
    BY <1>8, <2>2 DEF ReadMail, TypeOK
  <2>4. cache'.mail[m] = {ReadAttempts(m)}
    BY <2>1, RowReads, MailRemembered
  <2>5. ReadAttempts(m) # NoMail => ReadAttempts(m) <= mail[m].attempts
    <3>1. ReadAttempts(m) # NoMail =>
             ReadAttempts(m) = mail[m].attempts \/ ReadAttempts(m) \in cache.mail[m] \ {NoMail}
      BY RowReads, AttemptsRead
    <3>2. QED
      BY <3>1, RowReads DEF CapOf, Known
  <2>6. /\ WorkerHas(w, m) /\ ~Settled(m) /\ NoRetry(m) /\ producer[m] # "queue"
        /\ queued[m] = 0 /\ mail[m].attempts < MaxAttempts
        /\ \A v \in Worker : WorkerHas(v, m) => v = w
    BY <1>4, <2>1 DEF Sending
  <2>7. \A v \in Worker : WorkerHas(v, m)' => v = w
    BY <1>1, <2>3, <2>6 DEF StillHas
  <2>8. OneHand(m)'
    BY <1>3, <2>1, <2>6, <2>7 DEF OneHand, NoRetry
  <2>9. Attempts(m)'
    BY <2>1, <2>6 DEF CapOf, Attempts
  <2>10. read < MaxAttempts /\ (ReadAttempts(m) # NoMail => read = ReadAttempts(m))
    BY <2>2, <2>5, <2>6, RowReads, AttemptsRead, MailConstants
  <2>11. \A n \in cache'.mail[m] \ {NoMail} : n <= mail'[m].attempts /\ n <= read
    BY <2>1, <2>4, <2>5, <2>10, RowReads, AttemptsRead
  <2>12. Known(m)'
    BY <2>3, <2>7, <2>10, <2>11 DEF Known
  <2>13. QED
    BY <2>8, <2>9, <2>12 DEF CapOf
<1>9. CASE MarkFailed(w)
  <2>1. UNCHANGED queued /\ worker[w].pc = "markFailed"
    BY <1>9 DEF MarkFailed
  <2>2. PICK row : row = [status |-> "FAILED", attempts |-> worker[w].attempts + 1]
    OBVIOUS
  <2>3. Goto(w, "ack") /\ Update(m, row) /\ Remember(m, worker[w].attempts + 1)
    BY <1>9, <2>2 DEF MarkFailed
  <2>4. /\ row \in MailRow /\ row.status = "FAILED" /\ row.attempts = worker[w].attempts + 1
        /\ worker[w].attempts + 1 \in Nat
    BY <2>2, Fields DEF MailRow, MailStatus
  <2>5. /\ WorkerHas(w, m) /\ NoRetry(m) /\ producer[m] # "queue" /\ queued[m] = 0
        /\ \A v \in Worker : WorkerHas(v, m) => v = w
    BY <1>4, <2>1 DEF Sending
  <2>6. /\ worker[w].attempts < MaxAttempts
        /\ \A n \in cache.mail[m] \ {NoMail} : n <= worker[w].attempts
    BY <2>1, <2>5 DEF CapOf, Known
  <2>7. NoWorker(m)'
    <3>1. worker'[w].pc = "ack" /\ Fewer
      BY <1>5, <2>1, <2>3, Moved DEF Sending
    <3>2. QED
      BY <2>5, <3>1 DEF NoWorker, WorkerHas, StillHas, Sending
  <2>8. cache'.mail[m] = {Reread(m, worker[w].attempts + 1)}
    BY <2>3, <2>4, MailRemembered
  <2>9. Settled(m)' /\ OneHand(m)'
    BY <1>3, <2>1, <2>5, <2>7 DEF Settled, OneHand, NoWorker, NoRetry
  <2>10. CASE Stored(m)
    <3>1. mail'[m] = row
      BY <2>3, <2>4, <2>10, Updated
    <3>2. Attempts(m)'
      <4>1. worker[w].attempts \in Nat /\ MaxAttempts \in Nat
        BY Fields, MailConstants
      <4>2. mail'[m].attempts <= MaxAttempts /\ mail'[m].status = "FAILED"
        BY <2>4, <2>6, <3>1, <4>1
      <4>3. QED
        BY <2>9, <4>2 DEF Attempts
    <3>3. Reread(m, worker[w].attempts + 1) # NoMail =>
             Reread(m, worker[w].attempts + 1) <= worker[w].attempts + 1
      <4>1. Reread(m, worker[w].attempts + 1) # NoMail =>
               \/ Reread(m, worker[w].attempts + 1) = worker[w].attempts + 1
               \/ Reread(m, worker[w].attempts + 1) \in cache.mail[m] \ {NoMail}
        BY <2>4, AttemptsRead
      <4>2. cache.mail[m] \subseteq {NoMail} \cup Nat /\ worker[w].attempts \in Nat
        BY Fields
      <4>3. QED
        BY <2>6, <4>1, <4>2
    <3>4. Known(m)'
      BY <2>4, <2>7, <2>8, <3>1, <3>3 DEF Known, NoWorker
    <3>5. QED
      BY <2>9, <3>2, <3>4 DEF CapOf
  <2>11. CASE ~Stored(m)
    <3>1. mail'[m] = mail[m]
      BY <2>3, <2>4, <2>11, Updated
    <3>2. Attempts(m)'
      BY <2>9, <3>1 DEF CapOf, Attempts
    <3>3. cache'.mail[m] \ {NoMail} \subseteq cache.mail[m] \ {NoMail}
      BY <2>8, <2>11 DEF Reread, Answer
    <3>4. Known(m)'
      BY <2>7, <3>1, <3>3 DEF CapOf, Known, NoWorker
    <3>5. QED
      BY <2>9, <3>2, <3>4 DEF CapOf
  <2>12. QED
    BY <2>10, <2>11
<1>10. CASE Ack(w) \/ Crash(w)
  <2>1. /\ UNCHANGED <<mail, cache>> /\ worker[w].pc # "idle"
        /\ worker' = [worker EXCEPT ![w] = Idle]
    BY <1>10 DEF Ack, Crash
  <2>2. /\ worker'[w].mail = NoMail /\ NoMail # m
        /\ \A v \in Worker \ {w} : worker'[v] = worker[v]
    BY <2>1, Stopped, MailConstants
  <2>3. Fewer
    BY <1>1, <2>2 DEF WorkerHas
  <2>4. CASE UNCHANGED queued
    BY <1>3, <2>1, <2>3, <2>4, NoNewHand
  <2>5. CASE AddJob(m)
    <3>1. worker[w].pc \in Sending
      <4>1. worker[w].pc # "ack"
        BY <1>10, <2>5, Added DEF Ack, Crash, TypeOK
      <4>2. worker[w].pc \in {"idle", "template", "smtp", "markSent", "readMail", "markFailed", "ack"}
        BY Fields DEF WorkerState
      <4>3. QED
        BY <2>1, <4>1, <4>2 DEF Sending
    <3>2. /\ WorkerHas(w, m) /\ ~Settled(m) /\ NoRetry(m)
          /\ producer[m] # "queue" /\ queued[m] = 0
          /\ \A v \in Worker : WorkerHas(v, m) => v = w
      BY <1>4, <3>1
    <3>3. queued'[m] = 1
      BY <2>5, <3>2, Added
    <3>4. NoWorker(m)'
      BY <2>2, <2>3, <3>2 DEF NoWorker, WorkerHas, StillHas
    <3>5. OneHand(m)'
      BY <1>3, <3>2, <3>3, <3>4 DEF OneHand, NoWorker, NoRetry
    <3>6. Attempts(m)'
      BY <2>1, <3>2 DEF CapOf, Attempts
    <3>7. Known(m)'
      BY <2>1, <3>4 DEF CapOf, Known, NoWorker
    <3>8. QED
      BY <3>5, <3>6, <3>7 DEF CapOf
  <2>6. QED
    BY <1>10, <2>4, <2>5 DEF Ack, Crash
<1>11. QED
  BY <1>6, <1>7, <1>8, <1>9, <1>10 DEF WorkerStep

\* A retry takes a mail in hand that nobody has, unless it could not be retried
\* any more.
LEMMA CapRetry ==
  ASSUME TypeOK, RetryOK, NEW m \in Mail, CapOf(m), m \notin strayed',
         NEW r \in Retry, RetryFind(r) \/ RetryStep(r)
  PROVE  CapOf(m)'
<1>1. UNCHANGED <<producer, worker>> /\ NoWorker(m)' = NoWorker(m) /\ NoMail # m
  BY MailConstants
     DEF RetryStep, RetryFind, RetryMark, RetryQueue, RetryFails, NoWorker, WorkerHas
<1>2. \A w \in Worker : WorkerHas(w, m)' => StillHas(w, m)
  BY <1>1 DEF WorkerHas, StillHas
<1>3. ASSUME retry'[r].mail = m => retry[r].mail = m,
             \A s \in Retry \ {r} : retry'[s] = retry[s],
             queued'[m] = queued[m], mail'[m] = mail[m],
             cache'.mail[m] \subseteq cache.mail[m]
      PROVE  CapOf(m)'
  BY <1>1, <1>2, <1>3, NoNewHand
<1>4. CASE RetryFind(r)
  <2>1. UNCHANGED <<queued, mail>> /\ cache'.mail = cache.mail
    BY <1>4 DEF RetryFind, TypeOK, CacheState
  <2>2. QED
    BY <1>3, <1>4, <2>1, RetryFound
<1>5. CASE RetryMark(r)
  <2>1. PICK n \in retry[r].todo :
            /\ n \in Mail
            /\ Update(n, [mail[n] EXCEPT !.status = "PENDING"]) /\ RememberMail(n)
            /\ \/ retry'[r] = IdleRetry
               \/ retry'[r] = [pc |-> "queue", todo |-> retry[r].todo \ {n}, mail |-> n]
            /\ \A s \in Retry \ {r} : retry'[s] = retry[s]
            /\ n = m => CanRetry(m)
    BY <1>5, RetryMarked
  <2>2. UNCHANGED queued
    BY <1>5 DEF RetryMark
  <2>3. PICK row : row = [mail[n] EXCEPT !.status = "PENDING"]
    OBVIOUS
  <2>4. row \in MailRow /\ row.status = "PENDING" /\ row.attempts = mail[n].attempts
    BY <2>1, <2>3, Fields DEF MailRow, MailStatus
  <2>5. CASE n # m
    <3>1. mail'[m] = mail[m]
      BY <2>1, <2>3, <2>4, <2>5, Updated
    <3>2. retry'[r].mail # m
      BY <1>1, <2>1, <2>5 DEF IdleRetry
    <3>3. cache'.mail[m] = cache.mail[m]
      BY <2>1, <2>5, RowReads, MailRemembered
    <3>4. QED
      BY <1>3, <2>1, <2>2, <3>1, <3>2, <3>3
  <2>6. CASE n = m
    <3>1. mail[m].status = "FAILED" /\ mail[m].attempts < MaxAttempts /\ Settled(m)
      BY <2>1, <2>6 DEF CanRetry, CapOf, Attempts
    <3>2. mail'[m].attempts = mail[m].attempts /\ mail'[m].status = "PENDING"
      BY <2>1, <2>3, <2>4, <2>6, <3>1, Updated DEF Stored, MailStatus
    <3>3. \A s \in Retry : retry'[s].mail = m => s = r
      BY <2>1, <3>1 DEF Settled, NoRetry
    <3>4. OneHand(m)'
      BY <1>1, <2>2, <3>1, <3>3 DEF OneHand, NoWorker, Settled
    <3>5. Attempts(m)'
      BY <3>1, <3>2, Fields, MailConstants DEF Attempts
    <3>6. \A k \in cache'.mail[m] \ {NoMail} : k \in cache.mail[m] \/ k = mail[m].attempts
      BY <2>1, <2>6, RowReads, MailRemembered, AttemptsRead
    <3>7. Known(m)'
      BY <1>1, <3>1, <3>2, <3>6, Fields DEF CapOf, Known, Settled, NoWorker
    <3>8. QED
      BY <3>4, <3>5, <3>7 DEF CapOf
  <2>7. QED
    BY <2>5, <2>6
<1>6. CASE RetryQueue(r)
  <2>1. UNCHANGED <<mail, cache>> /\ AddJob(retry[r].mail) /\ retry[r].mail \in Mail
    BY <1>6 DEF RetryQueue, RetryOK
  <2>2. retry'[r].mail = NoMail /\ \A s \in Retry \ {r} : retry'[s] = retry[s]
    BY <1>6, RetryQueued
  <2>3. CASE retry[r].mail # m
    <3>1. queued'[m] = queued[m]
      BY <2>1, <2>3, Added
    <3>2. QED
      BY <1>1, <1>3, <2>1, <2>2, <3>1
  <2>4. CASE retry[r].mail = m
    <3>1. /\ ~Settled(m) /\ NoWorker(m) /\ producer[m] # "queue" /\ queued[m] = 0
      <4>1. /\ NoWorker(m) /\ producer[m] # "queue" /\ queued[m] # 1 /\ queued[m] <= 1
        BY <2>4 DEF CapOf, OneHand, NoWorker, NoRetry
      <4>2. QED
        BY <2>4, <4>1 DEF Settled, NoRetry, TypeOK
    <3>2. NoRetry(m)'
      BY <1>1, <2>2, <2>4 DEF NoRetry, CapOf, OneHand
    <3>3. queued'[m] = 1
      BY <2>1, <2>4, <3>1, Added
    <3>4. OneHand(m)'
      BY <1>1, <3>1, <3>2, <3>3 DEF OneHand, NoWorker, NoRetry
    <3>5. Attempts(m)'
      BY <2>1, <3>1 DEF CapOf, Attempts
    <3>6. Known(m)'
      BY <1>1, <2>1, <3>1 DEF CapOf, Known, NoWorker
    <3>7. QED
      BY <3>4, <3>5, <3>6 DEF CapOf
  <2>5. QED
    BY <2>3, <2>4
<1>7. CASE RetryFails(r)
  BY <1>1, <1>3, <1>7, Dropped DEF RetryFails
<1>8. QED
  BY <1>4, <1>5, <1>6, <1>7 DEF RetryStep

LEMMA CapStep ==
  ASSUME IInv, CapOK, [Next]_vars
  PROVE  CapOK'
<1>1. TypeOK /\ RowOK /\ WorkerOK /\ RetryOK
  BY DEF IInv
<1>2. strayed \subseteq strayed'
  BY DEF Next, CreateMail, QueueMail, ProducerFails, TakeJob, WorkerStep, FindTemplate, Smtp,
         MarkSent, ReadMail, MarkFailed, CatchFails, Ack, Crash, RetryFind, RetryStep, RetryMark,
         RetryQueue, RetryFails, CreateTemplate, ToggleTemplate, DeleteTemplate, CacheExpires, vars
<1> SUFFICES ASSUME NEW m \in Mail, CapOf(m), m \notin strayed' PROVE CapOf(m)'
  BY <1>2 DEF CapOK
<1>3. CASE UNCHANGED vars
  BY <1>1, <1>3, HandsAsTheyWere DEF vars
<1>4. ASSUME NEW n \in Mail, CreateMail(n) \/ QueueMail(n) \/ ProducerFails(n) PROVE CapOf(m)'
  BY <1>1, <1>4, CapProducer
<1>5. ASSUME NEW w \in Worker, NEW n \in Mail, TakeJob(w, n) PROVE CapOf(m)'
  BY <1>1, <1>5, CapTake
<1>6. ASSUME NEW w \in Worker, WorkerStep(w) \/ Crash(w) PROVE CapOf(m)'
  BY <1>1, <1>6, CapWorker
<1>7. ASSUME NEW r \in Retry, RetryFind(r) \/ RetryStep(r) PROVE CapOf(m)'
  BY <1>1, <1>7, CapRetry
<1>8. CASE CreateTemplate \/ ToggleTemplate
  BY <1>1, <1>8, HandsAsTheyWere DEF CreateTemplate, ToggleTemplate
<1>9. CASE CacheExpires
  <2>1. cache'.mail[m] \subseteq cache.mail[m]
    BY <1>1, <1>9 DEF CacheExpires, TypeOK, CacheState
  <2>2. QED
    BY <1>1, <1>9, <2>1, HandsAsTheyWere DEF CacheExpires
<1>10. CASE DeleteTemplate
  <2>1. UNCHANGED <<producer, queued, worker, retry, cache>>
    BY <1>10 DEF DeleteTemplate
  <2>2. mail'[m] = mail[m] \/ mail'[m] = [mail[m] EXCEPT !.status = "deleted"]
    BY <1>10 DEF DeleteTemplate
  <2>3. /\ mail'[m].attempts = mail[m].attempts
        /\ mail'[m].status \in {mail[m].status, "deleted"}
    BY <1>1, <2>2, Fields DEF MailRow
  <2>4. \A w \in Worker : WorkerHas(w, m)' => StillHas(w, m)
    BY <2>1 DEF WorkerHas, StillHas
  <2>5. QED
    BY <1>1, <2>1, <2>3, <2>4, NoNewHand
<1>11. QED
  BY <1>3, <1>4, <1>5, <1>6, <1>7, <1>8, <1>9, <1>10 DEF Next

LEMMA CapInitially == Init => CapOK
<1> SUFFICES ASSUME Init, NEW m \in Mail PROVE CapOf(m)
  BY DEF CapOK
<1>1. /\ mail[m] = [status |-> "none", attempts |-> 0]
      /\ producer[m] = "idle" /\ queued[m] = 0 /\ cache.mail[m] = {}
      /\ \A w \in Worker : worker[w] = Idle
      /\ \A r \in Retry : retry[r] = IdleRetry
      /\ NoMail # m
  BY MailConstants DEF Init
<1>2. NoWorker(m) /\ NoRetry(m)
  BY <1>1 DEF NoWorker, NoRetry, WorkerHas, Idle, IdleRetry
<1>3. OneHand(m)
  BY <1>1, <1>2 DEF OneHand, NoWorker, NoRetry
<1>4. Attempts(m)
  BY <1>1, MailConstants DEF Attempts
<1>5. Known(m)
  BY <1>1, <1>2 DEF Known, NoWorker
<1>6. QED
  BY <1>3, <1>4, <1>5 DEF CapOf

\* "Up to 5 attempts" (mail.module.ts:75), as far as it is true: for any mails,
\* workers, overlapping retries, crashes, faults and answers of the cache, a
\* mail goes past the limit only if a retry queued it when it was not a failed
\* mail with an attempt left, or if the job of a worker that died after it had
\* written the outcome was run again.
THEOREM AttemptsStop == Spec => []CappedUnlessStrayed
<1>1. CapOK => CappedUnlessStrayed
  BY DEF CapOK, CapOf, Attempts, CappedUnlessStrayed
<1>2. CapOK /\ IInv /\ [Next]_vars => CapOK'
  BY CapStep
<1>3. QED
  BY <1>1, <1>2, CapInitially, Invariance, PTL DEF Spec
=============================================================================
