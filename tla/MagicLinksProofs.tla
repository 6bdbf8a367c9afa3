-------------------------- MODULE MagicLinksProofs --------------------------
(***************************************************************************)
(* Proofs about MagicLinks, for any sets of links, visits, addresses and   *)
(* origins.  The invariant adds to the typing that a row is stored once    *)
(* (AskOK) and what a visit has seen of the link it presents (VisitOK).    *)
(***************************************************************************)
EXTENDS MagicLinks, TLAPS

\* A link has a row exactly from its INSERT on, and is mailed after it.
AskOK ==
    \A l \in Link :
        /\ l \in Stored <=> ask[l] # "idle"
        /\ l \in mailed => l \in Stored
        /\ ask[l] = "success" => l \in mailed

\* A visit past the first check presents a stored link, from its origin.
VisitOK ==
    \A v \in Visit : visit[v].pc \in {"findUser", "mark", "issue", "thrown"} =>
        /\ visit[v].link \in Stored
        /\ link[visit[v].link].origin = visit[v].origin

IInv == TypeOK /\ AskOK /\ VisitOK /\ RefusalKeepsLink

\* What the steps that touch the link table do to it.
LEMMA RowsOf ==
  ASSUME TypeOK, NEW l \in Stored
  PROVE  /\ l \in Link /\ link[l] \in LinkRow /\ link[l].used \in BOOLEAN
         /\ link[l].origin \in Origin /\ link[l].email \in Email
<1>1. l \in Link /\ link[l] \in LinkRow
  BY DEF TypeOK, Stored
<1>2. QED
  BY <1>1 DEF LinkRow

\* The row an INSERT writes is a row.
LEMMA NewLinkIsRow ==
  ASSUME NEW e \in Email, NEW o \in Origin
  PROVE  NewLink(e, o) \in LinkRow /\ NewLink(e, o) # NoLink /\ ~NewLink(e, o).used
<1>1. NewLink(e, o) \in LinkRow
  BY DEF NewLink, LinkRow
<1>2. ~NewLink(e, o).used
  BY DEF NewLink
<1>3. QED
  BY <1>1, <1>2, LinkConstants

\* The fields of a visit.
LEMMA VisitFields ==
  ASSUME TypeOK, NEW v \in Visit
  PROVE  /\ visit[v] \in VisitState /\ visit[v].link \in Link \cup {NoLink}
         /\ visit[v].pc \in {"idle", "findUser", "mark", "issue", "refused", "thrown", "fault"}
BY DEF TypeOK, VisitState

\* Every step keeps each variable in its range.
LEMMA TypeStep == TypeOK /\ VisitOK /\ [Next]_vars => TypeOK'
<1> SUFFICES ASSUME TypeOK, VisitOK, [Next]_vars PROVE TypeOK'
  OBVIOUS
<1>1. ASSUME NEW l \in Link, NEW e \in Email, NEW o \in Origin, InsertLink(l, e, o)
      PROVE  TypeOK'
  <2>1. NewLink(e, o) \in LinkRow
    BY NewLinkIsRow
  <2>2. QED
    BY <1>1, <2>1 DEF InsertLink, TypeOK
<1>2. ASSUME NEW l \in Link, SaveMail(l) \/ QueueMail(l) \/ AskFails(l) PROVE TypeOK'
  BY <1>2 DEF SaveMail, QueueMail, AskFails, TypeOK
<1>3. ASSUME NEW l \in Link, Expire(l) PROVE TypeOK'
  <2>1. link' \in [Link -> LinkRow \cup {NoLink}]
    BY <1>3, RowsOf DEF Expire, TypeOK, LinkRow
  <2>2. QED
    BY <1>3, <2>1 DEF Expire, TypeOK
<1>4. ASSUME NEW v \in Visit, NEW l \in Link, NEW o \in Origin, VisitLink(v, l, o)
      PROVE  TypeOK'
  BY <1>4 DEF VisitLink, TypeOK, VisitState
<1>5. ASSUME NEW v \in Visit, FindUser(v) \/ IssueThrows(v) \/ VisitFails(v) PROVE TypeOK'
  BY <1>5 DEF FindUser, IssueThrows, VisitFails, TypeOK, VisitState
<1>6. ASSUME NEW v \in Visit, MarkAsUsed(v) PROVE TypeOK'
  <2>1. visit[v].link \in Stored
    BY <1>6 DEF MarkAsUsed, VisitOK
  <2>2. link' \in [Link -> LinkRow \cup {NoLink}]
    BY <1>6, <2>1, RowsOf DEF MarkAsUsed, TypeOK, LinkRow
  <2>3. visit' \in [Visit -> VisitState]
    BY <1>6 DEF MarkAsUsed, TypeOK, VisitState
  <2>4. QED
    BY <1>6, <2>2, <2>3 DEF MarkAsUsed, TypeOK
<1>7. ASSUME NEW e \in Email, CreateUser(e) \/ DeleteUser(e) PROVE TypeOK'
  BY <1>7 DEF CreateUser, DeleteUser, TypeOK
<1>8. ASSUME NEW e \in Email, NEW f \in Email, ChangeEmail(e, f) PROVE TypeOK'
  BY <1>8 DEF ChangeEmail, TypeOK
<1>9. CASE UNCHANGED vars
  BY <1>9 DEF vars, TypeOK
<1>10. QED
  BY <1>1, <1>2, <1>3, <1>4, <1>5, <1>6, <1>7, <1>8, <1>9 DEF Next

\* How the table may change in one step: rows stay, with their origin; only a
\* visit at "mark" uses a link up.
Grows ==
    /\ \A l \in Stored : /\ l \in Stored' /\ link'[l].origin = link[l].origin
                         /\ link[l].used => link'[l].used
                         /\ link'[l].used /\ ~link[l].used =>
                              \E v \in Visit : visit[v].pc = "mark" /\ visit[v].link = l
                                               /\ MarkAsUsed(v)
    /\ \A l \in Stored' \ Stored : ~link'[l].used

\* No step takes a row, its origin or its use back.
LEMMA GrowStep ==
  ASSUME TypeOK, AskOK, VisitOK, [Next]_vars
  PROVE  Grows
<1>1. ASSUME NEW l \in Link, NEW e \in Email, NEW o \in Origin, InsertLink(l, e, o)
      PROVE  Grows
  <2>1. l \notin Stored /\ NewLink(e, o) # NoLink
    BY <1>1, NewLinkIsRow DEF InsertLink, AskOK
  <2>2. link'[l] = NewLink(e, o) /\ \A x \in Link \ {l} : link'[x] = link[x]
    BY <1>1 DEF InsertLink, TypeOK
  <2>3. QED
    BY <2>1, <2>2, NewLinkIsRow DEF Grows, Stored
<1>2. ASSUME NEW l \in Link, Expire(l) PROVE Grows
  <2>1. l \in Stored /\ link[l] \in LinkRow
    BY <1>2, RowsOf DEF Expire
  <2>2. /\ link'[l] = [link[l] EXCEPT !.expired = TRUE]
        /\ \A x \in Link \ {l} : link'[x] = link[x]
    BY <1>2 DEF Expire, TypeOK
  <2>3. /\ link'[l] \in LinkRow /\ link'[l].origin = link[l].origin
        /\ link'[l].used = link[l].used
    BY <2>1, <2>2 DEF LinkRow
  <2>4. QED
    BY <2>1, <2>2, <2>3, LinkConstants DEF Grows, Stored
<1>3. ASSUME NEW v \in Visit, MarkAsUsed(v) PROVE Grows
  <2>1. visit[v].link \in Stored /\ link[visit[v].link] \in LinkRow /\ visit[v].link \in Link
    BY <1>3, RowsOf DEF MarkAsUsed, VisitOK
  <2>2. /\ link'[visit[v].link] = [link[visit[v].link] EXCEPT !.used = TRUE]
        /\ \A x \in Link \ {visit[v].link} : link'[x] = link[x]
    BY <1>3, <2>1 DEF MarkAsUsed, TypeOK
  <2>3. /\ link'[visit[v].link] \in LinkRow
        /\ link'[visit[v].link].origin = link[visit[v].link].origin
        /\ link'[visit[v].link].used
    BY <2>1, <2>2 DEF LinkRow
  <2>4. visit[v].pc = "mark"
    BY <1>3 DEF MarkAsUsed
  <2>5. QED
    BY <1>3, <2>1, <2>2, <2>3, <2>4, LinkConstants DEF Grows, Stored
<1>4. CASE UNCHANGED link
  BY <1>4 DEF Grows, Stored
<1>5. QED
  BY <1>1, <1>2, <1>3, <1>4
     DEF Next, vars, SaveMail, QueueMail, AskFails, VisitLink, FindUser, IssueThrows,
         VisitFails, CreateUser, DeleteUser, ChangeEmail

\* Rows, requests and mails stay in step.
LEMMA AskStep ==
  ASSUME IInv, [Next]_vars
  PROVE  AskOK'
<1> USE DEF IInv
<1>1. Grows
  BY GrowStep
<1>2. ASSUME NEW l \in Link, NEW e \in Email, NEW o \in Origin, InsertLink(l, e, o)
      PROVE  AskOK'
  <2>1. NewLink(e, o) # NoLink
    BY NewLinkIsRow
  <2>2. link'[l] = NewLink(e, o) /\ \A x \in Link \ {l} : link'[x] = link[x]
    BY <1>2 DEF InsertLink, TypeOK
  <2>3. Stored' = Stored \cup {l}
    BY <2>1, <2>2 DEF Stored
  <2>4. QED
    BY <1>2, <2>3 DEF InsertLink, AskOK, TypeOK
<1>3. ASSUME NEW l \in Link, SaveMail(l) \/ QueueMail(l) \/ AskFails(l) PROVE AskOK'
  BY <1>3 DEF SaveMail, QueueMail, AskFails, AskOK, TypeOK, Stored
<1>4. ASSUME UNCHANGED <<ask, mailed>>, Stored' = Stored PROVE AskOK'
  BY <1>4 DEF AskOK
<1>5. ASSUME NEW l \in Link, Expire(l) PROVE Stored' = Stored
  BY <1>1, <1>5 DEF Expire, Grows, TypeOK, Stored
<1>6. ASSUME NEW v \in Visit, MarkAsUsed(v) PROVE Stored' = Stored
  BY <1>1, <1>6 DEF MarkAsUsed, Grows, TypeOK, Stored, VisitOK
<1>7. ASSUME UNCHANGED link PROVE Stored' = Stored
  BY <1>7 DEF Stored
<1>8. QED
  BY <1>2, <1>3, <1>4, <1>5, <1>6, <1>7
     DEF Next, vars, VisitLink, FindUser, IssueThrows, MarkAsUsed, Expire,
         VisitFails, CreateUser, DeleteUser, ChangeEmail

\* Only the visit that takes a step changes, and what the others saw stays.
LEMMA VisitStep ==
  ASSUME IInv, [Next]_vars
  PROVE  VisitOK'
<1> USE DEF IInv
<1>1. Grows
  BY GrowStep
<1>2. ASSUME NEW v \in Visit, visit'[v] = visit[v],
             visit[v].pc \in {"findUser", "mark", "issue", "thrown"}
      PROVE  visit'[v].link \in Stored' /\ link'[visit'[v].link].origin = visit'[v].origin
  BY <1>1, <1>2 DEF VisitOK, Grows
<1>3. ASSUME NEW v \in Visit, NEW l \in Link, NEW o \in Origin, VisitLink(v, l, o)
      PROVE  VisitOK'
  <2>1. \A x \in Visit \ {v} : visit'[x] = visit[x]
    BY <1>3 DEF VisitLink, TypeOK
  <2>2. /\ visit'[v].link = l /\ visit'[v].origin = o
        /\ visit'[v].pc \in {"findUser", "refused"}
        /\ visit'[v].pc = "findUser" => l \in Stored /\ link[l].origin = o
    BY <1>3 DEF VisitLink, TypeOK, MatchesFingerprint
  <2>3. visit'[v].pc = "findUser" => l \in Stored' /\ link'[l].origin = o
    BY <1>1, <2>2 DEF Grows
  <2>4. QED
    BY <1>2, <2>1, <2>2, <2>3 DEF VisitOK
<1>4. ASSUME NEW v \in Visit,
             FindUser(v) \/ MarkAsUsed(v) \/ IssueThrows(v) \/ VisitFails(v)
      PROVE  VisitOK'
  <2>1. \A x \in Visit \ {v} : visit'[x] = visit[x]
    BY <1>4 DEF FindUser, MarkAsUsed, IssueThrows, VisitFails, TypeOK
  <2>2. /\ visit[v].pc \in {"findUser", "mark", "issue"}
        /\ visit'[v].link = visit[v].link /\ visit'[v].origin = visit[v].origin
    BY <1>4, VisitFields
       DEF FindUser, MarkAsUsed, IssueThrows, VisitFails, TypeOK, VisitState
  <2>3. visit[v].link \in Stored' /\ link'[visit[v].link].origin = visit[v].origin
    BY <1>1, <2>2 DEF VisitOK, Grows
  <2>4. QED
    BY <1>2, <2>1, <2>2, <2>3 DEF VisitOK
<1>5. CASE UNCHANGED visit
  BY <1>2, <1>5 DEF VisitOK
<1>6. QED
  BY <1>3, <1>4, <1>5
     DEF Next, vars, InsertLink, SaveMail, QueueMail, AskFails, Expire, CreateUser,
         DeleteUser, ChangeEmail

\* A link is used up only by the visit that marks it, which goes on to where
\* the property finds it; and such a visit never goes back.
LEMMA RefusalStep ==
  ASSUME IInv, [Next]_vars
  PROVE  RefusalKeepsLink'
<1> USE DEF IInv
<1>1. Grows
  BY GrowStep
<1>2. ASSUME NEW v \in Visit, visit[v].pc \in {"issue", "thrown", "fault"}
      PROVE  /\ visit'[v].pc \in {"issue", "thrown", "fault"}
             /\ visit'[v].link = visit[v].link /\ visit'[v].origin = visit[v].origin
  <2>1. CASE visit'[v] = visit[v]
    BY <1>2, <2>1
  <2>2. CASE IssueThrows(v) \/ VisitFails(v)
    BY <1>2, <2>2 DEF IssueThrows, VisitFails, TypeOK, VisitState
  <2>3. ASSUME NEW x \in Visit \ {v}, MarkAsUsed(x) \/ FindUser(x) \/ IssueThrows(x) \/ VisitFails(x)
        PROVE  visit'[v] = visit[v]
    BY <2>3 DEF MarkAsUsed, FindUser, IssueThrows, VisitFails, TypeOK
  <2>4. ASSUME NEW x \in Visit, NEW l \in Link, NEW o \in Origin, VisitLink(x, l, o)
        PROVE  visit'[v] = visit[v]
    BY <1>2, <2>4 DEF VisitLink, TypeOK
  <2>5. ~MarkAsUsed(v) /\ ~FindUser(v)
    BY <1>2 DEF MarkAsUsed, FindUser
  <2>6. QED
    BY <2>1, <2>2, <2>3, <2>4, <2>5
       DEF Next, vars, InsertLink, SaveMail, QueueMail, AskFails, Expire, CreateUser,
           DeleteUser, ChangeEmail
<1>3. SUFFICES ASSUME NEW l \in Stored', link'[l].used
               PROVE  \E v \in Visit : /\ visit'[v].link = l
                                       /\ visit'[v].origin = link'[l].origin
                                       /\ visit'[v].pc \in {"issue", "thrown", "fault"}
  BY DEF RefusalKeepsLink
<1>4. l \in Stored /\ link'[l].origin = link[l].origin
  BY <1>1, <1>3 DEF Grows
<1>5. CASE link[l].used
  <2>1. PICK v \in Visit : /\ visit[v].link = l /\ visit[v].origin = link[l].origin
                           /\ visit[v].pc \in {"issue", "thrown", "fault"}
    BY <1>4, <1>5 DEF RefusalKeepsLink
  <2>2. QED
    BY <1>2, <1>4, <2>1
<1>6. CASE ~link[l].used
  <2>1. PICK v \in Visit : visit[v].pc = "mark" /\ visit[v].link = l /\ MarkAsUsed(v)
    BY <1>1, <1>3, <1>4, <1>6 DEF Grows
  <2>2. link[l].origin = visit[v].origin
    BY <2>1 DEF VisitOK
  <2>3. /\ visit'[v].pc = "issue" /\ visit'[v].link = l
        /\ visit'[v].origin = visit[v].origin
    BY <2>1 DEF MarkAsUsed, TypeOK, VisitState
  <2>4. QED
    BY <1>4, <2>2, <2>3
<1>7. QED
  BY <1>5, <1>6, RowsOf, <1>4

\* The inductive invariant holds in every reachable state.
THEOREM Invariance == Spec => []IInv
<1>1. Init => IInv
  <2>1. Init => TypeOK
    BY DEF Init, TypeOK, IdleVisit, VisitState
  <2>2. Init => Stored = {}
    BY DEF Init, Stored
  <2>3. QED
    BY <2>1, <2>2 DEF Init, IInv, AskOK, VisitOK, RefusalKeepsLink, IdleVisit
<1>2. IInv /\ [Next]_vars => IInv'
  BY TypeStep, AskStep, VisitStep, RefusalStep DEF IInv
<1>3. QED
  BY <1>1, <1>2, PTL DEF Spec

\* The tables and the calls stay in their ranges: a row is stored whole before
\* a visit reads or marks it, whatever it presents.
THEOREM TypeCorrect == Spec => []TypeOK
<1>1. IInv => TypeOK
  BY DEF IInv
<1>2. QED
  BY <1>1, Invariance, PTL

\* A visit that is refused never uses its link up, and a used link was used
\* by a visit from the origin that asked for it.
THEOREM RefusalConsumesNothing == Spec => []RefusalKeepsLink
<1>1. IInv => RefusalKeepsLink
  BY DEF IInv
<1>2. QED
  BY <1>1, Invariance, PTL

\* A link that reached a mailbox is stored, and success means it is mailed.
THEOREM MailedLinksWork == Spec => []MailedLinkWorks
<1>1. IInv => MailedLinkWorks
  BY DEF IInv, AskOK, MailedLinkWorks, TypeOK
<1>2. QED
  BY <1>1, Invariance, PTL

\* Once a link is used and its visits are over, no visit passes again.
LEMMA SpentStep ==
  ASSUME IInv, IInv', [Next]_vars, NEW l \in Link, Spent(l)
  PROVE  Spent(l)'
<1> USE DEF IInv
<1>1. l \in Stored /\ link[l].used /\ \A v \in Visit : ~Passed(v, l)
  BY DEF Spent
<1>2. l \in Stored' /\ link'[l].used
  BY <1>1, GrowStep DEF Grows
<1>3. ASSUME NEW v \in Visit, visit'[v].link = l, visit'[v].pc \in {"findUser", "mark", "issue"}
      PROVE  FALSE
  <2>1. CASE visit'[v] = visit[v]
    BY <1>1, <1>3, <2>1 DEF Passed
  <2>2. CASE FindUser(v) \/ MarkAsUsed(v) \/ IssueThrows(v) \/ VisitFails(v)
    BY <1>1, <1>3, <2>2
       DEF FindUser, MarkAsUsed, IssueThrows, VisitFails, TypeOK, VisitState, Passed
  <2>3. ASSUME NEW x \in Visit \ {v}, MarkAsUsed(x) \/ FindUser(x) \/ IssueThrows(x) \/ VisitFails(x)
        PROVE  visit'[v] = visit[v]
    BY <2>3 DEF MarkAsUsed, FindUser, IssueThrows, VisitFails, TypeOK
  <2>4. ASSUME NEW x \in Visit, NEW k \in Link, NEW o \in Origin, VisitLink(x, k, o),
               visit'[v] # visit[v]
        PROVE  FALSE
    <3>1. x = v
      BY <2>4 DEF VisitLink, TypeOK
    <3>2. visit'[v].link = k /\ (visit'[v].pc = "findUser" => IsValid(k))
      BY <2>4, <3>1 DEF VisitLink, TypeOK
    <3>3. visit'[v].pc \in {"findUser", "refused"}
      BY <2>4, <3>1 DEF VisitLink, TypeOK
    <3>4. QED
      BY <1>1, <1>3, <3>2, <3>3 DEF IsValid
  <2>5. QED
    BY <2>1, <2>2, <2>3, <2>4
       DEF Next, vars, InsertLink, SaveMail, QueueMail, AskFails, Expire, CreateUser,
           DeleteUser, ChangeEmail
<1>4. QED
  BY <1>2, <1>3 DEF Spent, Passed

\* A spent link is spent for good, whatever visits come later.
THEOREM SpentStaysSpent == Spec => SpentForGood
<1>1. IInv /\ IInv' /\ [Next]_vars => [\A l \in Link : Spent(l) => Spent(l)']_vars
  BY SpentStep
<1>2. QED
  BY <1>1, Invariance, PTL DEF Spec, SpentForGood

=============================================================================
