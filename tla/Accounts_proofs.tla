--------------------------- MODULE Accounts_proofs ---------------------------
(***************************************************************************)
(* Proofs about Accounts, for all goroutines, addresses, names and bounds. *)
(*                                                                         *)
(* A goroutine works from a row, a code or an id it has read some time     *)
(* ago.  Fits says which parts of that stay true of the tables whatever    *)
(* the others do; GrowthKeepsFit shows it once, from the few ways the      *)
(* tables change (Grows), and each action then has to account only for     *)
(* what it writes and for its own goroutine.                               *)
(***************************************************************************)
EXTENDS Accounts, FiniteSetTheorems, TLAPS

USE ConstantsAssumption

Handlers == Senders \cup Takers \cup Editors

\* The tables: keys are positions, no two accounts share an address, a row's
\* secret has been generated, confirmed if MFA is on, and an account's code
\* proves its address.
Tables ==
  /\ users \in Seq(Row)
  /\ codes \in Seq(Code)
  /\ now \in 0 .. MaxTime
  /\ requests \in 0 .. MaxRequests
  /\ secrets \in Nat
  /\ confirmed \subseteq 1 .. secrets
  /\ proofs \in Seq(Nat)
  /\ Len(proofs) = Len(users)
  /\ \A i \in DOMAIN users :
       /\ users[i].id = i
       /\ users[i].secret \in 0 .. secrets
       /\ users[i].mfa => users[i].secret \in confirmed
       /\ proofs[i] # 0 => Proof(proofs[i], users[i].email, "registration")
  /\ \A i, j \in DOMAIN users : users[i].email = users[j].email => i = j

\* Which handlers come to which query.
HandlerAt(j) ==
  /\ j.pc \in {"invalidate", "store_code"} => j.handler \in Senders
  /\ j.pc \in {"find_code", "mark_used"} => j.handler \in Takers
  /\ j.pc = "create" => j.handler = "RegisterVerify"
  /\ j.pc = "check_email" => j.handler \in {"RegisterRequest", "RegisterVerify"}
  /\ j.pc = "check_name" =>
       j.handler \in {"RegisterRequest", "RegisterVerify", "UpdateProfile"}
  /\ j.pc = "find_email" =>
       j.handler \in {"ForgotPasswordRequest", "ForgotPasswordVerify"}
  /\ j.pc = "save" => j.handler \in {"UpdateProfile", "SetRole"}
  /\ j.pc \in {"read", "write_mfa", "write_premium"} => j.handler \in Editors
  /\ j.pc = "write_password" => j.handler \in Editors \cup {"ForgotPasswordVerify"}

\* What a goroutine holds fits the tables, however old it is.
Fits(j) ==
  /\ j \in Job
  /\ j.code \in 0 .. Len(codes)
  /\ HandlerAt(j)
  /\ j.row.secret \in 0 .. secrets
  /\ j.row.mfa => j.row.secret \in confirmed
  /\ j.handler \in Senders \cup Takers => j.row.email \in Emails /\ j.row.id = 0
  /\ j.handler \in Editors => j.id \in DOMAIN users
  /\ j.row.id # 0 =>
       /\ j.row.id \in DOMAIN users
       /\ j.row.email = users[j.row.id].email
  /\ j.pc = "mark_used" =>
       /\ j.code \in DOMAIN codes
       /\ codes[j.code].email = j.row.email
       /\ codes[j.code].purpose = Purpose(j.handler)
  /\ j.handler \in Takers /\ j.pc \notin {"find_code", "mark_used"} =>
       Proof(j.code, j.row.email, Purpose(j.handler))

AccountsInv ==
  /\ Tables
  /\ work \in [Procs -> Job]
  /\ \A p \in Procs : Fits(work[p])

\* How the tables may change: rows and codes stay, a row keeps its address, a
\* code its address and purpose, and a used code stays used.
Grows ==
  /\ DOMAIN users \subseteq DOMAIN users'
  /\ \A i \in DOMAIN users : users'[i].email = users[i].email
  /\ Len(codes) \in Nat /\ Len(codes') \in Nat /\ Len(codes) <= Len(codes')
  /\ \A i \in DOMAIN codes :
       /\ i \in DOMAIN codes'
       /\ codes'[i].email = codes[i].email
       /\ codes'[i].purpose = codes[i].purpose
       /\ codes[i].used => codes'[i].used
  /\ secrets \in Nat /\ secrets' \in Nat /\ secrets <= secrets'
  /\ confirmed \subseteq confirmed'

LEMMA GrowthKeepsFit ==
  ASSUME Grows, NEW j, Fits(j)
  PROVE  Fits(j)'
<1>1. j.code \in 0 .. Len(codes') /\ j.row.secret \in 0 .. secrets'
  BY DEF Grows, Fits
<1>2. /\ j.row.mfa => j.row.secret \in confirmed'
      /\ j.handler \in Editors => j.id \in DOMAIN users'
      /\ j.row.id # 0 =>
           /\ j.row.id \in DOMAIN users'
           /\ j.row.email = users'[j.row.id].email
  BY DEF Grows, Fits
<1>3. j.pc = "mark_used" =>
        /\ j.code \in DOMAIN codes'
        /\ codes'[j.code].email = j.row.email
        /\ codes'[j.code].purpose = Purpose(j.handler)
  BY DEF Grows, Fits
<1>4. j.handler \in Takers /\ j.pc \notin {"find_code", "mark_used"} =>
        Proof(j.code, j.row.email, Purpose(j.handler))'
  BY DEF Grows, Fits, Proof
<1>5. QED BY <1>1, <1>2, <1>3, <1>4 DEF Fits, HandlerAt, Purpose

\* A step is sound if it leaves the tables sound, only lets them grow, and
\* leaves its own goroutine with what fits them.
LEMMA SoundStep ==
  ASSUME AccountsInv, Tables', Grows, NEW p \in Procs, NEW j, Fits(j)',
         work' = [work EXCEPT ![p] = j]
  PROVE  AccountsInv'
<1>1. j \in Job
  BY DEF Fits
<1>2. work' \in [Procs -> Job]
  BY <1>1 DEF AccountsInv
<1>3. ASSUME NEW q \in Procs
      PROVE  Fits(work[q])'
  <2>1. CASE q = p
    BY <2>1 DEF AccountsInv
  <2>2. CASE q # p
    <3>1. work'[q] = work[q] /\ Fits(work[q])
      BY <2>2 DEF AccountsInv
    <3>2. QED BY <3>1, GrowthKeepsFit
  <2>3. QED BY <2>1, <2>2
<1>4. QED BY <1>2, <1>3 DEF AccountsInv

LEMMA ZeroRowIsRow == ZeroRow \in Row /\ NoJob \in Job
BY DEF ZeroRow, Row, Roles, NoSecret, Never, NoJob, Job

LEMMA QuietStep ==
  ASSUME AccountsInv, UNCHANGED <<users, codes, now, secrets, confirmed, proofs>>,
         requests' \in 0 .. MaxRequests, NEW p \in Procs, NEW j, Fits(j),
         work' = [work EXCEPT ![p] = j]
  PROVE  AccountsInv'
<1>1. Tables'
  BY DEF AccountsInv, Tables, Proof
<1>2. Grows
  BY DEF AccountsInv, Tables, Grows
<1>3. Fits(j)'
  BY <1>2, GrowthKeepsFit
<1>4. QED BY <1>1, <1>2, <1>3, SoundStep

\* What a row handed out by a finder is worth.
LEMMA FoundRow ==
  ASSUME AccountsInv,
         NEW user \in {users[i] : i \in DOMAIN users} \cup {ZeroRow}
  PROVE  /\ user \in Row
         /\ user.secret \in 0 .. secrets
         /\ user.mfa => user.secret \in confirmed
         /\ user.id # 0 =>
              user.id \in DOMAIN users /\ user.email = users[user.id].email
<1>0. Tables
  BY DEF AccountsInv
<1>1. CASE user = ZeroRow
  BY <1>0, <1>1, ZeroRowIsRow DEF ZeroRow, NoSecret, Tables
<1>2. CASE user # ZeroRow
  <2>1. PICK i \in DOMAIN users : user = users[i]
    BY <1>2
  <2>2. QED BY <1>0, <2>1 DEF Tables
<1>3. QED BY <1>1, <1>2

LEMMA FoundByID ==
  ASSUME AccountsInv, NEW p \in Procs, NEW user \in Found(p)
  PROVE  user \in {users[i] : i \in DOMAIN users} \cup {ZeroRow}
BY DEF Found, FindByID

\* Moving on to another query with the row, code and id in hand.
LEMMA MovedFits ==
  ASSUME AccountsInv, NEW p \in Procs, work[p] # NoJob,
         NEW step \in PCs, HandlerAt([work[p] EXCEPT !.pc = step]),
         work[p].handler \in Takers =>
           step \notin {"find_code", "mark_used"} /\ work[p].pc \notin {"find_code", "mark_used"},
         step # "mark_used"
  PROVE  Fits([work[p] EXCEPT !.pc = step])
<1>1. Fits(work[p]) /\ work[p] \in Job
  BY DEF AccountsInv
<1>2. [work[p] EXCEPT !.pc = step] \in Job
  BY <1>1 DEF Job
<1>3. QED BY <1>1, <1>2 DEF Fits, Job

LEMMA NoJobFits ==
  ASSUME AccountsInv
  PROVE  Fits(NoJob)
<1>1. Len(codes) \in Nat /\ secrets \in Nat
  BY DEF AccountsInv, Tables
<1>2. QED BY <1>1, ZeroRowIsRow
          DEF Fits, NoJob, ZeroRow, NoSecret, HandlerAt, Senders, Takers, Editors

LEMMA FailKeepsInv ==
  ASSUME AccountsInv, NEW p \in Procs, Fail(p)
  PROVE  AccountsInv'
<1>1. requests' \in 0 .. MaxRequests
  BY DEF Fail, AccountsInv, Tables
<1>2. QED BY <1>1, NoJobFits, QuietStep DEF Fail, Finish

LEMMA RequestKeepsInv ==
  ASSUME AccountsInv, NEW p \in Procs, Request(p)
  PROVE  AccountsInv'
<1>0. /\ Len(codes) \in Nat /\ secrets \in Nat /\ ZeroRow \in Row
      /\ requests' \in 0 .. MaxRequests
      /\ DOMAIN users \subseteq Nat
  <2>1. /\ requests \in 0 .. MaxRequests /\ users \in Seq(Row)
        /\ codes \in Seq(Code) /\ secrets \in Nat
    BY DEF AccountsInv, Tables
  <2>2. requests < MaxRequests /\ requests' = requests + 1
    BY DEF Request
  <2>3. requests' \in 0 .. MaxRequests
    BY <2>1, <2>2
  <2>4. QED BY <2>1, <2>3, ZeroRowIsRow
<1>1. ASSUME NEW handler \in Senders \cup Takers, NEW step \in PCs,
             NEW row \in Row, row.email \in Emails, row.id = 0,
             row.secret = 0, row.mfa = FALSE,
             HandlerAt([handler |-> handler, pc |-> step]),
             step \in {"check_email", "find_email"} => handler \in Senders,
             step \in {"check_email", "find_email", "find_code"},
             Begin(p, handler, step, 0, row)
      PROVE  AccountsInv'
  <2> DEFINE j == [handler |-> handler, pc |-> step, id |-> 0, code |-> 0, row |-> row]
  <2>1. j \in Job
    BY <1>1 DEF Job
  <2>2. HandlerAt(j)
    BY <1>1 DEF HandlerAt
  <2>3. Fits(j)
    BY <1>0, <1>1, <2>1, <2>2 DEF Fits, Senders, Takers, Editors
  <2>4. QED BY <1>0, <1>1, <2>3, QuietStep DEF Request, Begin
<1>2. ASSUME NEW handler \in Editors, NEW id \in DOMAIN users,
             Begin(p, handler, "read", id, ZeroRow)
      PROVE  AccountsInv'
  <2> DEFINE j == [handler |-> handler, pc |-> "read", id |-> id, code |-> 0,
                   row |-> ZeroRow]
  <2>1. j \in Job
    BY <1>0, <1>2 DEF Job, PCs
  <2>2. Fits(j)
    BY <1>0, <1>2, <2>1
       DEF Fits, HandlerAt, ZeroRow, NoSecret, Senders, Takers, Editors
  <2>3. QED BY <1>0, <1>2, <2>2, QuietStep DEF Request, Begin
<1>3. ASSUME NEW email \in Emails, NEW name \in Names
      PROVE  LET asked == [ZeroRow EXCEPT !.email = email, !.name = name]
             IN  /\ asked \in Row /\ asked.email \in Emails /\ asked.id = 0
                 /\ asked.secret = 0 /\ asked.mfa = FALSE
  BY <1>0, <1>3 DEF ZeroRow, Row, NoSecret
<1>4. ASSUME NEW email \in Emails
      PROVE  LET asked == [ZeroRow EXCEPT !.email = email]
             IN  /\ asked \in Row /\ asked.email \in Emails /\ asked.id = 0
                 /\ asked.secret = 0 /\ asked.mfa = FALSE
  BY <1>0, <1>4 DEF ZeroRow, Row, NoSecret
<1>5. CASE \E email \in Emails, name \in Names :
             LET asked == [ZeroRow EXCEPT !.email = email, !.name = name]
             IN  \/ Begin(p, "RegisterRequest", "check_email", 0, asked)
                 \/ Begin(p, "RegisterVerify", "find_code", 0, asked)
  BY ZenonT(40), <1>1, <1>3, <1>5 DEF HandlerAt, Senders, Takers, Editors, PCs
<1>6. CASE \E email \in Emails :
             LET asked == [ZeroRow EXCEPT !.email = email]
             IN  \/ Begin(p, "ForgotPasswordRequest", "find_email", 0, asked)
                 \/ Begin(p, "ForgotPasswordVerify", "find_code", 0, asked)
  BY <1>1, <1>4, <1>6 DEF HandlerAt, Senders, Takers, Editors, PCs
<1>7. QED BY <1>2, <1>5, <1>6 DEF Request

\* Moving on, as one write of the goroutine's work.
LEMMA GotoPuts ==
  ASSUME AccountsInv, NEW p \in Procs, NEW step, Goto(p, step)
  PROVE  work' = [work EXCEPT ![p] = [work[p] EXCEPT !.pc = step]]
BY DEF Goto, AccountsInv

LEMMA Working ==
  ASSUME AccountsInv, NEW p \in Procs, work[p].pc \in PCs
  PROVE  /\ work[p] # NoJob /\ Fits(work[p])
         /\ work[p] \in [handler : Senders \cup Takers \cup Editors, pc : PCs,
                         id : Nat, code : Nat, row : Row]
         /\ requests \in 0 .. MaxRequests
BY DEF AccountsInv, Tables, Job, NoJob, PCs

LEMMA ChecksKeepInv ==
  ASSUME AccountsInv, NEW p \in Procs, CheckEmail(p) \/ CheckName(p)
  PROVE  AccountsInv'
<1>1. CASE CheckEmail(p)
  <2>1. Fits(work[p]) /\ work[p].pc = "check_email" /\ work[p] # NoJob
    BY <1>1, Working DEF CheckEmail, At, PCs
  <2>2. HandlerAt([work[p] EXCEPT !.pc = "check_name"])
    BY <2>1 DEF Fits, HandlerAt
  <2>3. Fits([work[p] EXCEPT !.pc = "check_name"])
    BY <2>1, <2>2, MovedFits DEF PCs
  <2>4. QED BY <1>1, <2>3, GotoPuts, QuietStep DEF CheckEmail, AccountsInv, Tables
<1>2. CASE CheckName(p)
  <2> DEFINE step == CASE work[p].handler = "RegisterRequest" -> "invalidate"
                       [] work[p].handler = "RegisterVerify" -> "create"
                       [] work[p].handler = "UpdateProfile" -> "save"
  <2>1. Fits(work[p]) /\ work[p].pc = "check_name" /\ work[p] # NoJob
    BY <1>2, Working DEF CheckName, At, PCs
  <2>2. work[p].handler \in {"RegisterRequest", "RegisterVerify", "UpdateProfile"}
    BY <2>1 DEF Fits, HandlerAt
  <2>3. /\ HandlerAt([work[p] EXCEPT !.pc = step])
        /\ step \in PCs /\ step \notin {"find_code", "mark_used"}
    BY <2>1, <2>2 DEF Fits, HandlerAt, PCs, Job, Senders, Takers, Editors, NoJob
  <2>4. Fits([work[p] EXCEPT !.pc = step])
    BY <2>1, <2>3, MovedFits
  <2>5. QED BY <1>2, <2>4, GotoPuts, QuietStep DEF CheckName, AccountsInv, Tables
<1>3. QED BY <1>1, <1>2

LEMMA FindEmailKeepsInv ==
  ASSUME AccountsInv, NEW p \in Procs, FindEmail(p)
  PROVE  AccountsInv'
<1>1. Fits(work[p]) /\ work[p].pc = "find_email" /\ work[p] # NoJob
  BY Working DEF FindEmail, At, PCs
<1>2. work[p].handler \in {"ForgotPasswordRequest", "ForgotPasswordVerify"}
  BY <1>1 DEF Fits, HandlerAt
<1>3. PICK user \in FindByEmail(work[p].row.email) :
        IF work[p].handler = "ForgotPasswordRequest"
          THEN Goto(p, "invalidate")
          ELSE work' = [work EXCEPT ![p].pc = "write_password", ![p].id = user.id]
  BY DEF FindEmail
<1>4. CASE work[p].handler = "ForgotPasswordRequest"
  <2>1. HandlerAt([work[p] EXCEPT !.pc = "invalidate"])
    BY <1>1, <1>4, Working DEF HandlerAt, Senders, PCs
  <2>2. Fits([work[p] EXCEPT !.pc = "invalidate"])
    BY <1>1, <1>4, <2>1, MovedFits DEF PCs, Takers
  <2>3. QED BY <1>3, <1>4, <2>2, GotoPuts, QuietStep DEF FindEmail, AccountsInv, Tables
<1>5. CASE work[p].handler = "ForgotPasswordVerify"
  <2> DEFINE j == [work[p] EXCEPT !.pc = "write_password", !.id = user.id]
  <2>1. user \in Row
    BY FoundRow DEF FindByEmail
  <2>2. work' = [work EXCEPT ![p] = j]
    <3>1. work = [q \in Procs |-> work[q]]
      BY DEF AccountsInv
    <3>2. QED BY <1>3, <1>5, <3>1
  <2>3. j \in Job
    BY ZenonT(40), <1>1, <2>1, Working DEF Job, Row, PCs
  <2>4. Fits(j)
    BY <1>1, <1>5, <2>3, Working DEF Fits, HandlerAt, Senders, Takers, Editors, PCs
  <2>5. QED BY <2>2, <2>4, QuietStep DEF FindEmail, AccountsInv, Tables
<1>6. QED BY <1>2, <1>4, <1>5

LEMMA FindCodeKeepsInv ==
  ASSUME AccountsInv, NEW p \in Procs, FindCode(p)
  PROVE  AccountsInv'
<1>1. /\ Fits(work[p]) /\ work[p].pc = "find_code" /\ work[p] # NoJob
      /\ work[p].handler \in Takers
  BY Working DEF FindCode, At, PCs, Fits, HandlerAt
<1>2. PICK i \in FindValid(work[p].row.email, Purpose(work[p].handler)) :
        work' = [work EXCEPT ![p].pc = "mark_used", ![p].code = i]
  BY DEF FindCode
<1> DEFINE j == [work[p] EXCEPT !.pc = "mark_used", !.code = i]
<1>3. work' = [work EXCEPT ![p] = j]
  <2>1. work = [q \in Procs |-> work[q]]
    BY DEF AccountsInv
  <2>2. QED BY <1>2, <2>1
<1>4. /\ i \in DOMAIN codes /\ i \in 0 .. Len(codes) /\ i \in Nat
      /\ codes[i].email = work[p].row.email
      /\ codes[i].purpose = Purpose(work[p].handler)
  BY <1>2 DEF FindValid, LiveCodes, AccountsInv, Tables
<1>5. j \in Job
  BY <1>1, <1>4, Working DEF Job, PCs
<1>6. Fits(j)
  BY <1>1, <1>4, <1>5, Working
     DEF Fits, HandlerAt, Senders, Takers, Editors, PCs, Purpose
<1>7. QED BY <1>3, <1>6, QuietStep DEF FindCode, AccountsInv, Tables

\* The read half of a handler that goes on with a row.
LEMMA EditStep ==
  ASSUME AccountsInv, NEW p \in Procs, work[p].pc = "read",
         NEW step \in {"check_name", "save", "write_mfa", "write_premium"},
         HandlerAt([work[p] EXCEPT !.pc = step]),
         NEW row \in Row,
         work' = [work EXCEPT ![p] = [work[p] EXCEPT !.pc = step, !.row = row]],
         UNCHANGED <<users, codes, now, requests, proofs>>,
         secrets' \in Nat, secrets <= secrets',
         confirmed \subseteq confirmed', confirmed' \subseteq 1 .. secrets',
         row.secret \in 0 .. secrets', row.mfa => row.secret \in confirmed',
         row.id # 0 => row.id \in DOMAIN users /\ row.email = users[row.id].email
  PROVE  AccountsInv'
<1>0. PICK j : j = [work[p] EXCEPT !.pc = step, !.row = row]
  OBVIOUS
<1>1. /\ Fits(work[p]) /\ work[p] # NoJob /\ work[p].handler \in Editors
      /\ work[p] \in [handler : Senders \cup Takers \cup Editors, pc : PCs,
                      id : Nat, code : Nat, row : Row]
  BY Working DEF PCs, Fits, HandlerAt
<1>2. Tables /\ secrets \in Nat
  BY DEF AccountsInv, Tables
<1>3. Tables'
  <2>1. \A i \in DOMAIN users : users[i].secret \in 0 .. secrets'
    BY <1>2 DEF Tables
  <2>2. QED BY <1>2, <2>1 DEF Tables, Proof
<1>4. Grows
  BY <1>2 DEF Tables, Grows
<1>5. j \in Job
  BY <1>0, <1>1 DEF Job, PCs
<1>6. HandlerAt(j)
  BY <1>0, <1>1 DEF HandlerAt
<1>7. Fits(j)'
  <2>1. j.handler \in Editors /\ j.handler \notin Senders \cup Takers
    BY <1>0, <1>1 DEF Senders, Takers, Editors
  <2>2. /\ j.pc = step /\ j.row = row
        /\ j.code \in 0 .. Len(codes) /\ j.id \in DOMAIN users
    BY <1>0, <1>1 DEF Fits
  <2>3. QED BY <1>5, <1>6, <2>1, <2>2 DEF Fits
<1>8. work' = [work EXCEPT ![p] = j]
  BY <1>0
<1>9. QED BY <1>3, <1>4, <1>7, <1>8, SoundStep

LEMMA ProfileAndRoleKeepInv ==
  ASSUME AccountsInv, NEW p \in Procs, UpdateProfile(p) \/ SetRole(p)
  PROVE  AccountsInv'
<1>1. /\ work[p] # NoJob /\ At(p, "read")
      /\ work[p] \in [handler : Senders \cup Takers \cup Editors, pc : PCs,
                      id : Nat, code : Nat, row : Row]
      /\ secrets \in Nat /\ confirmed \subseteq 1 .. secrets
      /\ UNCHANGED <<users, codes, now, requests, proofs, secrets, confirmed>>
      /\ work[p].handler \in {"UpdateProfile", "SetRole"}
  BY Working DEF At, PCs, AccountsInv, Tables, UpdateProfile, SetRole, Editing
<1>2. ASSUME NEW user \in Found(p), NEW step \in {"check_name", "save"}, NEW row \in Row,
             row.secret = user.secret, row.mfa = user.mfa,
             row.id = user.id, row.email = user.email,
             step = "check_name" => work[p].handler = "UpdateProfile",
             work' = [work EXCEPT ![p] = [work[p] EXCEPT !.pc = step, !.row = row]]
      PROVE  AccountsInv'
  <2>1. /\ user.secret \in 0 .. secrets
        /\ user.mfa => user.secret \in confirmed
        /\ user.id # 0 =>
             user.id \in DOMAIN users /\ user.email = users[user.id].email
    BY FoundByID, FoundRow
  <2>2. HandlerAt([work[p] EXCEPT !.pc = step])
    BY <1>1, <1>2 DEF HandlerAt
  <2>3. /\ secrets' = secrets /\ confirmed' = confirmed
        /\ UNCHANGED <<users, codes, now, requests, proofs>>
    BY <1>1
  <2>4. /\ row.secret \in 0 .. secrets'
        /\ row.mfa => row.secret \in confirmed'
        /\ row.id # 0 => row.id \in DOMAIN users /\ row.email = users[row.id].email
        /\ secrets' \in Nat /\ secrets <= secrets'
        /\ confirmed \subseteq confirmed' /\ confirmed' \subseteq 1 .. secrets'
    BY <1>1, <1>2, <2>1, <2>3
  <2>5. /\ work[p].pc = "read"
        /\ step \in {"check_name", "save", "write_mfa", "write_premium"}
        /\ work' = [work EXCEPT ![p] = [work[p] EXCEPT !.pc = step, !.row = row]]
    BY <1>1, <1>2 DEF At
  <2>6. QED BY <2>2, <2>3, <2>4, <2>5, EditStep
<1>3. ASSUME NEW user \in Found(p)
      PROVE  /\ user \in Row
             /\ \A name \in Names : [user EXCEPT !.name = name] \in Row
             /\ \A role \in Roles : [user EXCEPT !.role = role] \in Row
  BY FoundByID, FoundRow DEF Row
<1>4. work = [q \in Procs |-> work[q]]
  BY DEF AccountsInv
<1>5. CASE UpdateProfile(p)
  <2>1. PICK user \in Found(p) :
          \/ GotoWith(p, "save", user)
          \/ \E name \in Names \ {user.name} :
               GotoWith(p, "check_name", [user EXCEPT !.name = name])
    BY <1>5 DEF UpdateProfile
  <2>2. CASE GotoWith(p, "save", user)
    BY <1>2, <1>3, <1>4, <2>2 DEF GotoWith
  <2>3. ASSUME NEW name \in Names,
               GotoWith(p, "check_name", [user EXCEPT !.name = name])
        PROVE  AccountsInv'
    <3>1. PICK row \in Row : row = [user EXCEPT !.name = name]
      BY <1>3
    <3>2. /\ row.secret = user.secret /\ row.mfa = user.mfa
          /\ row.id = user.id /\ row.email = user.email
      BY <1>3, <3>1 DEF Row
    <3>3. work' = [work EXCEPT ![p] = [work[p] EXCEPT !.pc = "check_name", !.row = row]]
      BY <1>4, <2>3, <3>1 DEF GotoWith
    <3>4. work[p].handler = "UpdateProfile"
      BY <1>5 DEF UpdateProfile, Editing
    <3>5. QED BY <1>2, <3>2, <3>3, <3>4
  <2>4. QED BY <2>1, <2>2, <2>3
<1>6. CASE SetRole(p)
  <2>1. PICK user \in Found(p), role \in Roles :
          GotoWith(p, "save", [user EXCEPT !.role = role])
    BY <1>6 DEF SetRole
  <2>2. PICK row \in Row : row = [user EXCEPT !.role = role]
    BY <1>3
  <2>3. /\ row.secret = user.secret /\ row.mfa = user.mfa
        /\ row.id = user.id /\ row.email = user.email
    BY <1>3, <2>2 DEF Row
  <2>4. work' = [work EXCEPT ![p] = [work[p] EXCEPT !.pc = "save", !.row = row]]
    BY <1>4, <2>1, <2>2 DEF GotoWith
  <2>5. QED BY <1>2, <2>3, <2>4
<1>7. QED BY <1>5, <1>6

LEMMA PasswordReadsKeepInv ==
  ASSUME AccountsInv, NEW p \in Procs, ChangePassword(p) \/ SetUserPassword(p)
  PROVE  AccountsInv'
<1>1. /\ Fits(work[p]) /\ work[p].pc = "read" /\ work[p] # NoJob
      /\ work[p].handler \in Editors
      /\ Goto(p, "write_password") /\ requests' = requests
      /\ requests \in 0 .. MaxRequests
      /\ UNCHANGED <<users, codes, now, secrets, confirmed, proofs>>
  BY Working DEF ChangePassword, SetUserPassword, Editing, At, PCs, Fits, HandlerAt
<1>2. HandlerAt([work[p] EXCEPT !.pc = "write_password"])
  BY <1>1, Working DEF HandlerAt, PCs
<1>3. Fits([work[p] EXCEPT !.pc = "write_password"])
  BY <1>1, <1>2, MovedFits DEF PCs, Editors, Takers
<1>4. QED BY <1>1, <1>3, GotoPuts, QuietStep

\* The MFA and premium handlers put a fresh row in their goroutine's hands.
LEMMA MFAAndPremiumReadsKeepInv ==
  ASSUME AccountsInv, NEW p \in Procs,
         Setup(p) \/ Enable(p) \/ Disable(p) \/ Status(p) \/ AdminSet(p)
  PROVE  AccountsInv'
<1>1. /\ work[p].pc = "read" /\ work[p] # NoJob /\ Fits(work[p])
      /\ work[p] \in [handler : Senders \cup Takers \cup Editors, pc : PCs,
                      id : Nat, code : Nat, row : Row]
      /\ secrets \in Nat /\ confirmed \subseteq 1 .. secrets /\ ZeroRow \in Row
      /\ UNCHANGED <<users, codes, now, requests, proofs>>
      /\ work = [q \in Procs |-> work[q]]
      /\ work[p].handler \in Editors
  BY ZenonT(40), Working, ZeroRowIsRow
     DEF At, PCs, AccountsInv, Tables, Setup, Enable, Disable, Status, AdminSet,
         Editing, Fits, HandlerAt
<1>2. \A step \in {"write_mfa", "write_premium"} : HandlerAt([work[p] EXCEPT !.pc = step])
  BY <1>1 DEF HandlerAt
<1>3. ASSUME NEW step \in {"write_mfa", "write_premium"}, NEW row \in Row, row.id = 0,
             work' = [work EXCEPT ![p].pc = step, ![p].row = row],
             secrets' \in Nat, secrets <= secrets',
             confirmed \subseteq confirmed', confirmed' \subseteq 1 .. secrets',
             row.secret \in 0 .. secrets', row.mfa => row.secret \in confirmed'
      PROVE  AccountsInv'
  <2>1. work' = [work EXCEPT ![p] = [work[p] EXCEPT !.pc = step, !.row = row]]
    BY <1>1, <1>3
  <2>2. step \in {"check_name", "save", "write_mfa", "write_premium"}
    OBVIOUS
  <2>3. QED BY <1>1, <1>2, <1>3, <2>1, <2>2, EditStep
<1>4. /\ ZeroRow.id = 0 /\ ZeroRow.secret = 0 /\ ZeroRow.mfa = FALSE
      /\ ZeroRow \in Row
  BY ZeroRowIsRow DEF ZeroRow, NoSecret
<1>5. CASE Setup(p)
  <2>1. /\ secrets' = secrets + 1 /\ confirmed' = confirmed
        /\ GotoWith(p, "write_mfa", [ZeroRow EXCEPT !.secret = secrets + 1])
    BY <1>5 DEF Setup
  <2>2. PICK row \in Row : row = [ZeroRow EXCEPT !.secret = secrets + 1]
    <3>1. PICK n \in Nat : n = secrets + 1
      BY <1>1
    <3>2. [ZeroRow EXCEPT !.secret = n] \in Row
      BY <1>4 DEF Row
    <3>3. QED BY <3>1, <3>2
  <2>3. row.id = 0 /\ row.secret = secrets + 1 /\ row.mfa = FALSE
    BY <1>4, <2>2 DEF Row
  <2>4. secrets' \in Nat /\ secrets <= secrets' /\ confirmed' \subseteq 1 .. secrets'
    BY <1>1, <2>1
  <2>5. row.secret \in 0 .. secrets' /\ confirmed \subseteq confirmed'
    BY <1>1, <2>1, <2>3
  <2>6. work' = [work EXCEPT ![p].pc = "write_mfa", ![p].row = row]
    BY <2>1, <2>2 DEF GotoWith
  <2>7. QED BY <1>3, <2>3, <2>4, <2>5, <2>6
<1>6. CASE Enable(p)
  <2>1. PICK user \in Found(p) :
          /\ user.secret # NoSecret
          /\ confirmed' = confirmed \cup {user.secret}
          /\ GotoWith(p, "write_mfa",
                      [ZeroRow EXCEPT !.mfa = TRUE, !.secret = user.secret])
    BY <1>6 DEF Enable
  <2>2. user.secret \in 0 .. secrets
    BY FoundByID, FoundRow
  <2>3. PICK row \in Row : row = [ZeroRow EXCEPT !.mfa = TRUE, !.secret = user.secret]
    <3>1. PICK n \in Nat : n = user.secret
      BY <1>1, <2>2
    <3>2. [ZeroRow EXCEPT !.mfa = TRUE, !.secret = n] \in Row
      BY <1>4 DEF Row
    <3>3. QED BY <3>1, <3>2
  <2>4. row.id = 0 /\ row.secret = user.secret
    BY <1>4, <2>3 DEF Row
  <2>5. secrets' = secrets
    BY <1>6 DEF Enable
  <2>6. /\ confirmed \subseteq confirmed' /\ user.secret \in confirmed'
        /\ confirmed' \subseteq 1 .. secrets'
    BY <1>1, <2>1, <2>2, <2>5 DEF NoSecret
  <2>7. secrets' \in Nat /\ secrets <= secrets' /\ row.secret \in 0 .. secrets'
    BY <1>1, <2>2, <2>4, <2>5
  <2>8. work' = [work EXCEPT ![p].pc = "write_mfa", ![p].row = row]
    BY <2>1, <2>3 DEF GotoWith
  <2>9. QED BY <1>3, <2>4, <2>6, <2>7, <2>8
<1>7. ASSUME NEW step \in {"write_mfa", "write_premium"}, NEW row \in Row,
             row.id = 0, row.secret = 0, row.mfa = FALSE,
             work' = [work EXCEPT ![p].pc = step, ![p].row = row],
             secrets' = secrets, confirmed' = confirmed
      PROVE  AccountsInv'
  <2>1. /\ secrets' \in Nat /\ secrets <= secrets' /\ confirmed \subseteq confirmed'
        /\ confirmed' \subseteq 1 .. secrets' /\ row.secret \in 0 .. secrets'
    BY <1>1, <1>7
  <2>2. QED BY <1>3, <1>7, <2>1
<1>8. CASE Disable(p) \/ Status(p)
  <2>1. secrets' = secrets /\ confirmed' = confirmed
    BY <1>8 DEF Disable, Status
  <2>2. \/ GotoWith(p, "write_mfa", ZeroRow)
        \/ GotoWith(p, "write_premium", ZeroRow)
    BY <1>8 DEF Disable, Status
  <2>3. QED BY <1>4, <1>7, <2>1, <2>2 DEF GotoWith
<1>9. CASE AdminSet(p)
  <2>1. PICK premium \in BOOLEAN, expires \in 0 .. Never :
          GotoWith(p, "write_premium",
                   [ZeroRow EXCEPT !.premium = premium, !.expires = expires])
    BY <1>9 DEF AdminSet
  <2>2. PICK row \in Row :
          row = [ZeroRow EXCEPT !.premium = premium, !.expires = expires]
    BY <1>4 DEF Row
  <2>3. row.id = 0 /\ row.secret = 0 /\ row.mfa = FALSE
    BY <1>4, <2>2 DEF Row
  <2>4. work' = [work EXCEPT ![p].pc = "write_premium", ![p].row = row]
    BY <2>1, <2>2 DEF GotoWith
  <2>5. QED BY <1>7, <1>9, <2>3, <2>4 DEF AdminSet
<1>10. QED BY <1>5, <1>6, <1>8, <1>9

LEMMA FunctionIsSeq ==
  ASSUME NEW S, NEW n \in Nat, NEW f \in [1 .. n -> S]
  PROVE  f \in Seq(S) /\ Len(f) = n /\ DOMAIN f = 1 .. n
OBVIOUS

\* Codes are added and used up, and never change otherwise.
LEMMA CodesStep ==
  ASSUME AccountsInv, UNCHANGED <<users, now, requests, secrets, confirmed, proofs>>,
         codes' \in Seq(Code), Len(codes) <= Len(codes'),
         \A i \in DOMAIN codes :
           /\ codes'[i].email = codes[i].email
           /\ codes'[i].purpose = codes[i].purpose
           /\ codes[i].used => codes'[i].used
  PROVE  Tables' /\ Grows
<1>1. Tables /\ codes \in Seq(Code)
  BY DEF AccountsInv, Tables
<1>2. \A i \in DOMAIN codes : i \in DOMAIN codes'
  BY <1>1
<1>3. Grows
  BY <1>1, <1>2 DEF Tables, Grows
<1>4. \A i, email, purpose : Proof(i, email, purpose) => Proof(i, email, purpose)'
  BY <1>2 DEF Proof
<1>5. Tables'
  BY <1>1, <1>4 DEF Tables
<1>6. QED BY <1>3, <1>5

LEMMA InvalidateKeepsInv ==
  ASSUME AccountsInv, NEW p \in Procs, InvalidatePrevious(p)
  PROVE  AccountsInv'
<1>1. /\ Fits(work[p]) /\ work[p].pc = "invalidate" /\ work[p] # NoJob
      /\ work[p].handler \in Senders /\ codes \in Seq(Code)
  BY Working DEF InvalidatePrevious, At, PCs, Fits, HandlerAt, AccountsInv, Tables
<1>2. /\ codes' \in Seq(Code) /\ Len(codes') = Len(codes)
      /\ \A i \in DOMAIN codes :
           /\ codes'[i].email = codes[i].email
           /\ codes'[i].purpose = codes[i].purpose
           /\ codes[i].used => codes'[i].used
  <2>1. PICK n \in Nat : DOMAIN codes = 1 .. n /\ n = Len(codes)
    BY <1>1
  <2>2. \A i \in 1 .. n : codes[i] \in Code
    BY <1>1, <2>1
  <2>3. \A i \in 1 .. n : [codes[i] EXCEPT !.used = TRUE] \in Code
    BY <2>2 DEF Code
  <2>4. /\ DOMAIN codes' = 1 .. n
        /\ codes' = [i \in 1 .. n |-> codes'[i]]
        /\ \A i \in 1 .. n : codes'[i] \in {codes[i], [codes[i] EXCEPT !.used = TRUE]}
    BY <2>1 DEF InvalidatePrevious
  <2>5. codes' \in [1 .. n -> Code]
    BY <2>2, <2>3, <2>4
  <2>6. codes' \in Seq(Code) /\ Len(codes') = n
    BY <2>4, <2>5
  <2>7. \A i \in 1 .. n :
           /\ codes'[i].email = codes[i].email
           /\ codes'[i].purpose = codes[i].purpose
           /\ codes[i].used => codes'[i].used
    BY <2>2, <2>4 DEF Code
  <2>8. QED BY <2>1, <2>6, <2>7
<1>3. Len(codes) <= Len(codes')
  BY <1>1, <1>2
<1>4. Tables' /\ Grows
  BY <1>2, <1>3, CodesStep DEF InvalidatePrevious
<1>5. HandlerAt([work[p] EXCEPT !.pc = "store_code"])
  BY <1>1, Working DEF HandlerAt, Senders, PCs
<1>6. PICK j : j = [work[p] EXCEPT !.pc = "store_code"]
  OBVIOUS
<1>7. Fits(j)
  BY <1>1, <1>5, <1>6, MovedFits DEF PCs, Senders, Takers
<1>8. work' = [work EXCEPT ![p] = j]
  BY <1>6, GotoPuts DEF InvalidatePrevious
<1>9. QED BY <1>4, <1>7, <1>8, GrowthKeepsFit, SoundStep

LEMMA StoreCodeKeepsInv ==
  ASSUME AccountsInv, NEW p \in Procs, StoreCode(p)
  PROVE  AccountsInv'
<1>1. /\ Fits(work[p]) /\ work[p].handler \in Senders /\ codes \in Seq(Code)
      /\ now \in Nat /\ CodeTTL \in Nat
  BY SMTT(30), Working DEF StoreCode, At, PCs, Fits, HandlerAt, AccountsInv, Tables
<1> DEFINE code == [email |-> work[p].row.email,
                    purpose |-> Purpose(work[p].handler),
                    used |-> FALSE, expires |-> now + CodeTTL]
<1>2. code \in Code
  BY <1>1 DEF Fits, Code, Purpose, Purposes
<1>3. codes' = Append(codes, code)
  BY DEF StoreCode
<1> HIDE DEF code
<1>4. /\ codes' \in Seq(Code) /\ Len(codes) <= Len(codes')
      /\ \A i \in DOMAIN codes : codes'[i] = codes[i]
  BY <1>1, <1>2, <1>3
<1>5. Tables' /\ Grows
  BY <1>4, CodesStep DEF StoreCode
<1>6. work' = [work EXCEPT ![p] = NoJob] /\ Fits(NoJob)
  BY NoJobFits DEF StoreCode, Finish
<1>7. QED BY <1>5, <1>6, GrowthKeepsFit, SoundStep

LEMMA MarkUsedKeepsInv ==
  ASSUME AccountsInv, NEW p \in Procs, MarkUsed(p)
  PROVE  AccountsInv'
<1>1. /\ Fits(work[p]) /\ work[p].pc = "mark_used" /\ work[p].handler \in Takers
      /\ codes \in Seq(Code) /\ work[p] # NoJob
      /\ work[p] \in [handler : Senders \cup Takers \cup Editors, pc : PCs,
                      id : Nat, code : Nat, row : Row]
      /\ work[p].code \in DOMAIN codes
  BY Working DEF MarkUsed, At, PCs, Fits, HandlerAt, AccountsInv, Tables
<1>2. PICK n \in Nat, c \in Nat :
        /\ n = Len(codes) /\ DOMAIN codes = 1 .. n
        /\ c = work[p].code /\ c \in 1 .. n
  BY <1>1
<1>3. /\ \A i \in 1 .. n : codes[i] \in Code /\ [codes[i] EXCEPT !.used = TRUE] \in Code
      /\ codes = [i \in 1 .. n |-> codes[i]]
  <2>1. \A i \in 1 .. n : codes[i] \in Code
    BY <1>1, <1>2
  <2>2. \A code \in Code : [code EXCEPT !.used = TRUE] \in Code
    BY DEF Code
  <2>3. codes = [i \in 1 .. n |-> codes[i]]
    BY <1>1, <1>2
  <2>4. QED BY <2>1, <2>2, <2>3
<1>4. /\ codes' \in Seq(Code) /\ Len(codes) = Len(codes') /\ Len(codes) <= Len(codes')
      /\ \A i \in 1 .. n :
           codes'[i] = IF i = c THEN [codes[i] EXCEPT !.used = TRUE] ELSE codes[i]
  <2>1. codes' = [codes EXCEPT ![c].used = TRUE]
    BY <1>2 DEF MarkUsed
  <2>2. codes' = [i \in 1 .. n |-> IF i = c THEN [codes[i] EXCEPT !.used = TRUE]
                                            ELSE codes[i]]
    BY <1>2, <1>3, <2>1
  <2>3. codes' \in [1 .. n -> Code]
    BY <1>3, <2>2
  <2>4. codes' \in Seq(Code) /\ Len(codes') = n
    BY <2>3, FunctionIsSeq
  <2>5. QED BY <1>2, <2>2, <2>4
<1>5. \A i \in DOMAIN codes :
        /\ codes'[i].email = codes[i].email
        /\ codes'[i].purpose = codes[i].purpose
        /\ codes[i].used => codes'[i].used
        /\ i = c => codes'[i].used
  BY <1>2, <1>3, <1>4 DEF Code
<1>6. Tables' /\ Grows
  BY <1>1, <1>4, <1>5, CodesStep DEF MarkUsed
<1>7. PICK j : j = [work[p] EXCEPT !.pc = Accepted(p)]
  OBVIOUS
<1>8. /\ j.pc \in {"check_email", "find_email"} /\ j \in Job /\ HandlerAt(j)
      /\ j.row = work[p].row /\ j.code = work[p].code /\ j.handler = work[p].handler
      /\ j.id = work[p].id
  BY <1>1, <1>7 DEF Accepted, Job, PCs, HandlerAt, Takers
<1>9. Proof(j.code, j.row.email, Purpose(j.handler))'
  <2>1. /\ codes[c].email = work[p].row.email
        /\ codes[c].purpose = Purpose(work[p].handler)
    BY <1>1, <1>2 DEF Fits
  <2>2. c \in DOMAIN codes'
    BY <1>2, <1>4
  <2>3. QED BY <1>2, <1>5, <1>8, <2>1, <2>2 DEF Proof, Purpose
<1>10. Fits(j)'
  BY <1>1, <1>6, <1>8, <1>9
     DEF Fits, Grows, Senders, Takers, Editors, Purpose
<1>11. work' = [work EXCEPT ![p] = j]
  BY <1>7, GotoPuts DEF MarkUsed
<1>12. QED BY <1>6, <1>10, <1>11, SoundStep

\* One row of the users is written.
LEMMA RowStep ==
  ASSUME AccountsInv, UNCHANGED <<codes, now, requests, secrets, confirmed, proofs>>,
         NEW id \in DOMAIN users, NEW row \in Row, users' = [users EXCEPT ![id] = row],
         row.id = id, row.email = users[id].email,
         row.secret \in 0 .. secrets, row.mfa => row.secret \in confirmed
  PROVE  Tables' /\ Grows
<1>1. Tables /\ users \in Seq(Row)
  BY DEF AccountsInv, Tables
<1>2. PICK n \in Nat : n = Len(users) /\ DOMAIN users = 1 .. n
  BY <1>1
<1>3. users' = [i \in 1 .. n |-> IF i = id THEN row ELSE users[i]]
  BY <1>1, <1>2
<1>4. users' \in [1 .. n -> Row]
  BY <1>1, <1>2, <1>3
<1>5. users' \in Seq(Row) /\ Len(users') = n /\ DOMAIN users' = 1 .. n
  BY <1>4, FunctionIsSeq
<1>6. \A i \in 1 .. n : users'[i] = IF i = id THEN row ELSE users[i]
  BY <1>3
<1>7. \A i \in DOMAIN users : users'[i].email = users[i].email
  BY <1>2, <1>6
<1>8. Grows
  BY <1>1, <1>2, <1>5, <1>7 DEF Tables, Grows
<1>9. Tables'
  <2>1. ASSUME NEW i \in DOMAIN users'
        PROVE  /\ users'[i].id = i
               /\ users'[i].secret \in 0 .. secrets
               /\ users'[i].mfa => users'[i].secret \in confirmed
               /\ proofs[i] # 0 => Proof(proofs[i], users'[i].email, "registration")
    BY <1>1, <1>2, <1>5, <1>6, <1>7 DEF Tables
  <2>2. \A i, j \in DOMAIN users' : users'[i].email = users'[j].email => i = j
    BY <1>1, <1>2, <1>5, <1>7 DEF Tables
  <2>3. Len(proofs) = Len(users')
    BY <1>1, <1>2, <1>5 DEF Tables
  <2>4. QED BY <1>1, <1>5, <2>1, <2>2, <2>3 DEF Tables, Proof
<1>10. QED BY <1>8, <1>9

\* A row is added, with the code it was proved by or none.
LEMMA InsertStep ==
  ASSUME AccountsInv, UNCHANGED <<codes, now, requests, secrets, confirmed>>,
         NEW row \in Row, NEW code \in Nat,
         users' = Append(users, [row EXCEPT !.id = Len(users) + 1]),
         proofs' = Append(proofs, code),
         row.id = 0, \A i \in DOMAIN users : users[i].email # row.email, row.secret \in 0 .. secrets,
         row.mfa => row.secret \in confirmed,
         code # 0 => /\ code \in DOMAIN codes /\ codes[code].used
                     /\ codes[code].email = row.email
                     /\ codes[code].purpose = "registration"
  PROVE  Tables' /\ Grows
<1>1. Tables /\ users \in Seq(Row) /\ proofs \in Seq(Nat)
  BY DEF AccountsInv, Tables
<1>2. PICK n \in Nat : n = Len(users) /\ DOMAIN users = 1 .. n
  BY <1>1
<1>3. PICK new \in Row : new = [row EXCEPT !.id = n + 1]
  <2>1. PICK k \in Nat : k = n + 1
    OBVIOUS
  <2>2. [row EXCEPT !.id = k] \in Row
    BY DEF Row
  <2>3. QED BY <2>1, <2>2
<1>4. /\ new.id = n + 1 /\ new.email = row.email /\ new.name = row.name
      /\ new.secret = row.secret /\ new.mfa = row.mfa
  BY <1>3 DEF Row
<1>5. users' = Append(users, new) /\ proofs' = Append(proofs, code)
  BY <1>2, <1>3
<1>6. /\ users' \in Seq(Row) /\ Len(users') = n + 1 /\ DOMAIN users' = 1 .. n + 1
      /\ users'[n + 1] = new /\ \A i \in 1 .. n : users'[i] = users[i]
  BY <1>1, <1>2, <1>5
<1>7. /\ proofs' \in Seq(Nat) /\ Len(proofs') = n + 1
      /\ proofs'[n + 1] = code /\ \A i \in 1 .. n : proofs'[i] = proofs[i]
  <2>1. Len(proofs) = n
    BY <1>1, <1>2 DEF Tables
  <2>2. QED BY <1>1, <1>5, <2>1
<1>8. Grows
  BY <1>1, <1>2, <1>6 DEF Tables, Grows
<1>9. ASSUME NEW i \in 1 .. n + 1
      PROVE  /\ users'[i].id = i
             /\ users'[i].secret \in 0 .. secrets
             /\ users'[i].mfa => users'[i].secret \in confirmed
             /\ proofs'[i] # 0 => Proof(proofs'[i], users'[i].email, "registration")
  <2>1. CASE i = n + 1
    BY <1>4, <1>6, <1>7, <2>1 DEF Proof
  <2>2. CASE i \in 1 .. n
    <3>1. users'[i] = users[i] /\ proofs'[i] = proofs[i] /\ i \in DOMAIN users
      BY <1>2, <1>6, <1>7, <2>2
    <3>2. /\ users[i].id = i
          /\ users[i].secret \in 0 .. secrets
          /\ users[i].mfa => users[i].secret \in confirmed
          /\ proofs[i] # 0 => Proof(proofs[i], users[i].email, "registration")
      BY <1>1, <3>1 DEF Tables
    <3>3. QED BY <3>1, <3>2
  <2>3. i = n + 1 \/ i \in 1 .. n
    BY <1>2, <1>9, SMT
  <2>4. QED BY <2>1, <2>2, <2>3
<1>10. ASSUME NEW i \in 1 .. n + 1, NEW j \in 1 .. n + 1,
              users'[i].email = users'[j].email
       PROVE  i = j
  <2>1. \A k \in 1 .. n : users[k].email # row.email
    BY <1>2
  <2>2. CASE i \in 1 .. n /\ j \in 1 .. n
    BY <1>1, <1>2, <1>6, <1>10, <2>2 DEF Tables
  <2>3. CASE i = n + 1 \/ j = n + 1
    BY <1>4, <1>6, <1>10, <2>1, <2>3
  <2>4. QED BY <2>2, <2>3
<1>11. Tables'
  BY <1>1, <1>6, <1>7, <1>9, <1>10 DEF Tables, Proof
<1>12. QED BY <1>8, <1>11

\* A handler that has written its row is done.
LEMMA DoneStep ==
  ASSUME AccountsInv, Tables', Grows, NEW p \in Procs, Finish(p)
  PROVE  AccountsInv'
<1>1. work' = [work EXCEPT ![p] = NoJob] /\ Fits(NoJob)
  BY NoJobFits DEF Finish
<1>2. QED BY <1>1, GrowthKeepsFit, SoundStep

LEMMA CreateUserKeepsInv ==
  ASSUME AccountsInv, NEW p \in Procs, CreateUser(p)
  PROVE  AccountsInv'
<1>1. /\ Fits(work[p]) /\ work[p].pc = "create" /\ work[p].handler = "RegisterVerify"
      /\ work[p] \in [handler : Senders \cup Takers \cup Editors, pc : PCs,
                      id : Nat, code : Nat, row : Row]
  BY Working DEF CreateUser, At, PCs, Fits, HandlerAt
<1>2. PICK pass \in Passwords :
        Insert([work[p].row EXCEPT !.pass = pass, !.role = "user"], work[p].code)
  BY DEF CreateUser
<1>3. PICK row \in Row : row = [work[p].row EXCEPT !.pass = pass, !.role = "user"]
  BY <1>1 DEF Row, Roles
<1>4. /\ row.id = work[p].row.id /\ row.email = work[p].row.email
      /\ row.name = work[p].row.name /\ row.mfa = work[p].row.mfa
      /\ row.secret = work[p].row.secret
  BY <1>1, <1>3 DEF Row
<1>5. PICK code \in Nat : code = work[p].code
  BY <1>1
<1>6. /\ row.id = 0 /\ row.secret \in 0 .. secrets
      /\ row.mfa => row.secret \in confirmed
      /\ code \in DOMAIN codes /\ codes[code].used
      /\ codes[code].email = row.email
      /\ codes[code].purpose = "registration"
  BY <1>1, <1>4, <1>5 DEF Fits, Takers, Purpose, Proof
<1>7. \A i \in DOMAIN users : users[i].email # row.email
  <2>1. Unique(work[p].row) /\ DOMAIN users \subseteq Nat \ {0}
    BY DEF CreateUser, AccountsInv, Tables
  <2>2. QED BY <1>4, <1>6, <2>1 DEF Unique
<1>8. /\ users' = Append(users, [row EXCEPT !.id = Len(users) + 1])
      /\ proofs' = Append(proofs, code)
  BY <1>2, <1>3, <1>5 DEF Insert
<1>9. UNCHANGED <<codes, now, requests, secrets, confirmed>> /\ Finish(p)
  BY DEF CreateUser
<1>10. Tables' /\ Grows
  BY <1>6, <1>7, <1>8, <1>9, InsertStep
<1>11. QED BY <1>9, <1>10, DoneStep

LEMMA SaveKeepsInv ==
  ASSUME AccountsInv, NEW p \in Procs, Save(p)
  PROVE  AccountsInv'
<1>1. /\ Fits(work[p]) /\ Unique(work[p].row)
      /\ UNCHANGED <<codes, now, requests, secrets, confirmed>> /\ Finish(p)
      /\ work[p] \in [handler : Senders \cup Takers \cup Editors, pc : PCs,
                      id : Nat, code : Nat, row : Row]
  BY Working DEF Save, At, PCs
<1>2. PICK row \in Row : row = work[p].row
  BY <1>1
<1>3. /\ row.secret \in 0 .. secrets
      /\ row.mfa => row.secret \in confirmed
      /\ row.id # 0 => row.id \in DOMAIN users /\ row.email = users[row.id].email
      /\ Unique(row)
  BY <1>1, <1>2 DEF Fits
<1>4. CASE row.id = 0
  <2>1. /\ users' = Append(users, [row EXCEPT !.id = Len(users) + 1])
        /\ proofs' = Append(proofs, 0)
    BY <1>2, <1>4 DEF Save, Insert
  <2>2. \A i \in DOMAIN users : users[i].email # row.email
    <3>1. DOMAIN users \subseteq Nat \ {0}
      BY DEF AccountsInv, Tables
    <3>2. QED BY <1>3, <1>4, <3>1 DEF Unique
  <2>3. UNCHANGED <<codes, now, requests, secrets, confirmed>> /\ 0 \in Nat
    BY <1>1
  <2>4. Tables' /\ Grows
    BY <1>3, <1>4, <2>1, <2>2, <2>3, InsertStep
  <2>5. QED BY <1>1, <2>4, DoneStep
<1>5. CASE row.id # 0
  <2>1. users' = [users EXCEPT ![row.id] = row] /\ UNCHANGED proofs
    BY <1>2, <1>5 DEF Save
  <2>2. Tables' /\ Grows
    BY <1>1, <1>3, <1>5, <2>1, RowStep
  <2>3. QED BY <1>1, <2>2, DoneStep
<1>6. QED BY <1>4, <1>5

LEMMA ColumnWritesKeepInv ==
  ASSUME AccountsInv, NEW p \in Procs,
         WritePassword(p) \/ UpdateMFA(p) \/ UpdatePremium(p)
  PROVE  AccountsInv'
<1>1. /\ Fits(work[p]) /\ Tables /\ users \in Seq(Row)
      /\ UNCHANGED <<codes, now, requests, secrets, confirmed, proofs>> /\ Finish(p)
      /\ work[p] \in [handler : Senders \cup Takers \cup Editors, pc : PCs,
                      id : Nat, code : Nat, row : Row]
  BY Working DEF WritePassword, UpdateMFA, UpdatePremium, At, PCs, AccountsInv, Tables
<1>2. Target(p) \in DOMAIN users
  BY <1>1 DEF WritePassword, UpdateMFA, UpdatePremium, At, Target, Fits, HandlerAt
<1>3. PICK id \in DOMAIN users : id = Target(p)
  BY <1>2
<1>4. /\ users[id] \in Row /\ users[id].id = id /\ users[id].secret \in 0 .. secrets
      /\ users[id].mfa => users[id].secret \in confirmed
  BY <1>1 DEF Tables
<1>5. ASSUME NEW row \in Row, users' = [users EXCEPT ![id] = row],
             row.id = id, row.email = users[id].email,
             row.secret \in 0 .. secrets, row.mfa => row.secret \in confirmed
      PROVE  AccountsInv'
  <2>1. Tables' /\ Grows
    BY <1>1, <1>5, RowStep
  <2>2. QED BY <1>1, <2>1, DoneStep
<1>6. CASE WritePassword(p)
  <2>1. PICK pass \in Passwords : users' = [users EXCEPT ![id].pass = pass]
    BY <1>3, <1>6 DEF WritePassword
  <2>2. PICK row \in Row : row = [users[id] EXCEPT !.pass = pass]
    BY <1>4 DEF Row
  <2>3. /\ row.id = id /\ row.email = users[id].email
        /\ row.secret = users[id].secret /\ row.mfa = users[id].mfa
    BY <1>4, <2>2 DEF Row
  <2>4. users' = [users EXCEPT ![id] = row]
    BY <2>1, <2>2
  <2>5. QED BY <1>4, <1>5, <2>3, <2>4
<1>7. CASE UpdateMFA(p)
  <2>1. users' = [users EXCEPT ![id] = [users[id] EXCEPT !.mfa = work[p].row.mfa,
                                                       !.secret = work[p].row.secret]]
    BY <1>1, <1>3, <1>7 DEF UpdateMFA
  <2>2. PICK row \in Row : row = [users[id] EXCEPT !.mfa = work[p].row.mfa,
                                                  !.secret = work[p].row.secret]
    BY <1>1, <1>4 DEF Row
  <2>3. /\ row.id = id /\ row.email = users[id].email
        /\ row.secret = work[p].row.secret /\ row.mfa = work[p].row.mfa
    BY <1>4, <2>2 DEF Row
  <2>4. /\ work[p].row.secret \in 0 .. secrets
        /\ work[p].row.mfa => work[p].row.secret \in confirmed
    BY <1>1 DEF Fits
  <2>5. QED BY <1>5, <2>1, <2>2, <2>3, <2>4
<1>8. CASE UpdatePremium(p)
  <2>1. users' = [users EXCEPT ![id] = [users[id] EXCEPT !.premium = work[p].row.premium,
                                                       !.expires = work[p].row.expires]]
    BY <1>1, <1>3, <1>8 DEF UpdatePremium
  <2>2. PICK row \in Row : row = [users[id] EXCEPT !.premium = work[p].row.premium,
                                                  !.expires = work[p].row.expires]
    BY <1>1, <1>4 DEF Row
  <2>3. /\ row.id = id /\ row.email = users[id].email
        /\ row.secret = users[id].secret /\ row.mfa = users[id].mfa
    BY <1>4, <2>2 DEF Row
  <2>4. QED BY <1>4, <1>5, <2>1, <2>2, <2>3
<1>9. QED BY <1>6, <1>7, <1>8

LEMMA TickKeepsInv ==
  ASSUME AccountsInv, Tick
  PROVE  AccountsInv'
<1>1. now' \in 0 .. MaxTime
  BY DEF Tick, AccountsInv, Tables
<1>2. QED BY <1>1 DEF Tick, AccountsInv, Tables, Fits, Proof

LEMMA InitInv == Init => AccountsInv
<1> SUFFICES ASSUME Init PROVE AccountsInv
  OBVIOUS
<1>1. PICK email \in Emails, name \in Names, pass \in Passwords :
        users = <<[ZeroRow EXCEPT !.id = 1, !.email = email, !.name = name,
                                  !.pass = pass, !.role = "admin"]>>
  BY DEF Init
<1>2. PICK row \in Row : row = [ZeroRow EXCEPT !.id = 1, !.email = email, !.name = name,
                                              !.pass = pass, !.role = "admin"]
  BY ZeroRowIsRow DEF Row, Roles
<1>3. row.id = 1 /\ row.secret = 0 /\ row.mfa = FALSE
  BY <1>2 DEF ZeroRow, NoSecret
<1>4. users = <<row>> /\ proofs = <<0>> /\ codes = <<>> /\ secrets = 0
  BY <1>1, <1>2 DEF Init
<1>5. Tables
  BY <1>3, <1>4 DEF Init, Tables
<1>6. work \in [Procs -> Job] /\ \A p \in Procs : work[p] = NoJob
  BY ZeroRowIsRow DEF Init
<1>7. Fits(NoJob)
  BY <1>4, ZeroRowIsRow
     DEF Fits, NoJob, ZeroRow, NoSecret, HandlerAt, Senders, Takers, Editors
<1>8. QED BY <1>5, <1>6, <1>7 DEF AccountsInv

LEMMA NextInv == AccountsInv /\ [Next]_vars => AccountsInv'
<1> SUFFICES ASSUME AccountsInv, [Next]_vars PROVE AccountsInv'
  OBVIOUS
<1>1. CASE Next
  BY <1>1, TickKeepsInv, RequestKeepsInv, FailKeepsInv, ChecksKeepInv,
     FindEmailKeepsInv, InvalidateKeepsInv, StoreCodeKeepsInv, FindCodeKeepsInv,
     MarkUsedKeepsInv, CreateUserKeepsInv, ProfileAndRoleKeepInv,
     PasswordReadsKeepInv, MFAAndPremiumReadsKeepInv, SaveKeepsInv,
     ColumnWritesKeepInv
     DEF Next
<1>2. CASE UNCHANGED vars
  BY <1>2 DEF vars, AccountsInv, Tables, Fits, Proof
<1>3. QED BY <1>1, <1>2

LEMMA Inductive == Spec => []AccountsInv
BY InitInv, NextInv, PTL DEF Spec

-----------------------------------------------------------------------------
\* Every reachable state is well-typed; in particular the rows stay at their
\* keys, and Enable confirms only secrets that Setup has generated.
THEOREM TypeCorrect == Spec => []TypeOK
<1>1. AccountsInv => TypeOK
  BY DEF AccountsInv, Tables, Fits, TypeOK
<1>2. QED BY <1>1, Inductive, PTL

\* Accounts are created, and passwords reset, with used codes for their own
\* addresses, for any number of concurrent requests and failing queries.
THEOREM CodesProveEmails == Spec => []CodeProvesEmail
<1>1. AccountsInv => CodeProvesEmail
  BY DEF AccountsInv, Tables, Fits, CodeProvesEmail
<1>2. QED BY <1>1, Inductive, PTL

\* A registration code makes at most one account.
THEOREM AccountsHaveTheirOwnCode == Spec => []OneAccountPerCode
<1>1. AccountsInv => OneAccountPerCode
  BY DEF AccountsInv, Tables, OneAccountPerCode, Proof
<1>2. QED BY <1>1, Inductive, PTL

\* MFA is on only with a secret the user has confirmed.
THEOREM MfaIsConfirmed == Spec => []MfaConfirmed
<1>1. AccountsInv => MfaConfirmed
  BY DEF AccountsInv, Tables, MfaConfirmed
<1>2. QED BY <1>1, Inductive, PTL

-----------------------------------------------------------------------------
(* The number of unused codes.  A goroutine that has invalidated the codes *)
(* of its key, and not yet stored its own, will add one: the unused codes  *)
(* and those goroutines together are never more than the goroutines.       *)

Pending(email, purpose) ==
  {p \in Procs : /\ work[p].pc = "store_code"
                 /\ work[p].row.email = email
                 /\ Purpose(work[p].handler) = purpose}

Bounded(email, purpose) ==
  Cardinality(Unused(email, purpose)) + Cardinality(Pending(email, purpose))
    <= Cardinality(Procs)

CodesInv == \A email \in Emails, purpose \in Purposes : Bounded(email, purpose)

LEMMA BothAreFinite ==
  ASSUME AccountsInv, NEW email, NEW purpose
  PROVE  /\ IsFiniteSet(Unused(email, purpose))
         /\ IsFiniteSet(Pending(email, purpose))
         /\ Cardinality(Unused(email, purpose)) \in Nat
         /\ Cardinality(Pending(email, purpose)) \in Nat
         /\ Cardinality(Pending(email, purpose)) <= Cardinality(Procs)
         /\ Cardinality(Procs) \in Nat
<1>1. PICK n \in Nat : DOMAIN codes = 1 .. n
  BY DEF AccountsInv, Tables
<1>2. Unused(email, purpose) \subseteq 1 .. n /\ IsFiniteSet(1 .. n)
  BY <1>1, FS_Interval DEF Unused
<1>3. Pending(email, purpose) \subseteq Procs
  BY DEF Pending
<1>4. QED BY <1>2, <1>3, FS_Subset, FS_CardinalityType

\* A set that loses elements loses in number.
LEMMA FewerIsBounded ==
  ASSUME AccountsInv, AccountsInv', NEW email, NEW purpose, Bounded(email, purpose),
         Unused(email, purpose)' \subseteq Unused(email, purpose),
         Pending(email, purpose)' \subseteq Pending(email, purpose)
  PROVE  Bounded(email, purpose)'
<1>1. /\ Cardinality(Unused(email, purpose)') <= Cardinality(Unused(email, purpose))
      /\ Cardinality(Pending(email, purpose)') <= Cardinality(Pending(email, purpose))
  BY BothAreFinite, FS_Subset
<1>2. /\ Cardinality(Unused(email, purpose)') \in Nat
      /\ Cardinality(Pending(email, purpose)') \in Nat
  <2>1. IsFiniteSet(Unused(email, purpose)') /\ IsFiniteSet(Pending(email, purpose)')
    BY BothAreFinite, FS_Subset
  <2>2. QED BY <2>1, FS_CardinalityType
<1>3. QED BY <1>1, <1>2, BothAreFinite DEF Bounded

\* A step that leads nobody to StoreCode and at most marks codes as used.
Calm ==
  /\ \A p \in Procs : work'[p].pc = "store_code" => work'[p] = work[p]
  /\ DOMAIN codes' = DOMAIN codes
  /\ \A i \in DOMAIN codes :
       /\ codes'[i].email = codes[i].email
       /\ codes'[i].purpose = codes[i].purpose
       /\ codes[i].used => codes'[i].used

LEMMA CalmIsBounded ==
  ASSUME AccountsInv, AccountsInv', CodesInv, Calm
  PROVE  CodesInv'
<1>1. SUFFICES ASSUME NEW email \in Emails, NEW purpose \in Purposes
               PROVE  Bounded(email, purpose)'
  BY DEF CodesInv
<1>2. Bounded(email, purpose)
  BY DEF CodesInv
<1>3. Unused(email, purpose)' \subseteq Unused(email, purpose)
  BY DEF Calm, Unused, AccountsInv, Tables, Code
<1>4. Pending(email, purpose)' \subseteq Pending(email, purpose)
  BY DEF Calm, Pending, Purpose
<1>5. QED BY <1>2, <1>3, <1>4, FewerIsBounded

LEMMA InvalidateIsBounded ==
  ASSUME AccountsInv, AccountsInv', CodesInv, NEW p \in Procs, InvalidatePrevious(p)
  PROVE  CodesInv'
<1> DEFINE row == work[p].row
           own == Purpose(work[p].handler)
<1>1. SUFFICES ASSUME NEW email \in Emails, NEW purpose \in Purposes
               PROVE  Bounded(email, purpose)'
  BY DEF CodesInv
<1>2. Bounded(email, purpose)
  BY DEF CodesInv
<1>3. /\ work' = [work EXCEPT ![p].pc = "store_code"]
      /\ work \in [Procs -> Job]
  BY DEF InvalidatePrevious, Goto, AccountsInv
<1>4. codes' = [i \in DOMAIN codes |->
                  IF codes[i].email = row.email /\ codes[i].purpose = own
                    THEN [codes[i] EXCEPT !.used = TRUE]
                    ELSE codes[i]]
  BY DEF InvalidatePrevious
<1>5. \A i \in DOMAIN codes : codes[i] \in Code
  BY DEF AccountsInv, Tables
<1> HIDE DEF row, own
<1>6. CASE row.email = email /\ own = purpose
  <2>1. Unused(email, purpose)' = {}
    BY <1>4, <1>5, <1>6 DEF Unused, Code
  <2>2. Cardinality(Unused(email, purpose)') = 0
    BY <2>1, FS_EmptySet
  <2>3. /\ Cardinality(Pending(email, purpose)') \in Nat
        /\ Cardinality(Pending(email, purpose)') <= Cardinality(Procs)
        /\ Cardinality(Procs) \in Nat
    <3>1. Pending(email, purpose)' \subseteq Procs
      BY DEF Pending
    <3>2. QED BY <3>1, FS_Subset, FS_CardinalityType
  <2>4. QED BY <2>2, <2>3 DEF Bounded
<1>7. CASE ~(row.email = email /\ own = purpose)
  <2>1. Unused(email, purpose)' \subseteq Unused(email, purpose)
    BY <1>4, <1>5, <1>7 DEF Unused, Code
  <2>2. work'[p].row = row /\ Purpose(work'[p].handler) = own
    BY <1>3 DEF row, own, Purpose, Job, NoJob
  <2>3. Pending(email, purpose)' \subseteq Pending(email, purpose)
    <3>1. \A q \in Procs : q # p => work'[q] = work[q]
      BY <1>3
    <3>2. p \notin Pending(email, purpose)'
      BY <2>2, <1>7 DEF Pending, Purpose
    <3>3. QED BY <3>1, <3>2 DEF Pending, Purpose
  <2>4. QED BY <1>2, <2>1, <2>3, FewerIsBounded
<1>8. QED BY <1>6, <1>7

LEMMA StoreIsBounded ==
  ASSUME AccountsInv, AccountsInv', CodesInv, NEW p \in Procs, StoreCode(p)
  PROVE  CodesInv'
<1> DEFINE row == work[p].row
           own == Purpose(work[p].handler)
<1>1. SUFFICES ASSUME NEW email \in Emails, NEW purpose \in Purposes
               PROVE  Bounded(email, purpose)'
  BY DEF CodesInv
<1>2. Bounded(email, purpose)
  BY DEF CodesInv
<1>3. PICK n \in Nat : n = Len(codes) /\ DOMAIN codes = 1 .. n
  BY DEF AccountsInv, Tables
<1>4. PICK code : /\ codes' = Append(codes, code)
                  /\ code.email = row.email /\ code.purpose = own
  BY DEF StoreCode
<1>5. /\ DOMAIN codes' = 1 .. (n + 1)
      /\ codes'[n + 1] = code
      /\ \A i \in 1 .. n : codes'[i] = codes[i]
  BY <1>3, <1>4 DEF AccountsInv, Tables
<1>6. /\ work' = [work EXCEPT ![p] = NoJob]
      /\ work \in [Procs -> Job]
      /\ work[p].pc = "store_code"
  BY DEF StoreCode, Finish, AccountsInv, At
<1>7. Pending(email, purpose)' = Pending(email, purpose) \ {p}
  <2>1. work'[p].pc = "idle" /\ \A q \in Procs : q # p => work'[q] = work[q]
    BY <1>6 DEF NoJob
  <2>2. QED BY <2>1 DEF Pending, Purpose
<1>8. Unused(email, purpose)' \subseteq Unused(email, purpose) \cup {n + 1}
  BY <1>3, <1>5 DEF Unused
<1>9. CASE row.email = email /\ own = purpose
  <2>1. p \in Pending(email, purpose)
    BY <1>6, <1>9 DEF Pending, row, own
  <2>2. /\ IsFiniteSet(Unused(email, purpose)) /\ IsFiniteSet(Pending(email, purpose))
        /\ Cardinality(Unused(email, purpose)) \in Nat
        /\ Cardinality(Pending(email, purpose)) \in Nat
        /\ Cardinality(Procs) \in Nat
    BY BothAreFinite
  <2>3. n + 1 \notin Unused(email, purpose)
    BY <1>3 DEF Unused
  <2>4. /\ IsFiniteSet(Unused(email, purpose) \cup {n + 1})
        /\ Cardinality(Unused(email, purpose) \cup {n + 1})
             = Cardinality(Unused(email, purpose)) + 1
    BY <2>2, <2>3, FS_AddElement
  <2>5. Cardinality(Pending(email, purpose)')
          = Cardinality(Pending(email, purpose)) - 1
    <3>1. PICK pending : pending = Pending(email, purpose)
      OBVIOUS
    <3>2. Cardinality(pending \ {p}) = Cardinality(pending) - 1
      BY <2>1, <2>2, <3>1, FS_RemoveElement
    <3>3. QED BY <1>7, <3>1, <3>2
  <2>6. /\ IsFiniteSet(Unused(email, purpose)')
        /\ Cardinality(Unused(email, purpose)')
             <= Cardinality(Unused(email, purpose) \cup {n + 1})
    BY <1>8, <2>4, FS_Subset
  <2>7. Cardinality(Unused(email, purpose)') \in Nat
    BY <2>6, FS_CardinalityType
  <2>8. QED BY <1>2, <2>2, <2>4, <2>5, <2>6, <2>7 DEF Bounded
<1>10. CASE ~(row.email = email /\ own = purpose)
  <2>1. n + 1 \notin Unused(email, purpose)'
    BY <1>4, <1>5, <1>10 DEF Unused
  <2>2. Unused(email, purpose)' \subseteq Unused(email, purpose)
    BY <1>8, <2>1
  <2>3. Pending(email, purpose)' \subseteq Pending(email, purpose)
    BY <1>7
  <2>4. QED BY <1>2, <2>2, <2>3, FewerIsBounded
<1>11. QED BY <1>9, <1>10

LEMMA NextCodesInv == AccountsInv /\ CodesInv /\ [Next]_vars => CodesInv'
<1> SUFFICES ASSUME AccountsInv, CodesInv, [Next]_vars PROVE CodesInv'
  OBVIOUS
<1>1. AccountsInv'
  BY NextInv
<1>2. CASE UNCHANGED vars
  <2>1. Calm
    BY <1>2 DEF Calm, vars
  <2>2. QED BY <2>1, <1>1, CalmIsBounded
<1>3. CASE Tick
  <2>1. Calm
    BY <1>3 DEF Calm, Tick
  <2>2. QED BY <2>1, <1>1, CalmIsBounded
<1>4. ASSUME NEW p \in Procs, InvalidatePrevious(p) \/ StoreCode(p)
      PROVE  CodesInv'
  BY <1>1, <1>4, InvalidateIsBounded, StoreIsBounded
<1>5. ASSUME NEW p \in Procs, Request(p)
      PROVE  Calm
  <2>1. UNCHANGED codes
    BY <1>5 DEF Request
  <2>2. PICK handler, step, id, row :
          step # "store_code" /\ Begin(p, handler, step, id, row)
    BY <1>5 DEF Request
  <2>3. /\ work'[p].pc # "store_code"
        /\ \A q \in Procs : q # p => work'[q] = work[q]
    BY <2>2 DEF Begin, AccountsInv
  <2>4. QED BY <2>1, <2>3 DEF Calm
<1>6. ASSUME NEW p \in Procs,
             \/ Fail(p) \/ CreateUser(p) \/ Save(p)
             \/ WritePassword(p) \/ UpdateMFA(p) \/ UpdatePremium(p)
      PROVE  Calm
  <2>1. UNCHANGED codes /\ work' = [work EXCEPT ![p] = NoJob]
    BY <1>6 DEF Fail, CreateUser, Save, WritePassword, UpdateMFA, UpdatePremium, Finish
  <2>2. NoJob.pc # "store_code"
    BY DEF NoJob
  <2>3. /\ work'[p] = NoJob
        /\ \A q \in Procs : q # p => work'[q] = work[q]
    BY <2>1 DEF AccountsInv
  <2>4. QED BY <2>1, <2>2, <2>3 DEF Calm
<1>7. ASSUME NEW p \in Procs, CheckEmail(p) \/ CheckName(p) \/ FindEmail(p) \/ FindCode(p)
      PROVE  Calm
  <2>1. UNCHANGED codes
    BY <1>7 DEF CheckEmail, CheckName, FindEmail, FindCode
  <2>2. /\ work'[p].pc # "store_code"
        /\ \A q \in Procs : q # p => work'[q] = work[q]
    <3>1. CASE CheckEmail(p)
      BY <3>1 DEF CheckEmail, Goto, AccountsInv
    <3>2. CASE CheckName(p)
      <4>1. work[p].pc = "check_name" /\ Fits(work[p])
        BY <3>2 DEF CheckName, At, AccountsInv
      <4>2. work[p].handler \in {"RegisterRequest", "RegisterVerify", "UpdateProfile"}
        BY <4>1 DEF Fits, HandlerAt
      <4>3. QED BY <3>2, <4>2 DEF CheckName, Goto, AccountsInv
    <3>3. CASE FindEmail(p)
      <4>1. PICK user \in FindByEmail(work[p].row.email) :
              \/ Goto(p, "invalidate")
              \/ work' = [work EXCEPT ![p].pc = "write_password", ![p].id = user.id]
        BY <3>3 DEF FindEmail
      <4>2. CASE Goto(p, "invalidate")
        BY <4>2 DEF Goto, AccountsInv
      <4>3. CASE work' = [work EXCEPT ![p].pc = "write_password", ![p].id = user.id]
        <5>1. /\ work \in [Procs -> Job]
              /\ work[p] \in [handler : Senders \cup Takers \cup Editors, pc : PCs,
                              id : Nat, code : Nat, row : Row]
          BY <3>3, Working DEF FindEmail, At, PCs, AccountsInv
        <5>2. QED BY <4>3, <5>1
      <4>4. QED BY <4>1, <4>2, <4>3
    <3>4. CASE FindCode(p)
      BY <3>4 DEF FindCode, AccountsInv
    <3>5. QED BY <1>7, <3>1, <3>2, <3>3, <3>4
  <2>3. QED BY <2>1, <2>2 DEF Calm
<1>8. ASSUME NEW p \in Procs,
             \/ UpdateProfile(p) \/ SetRole(p)
             \/ ChangePassword(p) \/ SetUserPassword(p)
             \/ Setup(p) \/ Enable(p) \/ Disable(p)
             \/ Status(p) \/ AdminSet(p)
      PROVE  Calm
  <2>1. UNCHANGED codes
    BY <1>8 DEF UpdateProfile, SetRole, ChangePassword, SetUserPassword, Setup,
                Enable, Disable, Status, AdminSet
  <2>2. \/ \E step \in PCs \ {"store_code"} : Goto(p, step)
        \/ \E row : \E step \in PCs \ {"store_code"} : GotoWith(p, step, row)
    BY <1>8 DEF UpdateProfile, SetRole, ChangePassword, SetUserPassword, Setup,
                Enable, Disable, Status, AdminSet, PCs
  <2>3. /\ work'[p].pc # "store_code"
        /\ \A q \in Procs : q # p => work'[q] = work[q]
    <3>1. /\ work \in [Procs -> Job]
          /\ work[p] \in [handler : Senders \cup Takers \cup Editors, pc : PCs,
                          id : Nat, code : Nat, row : Row]
      BY <1>8, Working
         DEF UpdateProfile, SetRole, ChangePassword, SetUserPassword, Setup, Enable,
             Disable, Status, AdminSet, Editing, At, PCs, AccountsInv
    <3>2. CASE \E step \in PCs \ {"store_code"} : Goto(p, step)
      BY <3>1, <3>2 DEF Goto
    <3>3. CASE \E row : \E step \in PCs \ {"store_code"} : GotoWith(p, step, row)
      <4>1. PICK row : \E step \in PCs \ {"store_code"} : GotoWith(p, step, row)
        BY <3>3
      <4>2. QED BY <3>1, <4>1 DEF GotoWith
    <3>4. QED BY <2>2, <3>2, <3>3
  <2>4. QED BY <2>1, <2>3 DEF Calm
<1>9. ASSUME NEW p \in Procs, MarkUsed(p)
      PROVE  Calm
  <2>1. /\ codes' = [codes EXCEPT ![work[p].code].used = TRUE]
        /\ work'[p].pc # "store_code"
        /\ \A q \in Procs : q # p => work'[q] = work[q]
    BY <1>9 DEF MarkUsed, Goto, Accepted, AccountsInv
  <2>2. codes \in Seq(Code)
    BY DEF AccountsInv, Tables
  <2>3. PICK i : i = work[p].code
    OBVIOUS
  <2>4. /\ DOMAIN codes' = DOMAIN codes
        /\ \A k \in DOMAIN codes :
             codes'[k] = IF k = i THEN [codes[k] EXCEPT !.used = TRUE] ELSE codes[k]
    BY <2>1, <2>2, <2>3
  <2>5. \A k \in DOMAIN codes :
          /\ codes'[k].email = codes[k].email
          /\ codes'[k].purpose = codes[k].purpose
          /\ codes[k].used => codes'[k].used
    <3>1. \A code \in Code :
            LET marked == [code EXCEPT !.used = TRUE]
            IN  /\ marked.email = code.email /\ marked.purpose = code.purpose
                /\ marked.used
      BY DEF Code
    <3>2. \A k \in DOMAIN codes : codes[k] \in Code
      BY <2>2
    <3>3. QED BY <2>4, <3>1, <3>2
  <2>6. QED BY <2>1, <2>4, <2>5 DEF Calm
<1>10. QED
  BY <1>1, <1>2, <1>3, <1>4, <1>5, <1>6, <1>7, <1>8, <1>9, CalmIsBounded DEF Next

\* However many requests for a code overlap, the unused ones for an address
\* and purpose are never more than the goroutines that could have stored them.
THEOREM CodesAreBounded == Spec => []UnusedCodesBounded
<1>1. Init => CodesInv
  <2>1. SUFFICES ASSUME Init, NEW email \in Emails, NEW purpose \in Purposes
                 PROVE  Bounded(email, purpose)
    BY DEF CodesInv
  <2>2. Unused(email, purpose) = {} /\ Pending(email, purpose) = {}
    BY <2>1 DEF Init, Unused, Pending, NoJob
  <2>3. Cardinality({}) = 0 /\ Cardinality(Procs) \in Nat
    BY FS_EmptySet, FS_CardinalityType
  <2>4. QED BY <2>2, <2>3 DEF Bounded
<1>2. AccountsInv /\ CodesInv => UnusedCodesBounded
  <2>1. SUFFICES ASSUME AccountsInv, CodesInv, NEW email \in Emails, NEW purpose \in Purposes
                 PROVE  Cardinality(Unused(email, purpose)) <= Cardinality(Procs)
    BY DEF UnusedCodesBounded
  <2>2. Bounded(email, purpose)
    BY <2>1 DEF CodesInv
  <2>3. QED BY <2>1, <2>2, BothAreFinite DEF Bounded
<1>3. QED BY <1>1, <1>2, InitInv, NextInv, NextCodesInv, PTL DEF Spec

=============================================================================
