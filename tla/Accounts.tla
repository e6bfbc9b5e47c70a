------------------------------ MODULE Accounts ------------------------------
(***************************************************************************)
(* The users table and the one-time codes, under the handlers that write   *)
(* them: registration and password reset by mailed code, profile, password,*)
(* MFA, premium and role changes.                                          *)
(*                                                                         *)
(* Every request is a goroutine of its own and one action is one query of  *)
(* one of them: nothing is locked from one query to the next, and no two   *)
(* queries share a transaction.  A handler that answers an error stops     *)
(* where it is (Fail), whether a query failed, a password could not be     *)
(* hashed, or the code or password typed by the user was wrong.            *)
(*                                                                         *)
(* userRepo's finders return the zero row together with the error, and     *)
(* most handlers drop the error: ReadFails lets a finder do that.          *)
(***************************************************************************)
EXTENDS Naturals, Sequences, FiniteSets

CONSTANTS
  Procs,        \* goroutines serving requests
  Emails, Names, Passwords,
  Blank,        \* the empty string
  CodeTTL,      \* otpExpiryMinutes, in clock ticks
  ReadFails,    \* TRUE when the queries of userRepo may fail
  MaxRequests,  \* bound: how many requests are served
  MaxTime       \* bound: the clock stops here

ASSUME ConstantsAssumption ==
  /\ Blank \notin Emails \cup Names \cup Passwords
  /\ CodeTTL \in Nat
  /\ ReadFails \in BOOLEAN
  /\ MaxRequests \in Nat
  /\ MaxTime \in Nat
  /\ IsFiniteSet(Procs)

VARIABLES
  users,      \* the table, in order of the primary key
  codes,      \* the one-time codes, in order of creation
  work,       \* work[p]: what goroutine p has left to do
  now,        \* the clock
  requests,   \* how many requests have come in
  secrets,    \* how many TOTP secrets have been generated
  confirmed,  \* history: the secrets Enable has seen a right code for
  proofs      \* history: the code each account was created with, 0 for none

vars == <<users, codes, work, now, requests, secrets, confirmed, proofs>>

Never == MaxTime + 1          \* a premium without an expiry date
NoSecret == 0
Roles == {"user", "admin"}
Purposes == {"registration", "forgot_password"}

Row == [id : Nat, name : Names \cup {Blank}, email : Emails \cup {Blank},
        pass : Passwords \cup {Blank}, role : Roles, mfa : BOOLEAN,
        secret : Nat, premium : BOOLEAN, expires : 0 .. Never]

ZeroRow == [id |-> 0, name |-> Blank, email |-> Blank, pass |-> Blank,
            role |-> "user", mfa |-> FALSE, secret |-> NoSecret,
            premium |-> FALSE, expires |-> Never]

Code == [email : Emails, purpose : Purposes, used : BOOLEAN, expires : Nat]

\* The handlers that send a code, those that take one, and those that work on
\* the row of a user named by its primary key.
Senders == {"RegisterRequest", "ForgotPasswordRequest"}
Takers == {"RegisterVerify", "ForgotPasswordVerify"}
Editors == {"UpdateProfile", "SetRole", "ChangePassword", "SetUserPassword",
            "Setup", "Enable", "Disable", "Status", "AdminSet"}
AdminHandlers == {"SetRole", "SetUserPassword", "AdminSet"}

Purpose(handler) ==
  IF handler \in {"RegisterRequest", "RegisterVerify"} THEN "registration"
                                                       ELSE "forgot_password"

PCs == {"check_email", "check_name", "find_email", "invalidate", "store_code",
        "find_code", "mark_used", "create", "read", "save",
        "write_password", "write_mfa", "write_premium"}

\* A goroutine's handler and next query, the id it was called with, the code
\* it has found and its copy of a row.
NoJob == [handler |-> "none", pc |-> "idle", id |-> 0, code |-> 0, row |-> ZeroRow]

Job == [handler : Senders \cup Takers \cup Editors, pc : PCs,
        id : Nat, code : Nat, row : Row] \cup {NoJob}

TypeOK ==
  /\ users \in Seq(Row)
  /\ codes \in Seq(Code)
  /\ work \in [Procs -> Job]
  /\ \A p \in Procs : work[p].code \in 0 .. Len(codes)
  /\ now \in 0 .. MaxTime
  /\ requests \in 0 .. MaxRequests
  /\ secrets \in Nat
  /\ confirmed \subseteq 1 .. secrets
  /\ proofs \in Seq(Nat)
  /\ Len(proofs) = Len(users)
  /\ \A i \in DOMAIN users : users[i].id = i

-----------------------------------------------------------------------------
(* The repository.                                                         *)

EmailTaken(email) == \E i \in DOMAIN users : users[i].email = email
NameTaken(name, id) == \E i \in DOMAIN users : i # id /\ users[i].name = name

\* What FindByID may hand to a handler that drops the error.
FindByID(id) ==
  {users[i] : i \in DOMAIN users \cap {id}}
    \cup IF ReadFails THEN {ZeroRow} ELSE {}

FindByEmail(email) ==
  {users[i] : i \in {j \in DOMAIN users : users[j].email = email}}
    \cup IF ReadFails THEN {ZeroRow} ELSE {}

LiveCodes(email, purpose) ==
  {i \in DOMAIN codes : /\ codes[i].email = email
                        /\ codes[i].purpose = purpose
                        /\ ~codes[i].used
                        /\ codes[i].expires > now}

FindValid(email, purpose) ==
  {i \in LiveCodes(email, purpose) : \A j \in LiveCodes(email, purpose) : j <= i}

\* Variant: the table has no unique indexes.
UniqueUnchecked(row) == TRUE

\* The unique indexes of the table, seen by a row with this primary key.
Unique(row) ==
  \A i \in DOMAIN users :
    i # row.id => users[i].name # row.name /\ users[i].email # row.email

Insert(row, code) ==
  /\ users' = Append(users, [row EXCEPT !.id = Len(users) + 1])
  /\ proofs' = Append(proofs, code)

-----------------------------------------------------------------------------
(* Control flow of a handler.                                              *)

At(p, step) == work[p].pc = step

Goto(p, step) == work' = [work EXCEPT ![p].pc = step]

GotoWith(p, step, row) == work' = [work EXCEPT ![p].pc = step, ![p].row = row]

Finish(p) == work' = [work EXCEPT ![p] = NoJob]

Fail(p) ==
  /\ work[p] # NoJob
  /\ Finish(p)
  /\ UNCHANGED <<users, codes, now, requests, secrets, confirmed, proofs>>

-----------------------------------------------------------------------------
(* Requests.  What the user types is chosen where it is first looked at.   *)
(* Only who can log in, which takes an address, reaches one's own row.     *)

Begin(p, handler, step, id, row) ==
  work' = [work EXCEPT ![p] =
             [handler |-> handler, pc |-> step, id |-> id, code |-> 0, row |-> row]]

Request(p) ==
  /\ work[p] = NoJob
  /\ requests < MaxRequests
  /\ requests' = requests + 1
  /\ \/ \E email \in Emails, name \in Names :
          LET asked == [ZeroRow EXCEPT !.email = email, !.name = name]
          IN  \/ Begin(p, "RegisterRequest", "check_email", 0, asked)
              \/ Begin(p, "RegisterVerify", "find_code", 0, asked)
     \/ \E email \in Emails :
          LET asked == [ZeroRow EXCEPT !.email = email]
          IN  \/ Begin(p, "ForgotPasswordRequest", "find_email", 0, asked)
              \/ Begin(p, "ForgotPasswordVerify", "find_code", 0, asked)
     \/ \E handler \in Editors, id \in DOMAIN users :
          /\ handler \in AdminHandlers \/ users[id].email # Blank
          /\ Begin(p, handler, "read", id, ZeroRow)
  /\ UNCHANGED <<users, codes, now, secrets, confirmed, proofs>>

-----------------------------------------------------------------------------
(* Sending and taking a code.                                              *)

CheckEmail(p) ==
  /\ At(p, "check_email")
  /\ ~EmailTaken(work[p].row.email)
  /\ Goto(p, "check_name")
  /\ UNCHANGED <<users, codes, now, requests, secrets, confirmed, proofs>>

\* UpdateProfile looks for the name it is about to take, too, and may find its
\* own user, renamed since it was read.
CheckName(p) ==
  /\ At(p, "check_name")
  /\ ~NameTaken(work[p].row.name, work[p].id)
  /\ Goto(p, CASE work[p].handler = "RegisterRequest" -> "invalidate"
               [] work[p].handler = "RegisterVerify" -> "create"
               [] work[p].handler = "UpdateProfile" -> "save")
  /\ UNCHANGED <<users, codes, now, requests, secrets, confirmed, proofs>>

\* The zero row of a failed query counts as a user: the reset then writes the
\* password of the user with id 0, whom there is not.
FindEmail(p) ==
  /\ At(p, "find_email")
  /\ \E user \in FindByEmail(work[p].row.email) :
       IF work[p].handler = "ForgotPasswordRequest"
         THEN Goto(p, "invalidate")
         ELSE work' = [work EXCEPT ![p].pc = "write_password", ![p].id = user.id]
  /\ UNCHANGED <<users, codes, now, requests, secrets, confirmed, proofs>>

\* Variant: the codes sent before stay valid.
InvalidatePreviousSkipped(p) ==
  /\ At(p, "invalidate")
  /\ Goto(p, "store_code")
  /\ UNCHANGED <<users, codes, now, requests, secrets, confirmed, proofs>>

InvalidatePrevious(p) ==
  /\ At(p, "invalidate")
  /\ codes' = [i \in DOMAIN codes |->
                 IF /\ codes[i].email = work[p].row.email
                    /\ codes[i].purpose = Purpose(work[p].handler)
                   THEN [codes[i] EXCEPT !.used = TRUE]
                   ELSE codes[i]]
  /\ Goto(p, "store_code")
  /\ UNCHANGED <<users, now, requests, secrets, confirmed, proofs>>

\* The code stays in the table when it cannot be mailed.
StoreCode(p) ==
  /\ At(p, "store_code")
  /\ codes' = Append(codes, [email |-> work[p].row.email,
                             purpose |-> Purpose(work[p].handler),
                             used |-> FALSE, expires |-> now + CodeTTL])
  /\ Finish(p)
  /\ UNCHANGED <<users, now, requests, secrets, confirmed, proofs>>

FindCode(p) ==
  /\ At(p, "find_code")
  /\ \E i \in FindValid(work[p].row.email, Purpose(work[p].handler)) :
       work' = [work EXCEPT ![p].pc = "mark_used", ![p].code = i]
  /\ UNCHANGED <<users, codes, now, requests, secrets, confirmed, proofs>>

\* Where the handlers go on once their code is accepted.
Accepted(p) ==
  IF work[p].handler = "RegisterVerify" THEN "check_email" ELSE "find_email"

\* Variant: a failed update of the code is ignored.
MarkUsedIgnoringErrors(p) ==
  /\ At(p, "mark_used")
  /\ \/ codes' = [codes EXCEPT ![work[p].code].used = TRUE]
     \/ UNCHANGED codes
  /\ Goto(p, Accepted(p))
  /\ UNCHANGED <<users, now, requests, secrets, confirmed, proofs>>

MarkUsed(p) ==
  /\ At(p, "mark_used")
  /\ codes' = [codes EXCEPT ![work[p].code].used = TRUE]
  /\ Goto(p, Accepted(p))
  /\ UNCHANGED <<users, now, requests, secrets, confirmed, proofs>>

CreateUser(p) ==
  /\ At(p, "create")
  /\ Unique(work[p].row)
  /\ \E pass \in Passwords :
       Insert([work[p].row EXCEPT !.pass = pass, !.role = "user"], work[p].code)
  /\ Finish(p)
  /\ UNCHANGED <<codes, now, requests, secrets, confirmed>>

-----------------------------------------------------------------------------
(* Handlers that read a user's row, decide, and write some of it.  Each is *)
(* two actions: the read with the decision, and the write below.  The row  *)
(* is kept in between when the write puts it, or its secret, back.         *)

Editing(p, handler) == At(p, "read") /\ work[p].handler = handler

Found(p) == FindByID(work[p].id)

UpdateProfile(p) ==
  /\ Editing(p, "UpdateProfile")
  /\ \E user \in Found(p) :
       \/ GotoWith(p, "save", user)
       \/ \E name \in Names \ {user.name} :
            GotoWith(p, "check_name", [user EXCEPT !.name = name])
  /\ UNCHANGED <<users, codes, now, requests, secrets, confirmed, proofs>>

SetRole(p) ==
  /\ Editing(p, "SetRole")
  /\ \E user \in Found(p), role \in Roles :
       GotoWith(p, "save", [user EXCEPT !.role = role])
  /\ UNCHANGED <<users, codes, now, requests, secrets, confirmed, proofs>>

\* No password matches the empty hash of the zero row.
ChangePassword(p) ==
  /\ Editing(p, "ChangePassword")
  /\ \E user \in Found(p) : user.pass # Blank
  /\ Goto(p, "write_password")
  /\ UNCHANGED <<users, codes, now, requests, secrets, confirmed, proofs>>

SetUserPassword(p) ==
  /\ Editing(p, "SetUserPassword")
  /\ Found(p) # {}
  /\ Goto(p, "write_password")
  /\ UNCHANGED <<users, codes, now, requests, secrets, confirmed, proofs>>

\* No secret is generated for an account without a name.
Setup(p) ==
  /\ Editing(p, "Setup")
  /\ \E user \in Found(p) : user.email # Blank
  /\ secrets' = secrets + 1
  /\ GotoWith(p, "write_mfa", [ZeroRow EXCEPT !.secret = secrets + 1])
  /\ UNCHANGED <<users, codes, now, requests, confirmed, proofs>>

Enable(p) ==
  /\ Editing(p, "Enable")
  /\ \E user \in Found(p) :
       /\ user.secret # NoSecret
       /\ confirmed' = confirmed \cup {user.secret}
       /\ GotoWith(p, "write_mfa",
                   [ZeroRow EXCEPT !.mfa = TRUE, !.secret = user.secret])
  /\ UNCHANGED <<users, codes, now, requests, secrets, proofs>>

Disable(p) ==
  /\ Editing(p, "Disable")
  /\ \E user \in Found(p) : user.mfa
  /\ GotoWith(p, "write_mfa", ZeroRow)
  /\ UNCHANGED <<users, codes, now, requests, secrets, confirmed, proofs>>

Status(p) ==
  /\ Editing(p, "Status")
  /\ \E user \in Found(p) : user.premium /\ now > user.expires
  /\ GotoWith(p, "write_premium", ZeroRow)
  /\ UNCHANGED <<users, codes, now, requests, secrets, confirmed, proofs>>

AdminSet(p) ==
  /\ Editing(p, "AdminSet")
  /\ Found(p) # {}
  /\ \E premium \in BOOLEAN, expires \in 0 .. Never :
       GotoWith(p, "write_premium",
                [ZeroRow EXCEPT !.premium = premium, !.expires = expires])
  /\ UNCHANGED <<users, codes, now, requests, secrets, confirmed, proofs>>

\* gorm's Save: every column of the row with this primary key, or a new row
\* when it has none.
Save(p) ==
  /\ At(p, "save")
  /\ Unique(work[p].row)
  /\ IF work[p].row.id = 0
       THEN Insert(work[p].row, 0)
       ELSE /\ users' = [users EXCEPT ![work[p].row.id] = work[p].row]
            /\ UNCHANGED proofs
  /\ Finish(p)
  /\ UNCHANGED <<codes, now, requests, secrets, confirmed>>

\* The user to be written; an update of id 0 finds no row and changes nothing.
Target(p) == work[p].id

WritePassword(p) ==
  /\ At(p, "write_password")
  /\ Target(p) \in DOMAIN users
  /\ \E pass \in Passwords : users' = [users EXCEPT ![Target(p)].pass = pass]
  /\ Finish(p)
  /\ UNCHANGED <<codes, now, requests, secrets, confirmed, proofs>>

\* Variant: enabling MFA writes the flag alone.
UpdateMFAFlagOnly(p) ==
  /\ At(p, "write_mfa")
  /\ users' = [users EXCEPT ![Target(p)].mfa = work[p].row.mfa,
                            ![Target(p)].secret =
                              IF work[p].row.mfa THEN @ ELSE work[p].row.secret]
  /\ Finish(p)
  /\ UNCHANGED <<codes, now, requests, secrets, confirmed, proofs>>

UpdateMFA(p) ==
  /\ At(p, "write_mfa")
  /\ users' = [users EXCEPT ![Target(p)].mfa = work[p].row.mfa,
                            ![Target(p)].secret = work[p].row.secret]
  /\ Finish(p)
  /\ UNCHANGED <<codes, now, requests, secrets, confirmed, proofs>>

UpdatePremium(p) ==
  /\ At(p, "write_premium")
  /\ users' = [users EXCEPT ![Target(p)].premium = work[p].row.premium,
                            ![Target(p)].expires = work[p].row.expires]
  /\ Finish(p)
  /\ UNCHANGED <<codes, now, requests, secrets, confirmed, proofs>>

Tick ==
  /\ now < MaxTime
  /\ now' = now + 1
  /\ UNCHANGED <<users, codes, work, requests, secrets, confirmed, proofs>>

-----------------------------------------------------------------------------
\* The seed program has created the administrator.
Init ==
  /\ \E email \in Emails, name \in Names, pass \in Passwords :
       users = <<[ZeroRow EXCEPT !.id = 1, !.email = email, !.name = name,
                                 !.pass = pass, !.role = "admin"]>>
  /\ codes = <<>>
  /\ work = [p \in Procs |-> NoJob]
  /\ now = 0
  /\ requests = 0
  /\ secrets = 0
  /\ confirmed = {}
  /\ proofs = <<0>>

Next ==
  \/ Tick
  \/ \E p \in Procs :
       \/ Request(p) \/ Fail(p)
       \/ CheckEmail(p) \/ CheckName(p) \/ FindEmail(p)
       \/ InvalidatePrevious(p) \/ StoreCode(p)
       \/ FindCode(p) \/ MarkUsed(p) \/ CreateUser(p)
       \/ UpdateProfile(p) \/ SetRole(p)
       \/ ChangePassword(p) \/ SetUserPassword(p)
       \/ Setup(p) \/ Enable(p) \/ Disable(p)
       \/ Status(p) \/ AdminSet(p)
       \/ Save(p) \/ WritePassword(p) \/ UpdateMFA(p) \/ UpdatePremium(p)

Spec == Init /\ [][Next]_vars

-----------------------------------------------------------------------------
(* Properties.                                                             *)

\* A used code for the address, mailed for the purpose.
Proof(i, email, purpose) ==
  /\ i \in DOMAIN codes
  /\ codes[i].used
  /\ codes[i].email = email
  /\ codes[i].purpose = purpose

\* Every account that was not seeded, and is not the stray row of a failed
\* read, was created with a used registration code for its address; and a
\* goroutine past MarkUsed holds such a code for what it is going to write
\* (otp/service.go Verify before auth.go's two writes).
CodeProvesEmail ==
  /\ \A i \in DOMAIN users :
       proofs[i] # 0 => Proof(proofs[i], users[i].email, "registration")
  /\ \A p \in Procs :
       /\ work[p].handler \in Takers
       /\ work[p].pc \notin {"find_code", "mark_used"}
       => Proof(work[p].code, work[p].row.email, Purpose(work[p].handler))

\* One registration code makes one account, however many requests present it
\* before it is marked as used.
OneAccountPerCode ==
  \A i, j \in DOMAIN users : proofs[i] # 0 /\ proofs[i] = proofs[j] => i = j

\* Of the codes for one address and purpose, no more are unused at a time
\* than there are goroutines to store one: what InvalidatePrevious bounds.
Unused(email, purpose) ==
  {i \in DOMAIN codes : /\ codes[i].email = email
                        /\ codes[i].purpose = purpose
                        /\ ~codes[i].used}

UnusedCodesBounded ==
  \A email \in Emails, purpose \in Purposes :
    Cardinality(Unused(email, purpose)) <= Cardinality(Procs)

\* MFA is on only with a secret its user has shown a right code for, although
\* the secret may be replaced between Enable's read and its write, and rows
\* are put back whole.
MfaConfirmed ==
  \A i \in DOMAIN users : users[i].mfa => users[i].secret \in confirmed
=============================================================================
