---------------------------- MODULE AuthAccount ----------------------------
(***************************************************************************)
(* The account behind one email address: registration, one-time PINs,      *)
(* passwords and Google login (internal/modules/auth).  Sessions are in     *)
(* AuthSession; here a login only reads the account and may start the       *)
(* goroutine that upgrades an old password hash.                           *)
(*                                                                         *)
(* One element of Reqs is one HTTP request; each action is one Postgres     *)
(* statement or transaction with the code that runs up to the next.  The    *)
(* transactions run at read committed: what one writes the others see when  *)
(* it has committed.                                                        *)
(***************************************************************************)
EXTENDS Naturals

CONSTANTS
    Reqs,           \* HTTP requests
    PinIds,         \* PIN rows; a row's six-digit code is told by its id
    Passwords,
    AdminStatuses,  \* statuses that an administrator sets
    DBFaults,       \* TRUE: a Postgres call may fail, a process may die
    None

ASSUME AccountAssumption ==
    /\ DBFaults \in BOOLEAN
    /\ None \notin PinIds \cup Passwords
    /\ AdminStatuses \subseteq {"PENDING", "ACTIVE", "BLOCKED"}

Purposes == {"register", "forgot_password", "verify"}
Statuses == {"PENDING", "ACTIVE", "BLOCKED"}

\* legacy: the hash has not the configured form, so that a login upgrades it.
\* The password of an account that Google created is nobody's (None).
User == [status: Statuses, provider: {"local", "google"},
         password: Passwords \cup {None}, legacy: BOOLEAN]

Pin == [purpose: Purposes, used: BOOLEAN, expired: BOOLEAN]

ASSUME NoneIsNoRow == None \notin User /\ None \notin Pin

ASSUME NoneIsNoPurpose == None \notin Purposes

VARIABLES
    user,       \* the auth_users row of the email, or None
    pins,       \* the auth_pins table: id -> row or None
    mail,       \* the purpose a PIN was mailed for, None: not mailed
    pc, req,    \* where the handler of a request is, and the request
    seen,       \* the user row GoogleLogin has read
    pin,        \* the PIN the handler was given, or has generated
    doomed,     \* rows that CreatePin has deleted and not committed
    resp,       \* the response sent
    upgrade     \* requests whose rehash goroutine has still to write

tables == <<user, pins, mail>>
local == <<pc, req, seen, pin, doomed, resp>>
vars == <<user, pins, mail, pc, req, seen, pin, doomed, resp, upgrade>>

-----------------------------------------------------------------------------
Ops == {"none", "register", "verify", "forgot", "resend", "reset", "login",
        "change", "google"}

\* password: the password given, the new one of a reset or a change;
\* old: the current password a change gives.
Request == [op: Ops, purpose: Purposes \cup {None},
            password: Passwords \cup {None}, old: Passwords \cup {None}]

Call(op) == [op |-> op, purpose |-> None, password |-> None, old |-> None]

PCs == {"idle", "find", "create", "findAgain", "delete", "insert", "select",
        "consume", "activate", "store", "identity", "done"}

Responses == {"none", "ok", "error", "exists", "invalid", "refused"}

TypeOK ==
    /\ user \in User \cup {None}
    /\ pins \in [PinIds -> Pin \cup {None}]
    /\ mail \in [PinIds -> Purposes \cup {None}]
    /\ pc \in [Reqs -> PCs]
    /\ req \in [Reqs -> Request]
    /\ seen \in [Reqs -> User \cup {None}]
    /\ pin \in [Reqs -> PinIds \cup {None}]
    /\ doomed \in [Reqs -> SUBSET PinIds]
    /\ resp \in [Reqs -> Responses]
    /\ upgrade \subseteq Reqs

\* No account yet, or one from before the hash format was changed.
Init ==
    /\ \/ user = None
       \/ \E p \in Passwords :
             user = [status |-> "ACTIVE", provider |-> "local", password |-> p,
                     legacy |-> TRUE]
    /\ pins = [p \in PinIds |-> None]
    /\ mail = [p \in PinIds |-> None]
    /\ pc = [r \in Reqs |-> "idle"]
    /\ req = [r \in Reqs |-> Call("none")]
    /\ seen = [r \in Reqs |-> None]
    /\ pin = [r \in Reqs |-> None]
    /\ doomed = [r \in Reqs |-> {}]
    /\ resp = [r \in Reqs |-> "none"]
    /\ upgrade = {}

-----------------------------------------------------------------------------
(* Control of one request.                                                 *)

Goto(r, label) == pc' = [pc EXCEPT ![r] = label]

Continue(r, label) ==
    /\ Goto(r, label)
    /\ UNCHANGED <<req, seen, pin, doomed, resp>>

Finish(r, response) ==
    /\ Goto(r, "done")
    /\ resp' = [resp EXCEPT ![r] = response]
    /\ doomed' = [doomed EXCEPT ![r] = {}]
    /\ UNCHANGED <<req, seen, pin>>

\* Go on with the row just read.
See(r, row, label) ==
    /\ Goto(r, label)
    /\ seen' = [seen EXCEPT ![r] = row]
    /\ UNCHANGED <<req, pin, doomed, resp>>

Begin(r, request, label) ==
    /\ pc[r] = "idle"
    /\ Goto(r, label)
    /\ req' = [req EXCEPT ![r] = request]
    /\ UNCHANGED <<tables, seen, doomed, resp, upgrade>>

-----------------------------------------------------------------------------
(* The requests.                                                           *)

Register(r, password) ==
    /\ Begin(r, [Call("register") EXCEPT !.password = password], "find")
    /\ UNCHANGED pin

Login(r, password) ==
    /\ Begin(r, [Call("login") EXCEPT !.password = password], "find")
    /\ UNCHANGED pin

ChangePassword(r, old, password) ==
    /\ Begin(r, [Call("change") EXCEPT !.old = old, !.password = password], "find")
    /\ UNCHANGED pin

ForgotPassword(r) == Begin(r, Call("forgot"), "find") /\ UNCHANGED pin

ResendPIN(r, purpose) ==
    /\ Begin(r, [Call("resend") EXCEPT !.purpose = purpose], "find")
    /\ UNCHANGED pin

GoogleLogin(r) == Begin(r, Call("google"), "find") /\ UNCHANGED pin

\* A PIN that was mailed, entered for any purpose.
VerifyPIN(r, p, purpose) ==
    /\ mail[p] # None
    /\ Begin(r, [Call("verify") EXCEPT !.purpose = purpose], "select")
    /\ pin' = [pin EXCEPT ![r] = p]

ResetPassword(r, p, password) ==
    /\ mail[p] # None
    /\ Begin(r, [Call("reset") EXCEPT !.purpose = "forgot_password",
                                      !.password = password], "select")
    /\ pin' = [pin EXCEPT ![r] = p]

-----------------------------------------------------------------------------
(* The user row.                                                           *)

PendingLocal(row) == row.status = "PENDING" /\ row.provider = "local"

FindForRegister(r) ==
    /\ req[r].op = "register"
    /\ IF user # None THEN Finish(r, "exists") ELSE Continue(r, "create")

\* ForgotPassword and ResendPIN do not tell that an address is unknown.
FindForPin(r) ==
    /\ req[r].op \in {"forgot", "resend"}
    /\ IF user = None THEN Finish(r, "ok") ELSE Continue(r, "delete")

FindForLogin(r) ==
    /\ req[r].op = "login"
    /\ IF /\ user # None /\ user.status # "BLOCKED" /\ ~ PendingLocal(user)
          /\ user.password = req[r].password
       THEN Finish(r, "ok") ELSE Finish(r, "refused")

FindForChange(r) ==
    /\ req[r].op = "change"
    /\ IF user # None /\ user.password = req[r].old
       THEN Continue(r, "store") ELSE Finish(r, "refused")

\* By the Google subject, then by email.
FindForGoogle(r) ==
    /\ req[r].op = "google"
    /\ IF user = None THEN Continue(r, "create")
       ELSE IF user.status = "BLOCKED" THEN Finish(r, "refused")
       ELSE See(r, user, "identity")

\* FindUserByEmail and the checks on the row; a login with an old hash starts
\* the goroutine that upgrades it.
FindUser(r) ==
    /\ pc[r] = "find"
    /\ \/ FindForRegister(r) \/ FindForPin(r) \/ FindForLogin(r)
       \/ FindForChange(r) \/ FindForGoogle(r)
    /\ upgrade' = IF req[r].op = "login" /\ resp'[r] = "ok" /\ user.legacy
                  THEN upgrade \cup {r} ELSE upgrade
    /\ UNCHANGED tables

NewUser(r) ==
    IF req[r].op = "google"
    THEN [status |-> "ACTIVE", provider |-> "google", password |-> None,
          legacy |-> FALSE]
    ELSE [status |-> "PENDING", provider |-> "local",
          password |-> req[r].password, legacy |-> FALSE]

\* Faulty variant: no unique index on the email, the later row wins.
CreateUserAnyway(r) ==
    /\ pc[r] = "create"
    /\ user' = NewUser(r)
    /\ IF req[r].op = "google" THEN See(r, user', "identity")
                               ELSE Continue(r, "delete")
    /\ UNCHANGED <<pins, mail, upgrade>>

\* INSERT; the unique index on the email decides between two.
CreateUser(r) ==
    /\ pc[r] = "create"
    /\ IF user = None
       THEN /\ user' = NewUser(r)
            /\ IF req[r].op = "google" THEN See(r, user', "identity")
                                       ELSE Continue(r, "delete")
       ELSE /\ IF req[r].op = "google" THEN Continue(r, "findAgain")
                                       ELSE Finish(r, "exists")
            /\ UNCHANGED user
    /\ UNCHANGED <<pins, mail, upgrade>>

\* GoogleLogin lost the insert to another request and loads that row.
FindAgain(r) ==
    /\ pc[r] = "findAgain"
    /\ IF user.status = "BLOCKED" THEN Finish(r, "refused")
                                  ELSE See(r, user, "identity")
    /\ UNCHANGED <<tables, upgrade>>

\* The status is written when the row read before was pending.
UpdateIdentity(r) ==
    /\ pc[r] = "identity"
    /\ user' = IF seen[r].status = "PENDING" THEN [user EXCEPT !.status = "ACTIVE"]
                                             ELSE user
    /\ Finish(r, "ok")
    /\ UNCHANGED <<pins, mail, upgrade>>

\* VerifyPIN for a registration, after the PIN is consumed.
Activate(r) ==
    /\ pc[r] = "activate"
    /\ IF user = None THEN Finish(r, "error") /\ UNCHANGED user
       ELSE Finish(r, "ok") /\ user' = [user EXCEPT !.status = "ACTIVE"]
    /\ UNCHANGED <<pins, mail, upgrade>>

\* UpdatePasswordHash of ResetPassword and ChangePassword.
UpdatePasswordHash(r) ==
    /\ pc[r] = "store"
    /\ IF user = None THEN Finish(r, "error") /\ UNCHANGED user
       ELSE /\ Finish(r, "ok")
            /\ user' = [user EXCEPT !.password = req[r].password, !.legacy = FALSE]
    /\ UNCHANGED <<pins, mail, upgrade>>

\* The goroutine of a login with an old hash: hash the password again, store it.
Rehash(r) ==
    /\ r \in upgrade
    /\ upgrade' = upgrade \ {r}
    /\ user' = [user EXCEPT !.password = req[r].password, !.legacy = FALSE]
    /\ UNCHANGED <<pins, mail, local>>

\* An administrator sets the status (users UpdateUserStatus).
UpdateUserStatus(status) ==
    /\ user # None
    /\ user.status # status
    /\ user' = [user EXCEPT !.status = status]
    /\ UNCHANGED <<pins, mail, local, upgrade>>

-----------------------------------------------------------------------------
(* PINs.                                                                   *)

\* Faulty variant: the purpose is the one the request names.
IssuedAsRequested(r) == req[r].purpose

\* The purpose a PIN is stored with: a resent registration PIN is stored as
\* one for "verify".
IssuedPurpose(r) ==
    CASE req[r].op = "register" -> "register"
      [] req[r].op = "forgot" -> "forgot_password"
      [] req[r].op = "resend" -> IF req[r].purpose = "forgot_password"
                                 THEN "forgot_password" ELSE "verify"

\* The purpose the mail names.
MailedPurpose(r) ==
    CASE req[r].op = "register" -> "register"
      [] req[r].op = "forgot" -> "forgot_password"
      [] req[r].op = "resend" -> req[r].purpose

Unused(purpose) ==
    {p \in PinIds : pins[p] # None /\ pins[p].purpose = purpose /\ ~ pins[p].used}

Fresh == {p \in PinIds : /\ pins[p] = None /\ mail[p] = None
                         /\ \A r \in Reqs : pin[r] # p}

\* The DELETE of CreatePin's transaction, and a code nobody has.
DeletePins(r) ==
    /\ pc[r] = "delete"
    /\ \E p \in Fresh : pin' = [pin EXCEPT ![r] = p]
    /\ doomed' = [doomed EXCEPT ![r] = Unused(IssuedPurpose(r))]
    /\ Goto(r, "insert")
    /\ UNCHANGED <<tables, req, seen, resp, upgrade>>

\* The INSERT and the commit; an error of CreatePin is logged, the mail sent
\* all the same.
CreatePin(r) ==
    /\ pc[r] = "insert"
    /\ \/ pins' = [p \in PinIds |->
                     IF p = pin[r] THEN [purpose |-> IssuedPurpose(r), used |-> FALSE,
                                         expired |-> FALSE]
                     ELSE IF p \in doomed[r] THEN None ELSE pins[p]]
       \/ DBFaults /\ UNCHANGED pins
    /\ mail' = [mail EXCEPT ![pin[r]] = MailedPurpose(r)]
    /\ Finish(r, "ok")
    /\ UNCHANGED <<user, upgrade>>

\* Faulty variant: the PIN is looked up by its code alone.
MatchesAnyPurpose(r) ==
    /\ pins[pin[r]] # None
    /\ ~ pins[pin[r]].used /\ ~ pins[pin[r]].expired

\* The WHERE clause of ValidateAndConsumePin.
Matches(r) ==
    /\ pins[pin[r]] # None
    /\ pins[pin[r]].purpose = req[r].purpose
    /\ ~ pins[pin[r]].used /\ ~ pins[pin[r]].expired

\* The SELECT of ValidateAndConsumePin; every failure is "invalid PIN".
SelectPin(r) ==
    /\ pc[r] = "select"
    /\ IF Matches(r) THEN Continue(r, "consume") ELSE Finish(r, "invalid")
    /\ UNCHANGED <<tables, upgrade>>

\* What VerifyPIN and ResetPassword do with an accepted PIN.
Accepted(r) ==
    IF req[r].op = "reset" THEN Continue(r, "store")
    ELSE IF req[r].purpose = "register" THEN Continue(r, "activate")
    ELSE Finish(r, "ok")

\* Faulty variant: the update is lost with its transaction.
ConsumeNothing(r) ==
    /\ pc[r] = "consume"
    /\ Accepted(r)
    /\ UNCHANGED <<tables, upgrade>>

\* Its UPDATE ... WHERE used_at IS NULL and the commit.  It waits for a CreatePin
\* that has deleted the row; that it may change no row is not looked at.
ConsumePin(r) ==
    /\ pc[r] = "consume"
    /\ \A q \in Reqs : pin[r] \notin doomed[q]
    /\ pins' = [pins EXCEPT ![pin[r]] =
                   IF pins[pin[r]] = None THEN None
                   ELSE [pins[pin[r]] EXCEPT !.used = TRUE]]
    /\ Accepted(r)
    /\ UNCHANGED <<user, mail, upgrade>>

PinExpires(p) ==
    /\ pins[p] # None /\ ~ pins[p].expired
    /\ pins' = [pins EXCEPT ![p].expired = TRUE]
    /\ UNCHANGED <<user, mail, local, upgrade>>

-----------------------------------------------------------------------------
(* Failures.                                                               *)

\* FindUserByEmail fails: Register drops the error, forgot and resend answer
\* as if the address were unknown, the others return it.
FindFails(r) ==
    /\ DBFaults
    /\ pc[r] = "find"
    /\ CASE req[r].op = "register" -> Continue(r, "create")
         [] req[r].op \in {"forgot", "resend"} -> Finish(r, "ok")
         [] OTHER -> Finish(r, "error")
    /\ UNCHANGED <<tables, upgrade>>

\* Another call fails and its error is returned, or the process dies.
Abort(r) ==
    /\ DBFaults
    /\ pc[r] \notin {"idle", "find", "done"}
    /\ Finish(r, "error")
    /\ UNCHANGED <<tables, upgrade>>

\* The goroutine logs a warning, or dies with the process.
RehashFails(r) ==
    /\ DBFaults
    /\ r \in upgrade
    /\ upgrade' = upgrade \ {r}
    /\ UNCHANGED <<tables, local>>

-----------------------------------------------------------------------------
Arrive(r) ==
    \/ ForgotPassword(r) \/ GoogleLogin(r)
    \/ \E purpose \in Purposes : ResendPIN(r, purpose)
    \/ \E p \in PinIds, purpose \in Purposes : VerifyPIN(r, p, purpose)
    \/ \E w \in Passwords :
          \/ Register(r, w) \/ Login(r, w)
          \/ \E old \in Passwords \ {w} : ChangePassword(r, old, w)
          \/ \E p \in PinIds : ResetPassword(r, p, w)

Step(r) ==
    \/ FindUser(r) \/ CreateUser(r) \/ FindAgain(r) \/ UpdateIdentity(r)
    \/ Activate(r) \/ UpdatePasswordHash(r)
    \/ DeletePins(r) \/ CreatePin(r) \/ SelectPin(r) \/ ConsumePin(r)

\* All requests have been served, as far as there are PINs, and no goroutine
\* is left.
Quiescent ==
    /\ \A r \in Reqs : pc[r] \in (IF Fresh = {} THEN {"done", "delete"} ELSE {"done"})
    /\ upgrade = {}
    /\ UNCHANGED vars

Next ==
    \/ \E r \in Reqs : \/ Arrive(r) \/ Step(r) \/ Rehash(r)
                       \/ FindFails(r) \/ Abort(r) \/ RehashFails(r)
    \/ \E p \in PinIds : PinExpires(p)
    \/ \E status \in AdminStatuses : UpdateUserStatus(status)
    \/ Quiescent

Spec == Init /\ [][Next]_vars

-----------------------------------------------------------------------------
(* Properties.                                                             *)

\* The request's PIN was accepted by ValidateAndConsumePin.
HasConsumed(r) ==
    /\ req[r].op \in {"verify", "reset"}
    /\ pc[r] \in {"activate", "store"} \/ resp[r] = "ok"

\* A PIN that let a request through is used or gone for good, whichever
\* requests with it, and whichever requests for a new one, interleave with the
\* SELECT and the UPDATE of ValidateAndConsumePin.
AcceptedPinSpent ==
    \A r \in Reqs :
        HasConsumed(r) => pins[pin[r]] = None \/ pins[pin[r]].used

\* An account that was registered is active only after a request that entered
\* a PIN mailed for the registration, or after a login with Google (VerifyPIN,
\* GoogleLogin), unless administrators activate accounts.
ActivatedByProof ==
    (/\ user # None /\ user.status = "ACTIVE" /\ "ACTIVE" \notin AdminStatuses
     /\ \E r \in Reqs : req[r].op = "register" /\ resp[r] = "ok")
    => \E r \in Reqs :
          /\ resp[r] = "ok"
          /\ \/ req[r].op = "google"
             \/ req[r].op = "verify" /\ mail[pin[r]] = "register"

\* One email is registered once: of concurrent registrations at most one is
\* told that it succeeded, and none once Google has created the account
\* (Register, GoogleLogin).
RegisteredOnce ==
    \A r, q \in Reqs :
        (/\ req[r].op = "register" /\ resp[r] = "ok"
         /\ req[q].op = "register" /\ resp[q] = "ok")
        => r = q /\ user.provider = "local"

\* The stored password of an account whose hash is not an old one was given by
\* the request that created the account, by a reset with a PIN mailed for a
\* reset, by a change that knew the password before, or by a login whose
\* goroutine stored it again: never by a request that was refused.
PasswordAuthorized ==
    (user # None /\ user.password # None /\ ~ user.legacy) =>
        \E r \in Reqs :
            /\ req[r].password = user.password
            /\ resp[r] \notin {"exists", "invalid", "refused"}
            /\ \/ req[r].op \in {"register", "change", "login"}
               \/ req[r].op = "reset" /\ mail[pin[r]] = "forgot_password"

\* "VerifyPIN validates and consumes a PIN, activating the user"
\* (auth_service.go:1079): a PIN entered for the purpose its mail names is
\* refused only when it is used, expired or replaced.
MailedPinWorks ==
    [][\A r \in Reqs :
          (/\ pc[r] = "select" /\ resp[r] = "none" /\ resp'[r] = "invalid"
           /\ mail[pin[r]] = req[r].purpose
           /\ pins[pin[r]] # None)
          => pins[pin[r]].used \/ pins[pin[r]].expired]_vars

\* Not kept by the code; no run checks it, and the README gives the sequence.
\* "ChangePassword validates the current password and replaces it with the new
\* password" (auth_service.go:1426): the goroutine that upgrades the hash of an
\* earlier login does not bring the replaced password back.
UpgradeKeepsPassword ==
    [][\A r \in Reqs : (r \in upgrade /\ r \notin upgrade') =>
                           user'.password = user.password]_vars

=============================================================================
