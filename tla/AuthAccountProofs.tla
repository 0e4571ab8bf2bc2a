------------------------- MODULE AuthAccountProofs -------------------------
(***************************************************************************)
(* Proofs about AuthAccount for any number of requests, PINs and passwords, *)
(* with and without failures.                                              *)
(***************************************************************************)
EXTENDS AuthAccount, TLAPS

-----------------------------------------------------------------------------
(* The inductive invariant.                                                *)

\* What the handler of a request has at the point where it is.
HandlerOK(r) ==
    /\ pc[r] = "idle" => req[r].op = "none"
    /\ pc[r] = "find" => req[r].op \in {"register", "forgot", "resend", "login",
                                        "change", "google"}
    /\ pc[r] = "create" => req[r].op \in {"register", "google"}
    /\ pc[r] \in {"findAgain", "identity"} => req[r].op = "google"
    /\ pc[r] = "identity" => seen[r] # None
    /\ pc[r] \in {"delete", "insert"} => req[r].op \in {"register", "forgot", "resend"}
    /\ pc[r] \in {"select", "consume"} => req[r].op \in {"verify", "reset"}
    /\ pc[r] = "activate" => req[r].op = "verify"
    /\ pc[r] = "store" => req[r].op \in {"reset", "change"}
    /\ pc[r] = "insert" \/ req[r].op \in {"verify", "reset"} => pin[r] # None
    /\ req[r].op = "resend" => req[r].purpose # None
    /\ pc[r] # "done" => resp[r] = "none"

HandlersOK == \A r \in Reqs : HandlerOK(r)

TablesOK ==
    /\ user \in User \cup {None}
    /\ pins \in [PinIds -> Pin \cup {None}]
    /\ mail \in [PinIds -> Purposes \cup {None}]

LocalOK ==
    /\ pc \in [Reqs -> PCs]
    /\ req \in [Reqs -> Request]
    /\ seen \in [Reqs -> User \cup {None}]
    /\ pin \in [Reqs -> PinIds \cup {None}]
    /\ doomed \in [Reqs -> SUBSET PinIds]
    /\ resp \in [Reqs -> Responses]
    /\ HandlersOK

\* A handler or a goroutine that goes on with an account has one to go on with.
AccountThere ==
    \A r \in Reqs :
        pc[r] \in {"findAgain", "identity"} \/ r \in upgrade => user # None

\* A PIN that CreatePin is about to insert is nobody else's yet.
NewPin ==
    \A r \in Reqs : pc[r] = "insert" =>
        /\ pins[pin[r]] = None /\ mail[pin[r]] = None
        /\ \A q \in Reqs : q # r => pin[q] # pin[r]

\* The request has registered the account.
Registered(r) ==
    /\ req[r].op = "register"
    /\ pc[r] \in {"delete", "insert"} \/ resp[r] = "ok"

OneAccount ==
    \A r \in Reqs : Registered(r) =>
        /\ user # None /\ user.provider = "local"
        /\ \A q \in Reqs : Registered(q) => q = r

TypeInv == TablesOK /\ LocalOK /\ upgrade \subseteq Reqs /\ AccountThere

Inv == TypeInv /\ NewPin /\ AcceptedPinSpent /\ OneAccount

-----------------------------------------------------------------------------
(* Control of one request.                                                 *)

\* A step of request r leaves the handlers of the others where they are.
OthersKept(r) ==
    \A q \in Reqs : q # r =>
        /\ pc'[q] = pc[q] /\ req'[q] = req[q] /\ seen'[q] = seen[q]
        /\ pin'[q] = pin[q] /\ resp'[q] = resp[q]

LEMMA HandlersKept ==
    ASSUME HandlersOK, NEW r \in Reqs, OthersKept(r), HandlerOK(r)'
    PROVE  HandlersOK'
<1>1. ASSUME NEW q \in Reqs PROVE HandlerOK(q)'
  <2>1. CASE q = r
    BY <2>1
  <2>2. CASE q # r
    <3>1. /\ pc'[q] = pc[q] /\ req'[q] = req[q] /\ seen'[q] = seen[q]
          /\ pin'[q] = pin[q] /\ resp'[q] = resp[q]
      BY <2>2 DEF OthersKept
    <3>2. HandlerOK(q)
      BY DEF HandlersOK
    <3> QED
      BY <3>1, <3>2 DEF HandlerOK
  <2> QED
    BY <2>1, <2>2
<1> QED
  BY <1>1 DEF HandlersOK

\* A response ends the handler.
LEMMA FinishOK ==
    ASSUME LocalOK, NEW r \in Reqs, NEW response \in Responses,
           Finish(r, response)
    PROVE  /\ LocalOK' /\ OthersKept(r)
           /\ pc'[r] = "done" /\ resp'[r] = response /\ req' = req /\ pin' = pin
<1>1. /\ pc' \in [Reqs -> PCs] /\ req' = req /\ seen' = seen /\ pin' = pin
      /\ resp' \in [Reqs -> Responses] /\ doomed' \in [Reqs -> SUBSET PinIds]
  BY DEF LocalOK, Finish, Goto, PCs
<1>2. OthersKept(r) /\ pc'[r] = "done" /\ resp'[r] = response
  BY DEF LocalOK, Finish, Goto, OthersKept
<1>3. HandlerOK(r)
  BY DEF LocalOK, HandlersOK
<1>4. HandlerOK(r)'
  BY <1>1, <1>2, <1>3 DEF HandlerOK
<1>5. HandlersOK'
  BY <1>2, <1>4, HandlersKept DEF LocalOK
<1> QED
  BY <1>1, <1>2, <1>5 DEF LocalOK

\* A handler that goes on to a point it has all it needs for.
LEMMA ContinueOK ==
    ASSUME LocalOK, NEW r \in Reqs, NEW label \in PCs, Continue(r, label),
           HandlerOK(r)'
    PROVE  /\ LocalOK' /\ OthersKept(r) /\ pc'[r] = label
           /\ req' = req /\ pin' = pin /\ resp' = resp
<1>1. /\ pc' \in [Reqs -> PCs] /\ req' = req /\ seen' = seen /\ pin' = pin
      /\ resp' = resp /\ doomed' = doomed
  BY DEF LocalOK, Continue, Goto
<1>2. OthersKept(r) /\ pc'[r] = label
  BY DEF LocalOK, Continue, Goto, OthersKept
<1>3. HandlersOK'
  BY <1>2, HandlersKept DEF LocalOK
<1> QED
  BY <1>1, <1>2, <1>3 DEF LocalOK

LEMMA SeeOK ==
    ASSUME LocalOK, NEW r \in Reqs, NEW row \in User, See(r, row, "identity"),
           req[r].op = "google", pc[r] # "done"
    PROVE  /\ LocalOK' /\ OthersKept(r) /\ pc'[r] = "identity"
           /\ req' = req /\ pin' = pin /\ resp' = resp
<1>1. /\ pc' \in [Reqs -> PCs] /\ seen' \in [Reqs -> User \cup {None}]
      /\ req' = req /\ pin' = pin /\ resp' = resp /\ doomed' = doomed
  BY DEF LocalOK, See, Goto, PCs
<1>2. OthersKept(r) /\ pc'[r] = "identity" /\ seen'[r] = row
  BY DEF LocalOK, See, Goto, OthersKept
<1>3. HandlerOK(r)
  BY DEF LocalOK, HandlersOK
<1>4. HandlerOK(r)'
  BY <1>1, <1>2, <1>3, NoneIsNoRow DEF HandlerOK
<1>5. HandlersOK'
  BY <1>2, <1>4, HandlersKept DEF LocalOK
<1> QED
  BY <1>1, <1>2, <1>5 DEF LocalOK

\* A request arrives, with a PIN or without.
LEMMA BeginOK ==
    ASSUME LocalOK, NEW r \in Reqs, NEW label \in PCs, NEW request \in Request,
           Begin(r, request, label), NEW p \in PinIds \cup {None},
           pin' = [pin EXCEPT ![r] = p],
           HandlerOK(r)'
    PROVE  /\ LocalOK' /\ OthersKept(r) /\ pc'[r] = label /\ req'[r] = request
           /\ pin'[r] = p /\ resp' = resp /\ resp[r] = "none"
<1>1. /\ pc' \in [Reqs -> PCs] /\ req' \in [Reqs -> Request] /\ seen' = seen
      /\ pin' \in [Reqs -> PinIds \cup {None}]
      /\ resp' = resp /\ doomed' = doomed
  BY DEF LocalOK, Begin, Goto
<1>2. OthersKept(r) /\ pc'[r] = label /\ req'[r] = request /\ pin'[r] = p
  BY DEF LocalOK, Begin, Goto, OthersKept
<1>3. resp[r] = "none"
  BY DEF LocalOK, HandlersOK, HandlerOK, Begin
<1>4. HandlersOK'
  BY <1>2, HandlersKept DEF LocalOK
<1> QED
  BY <1>1, <1>2, <1>3, <1>4 DEF LocalOK

-----------------------------------------------------------------------------
(* What a step of one request leaves alone.                                *)

\* A step that touches no PIN, and accepts none.
LEMMA PinsKept ==
    ASSUME NewPin, AcceptedPinSpent, NEW r \in Reqs, OthersKept(r),
           UNCHANGED <<pins, mail>>, pin'[r] = pin[r], pc'[r] # "insert",
           HasConsumed(r)' => HasConsumed(r)
    PROVE  NewPin' /\ AcceptedPinSpent'
<1>1. \A q \in Reqs : pin'[q] = pin[q]
  BY DEF OthersKept
<1>2. \A q \in Reqs : pc'[q] = "insert" => pc[q] = "insert"
  BY DEF OthersKept
<1>3. \A q \in Reqs : HasConsumed(q)' => HasConsumed(q)
  BY DEF OthersKept, HasConsumed
<1>4. NewPin'
  BY <1>1, <1>2 DEF NewPin
<1>5. AcceptedPinSpent'
  BY <1>1, <1>3 DEF AcceptedPinSpent
<1> QED
  BY <1>4, <1>5

\* An account stays with its provider, and r registers none.
LEMMA AccountKept ==
    ASSUME OneAccount, NEW r \in Reqs, OthersKept(r),
           user # None => user' # None /\ user'.provider = user.provider,
           Registered(r)' => Registered(r)
    PROVE  OneAccount'
<1>1. \A q \in Reqs : Registered(q)' => Registered(q)
  BY DEF OthersKept, Registered
<1> QED
  BY <1>1 DEF OneAccount

LEMMA AccountStillThere ==
    ASSUME AccountThere, NEW r \in Reqs, OthersKept(r),
           user # None => user' # None, upgrade' \subseteq upgrade \cup {r},
           pc'[r] \in {"findAgain", "identity"} \/ r \in upgrade' => user' # None
    PROVE  AccountThere'
<1>1. ASSUME NEW q \in Reqs,
             pc'[q] \in {"findAgain", "identity"} \/ q \in upgrade'
      PROVE  user' # None
  <2>1. CASE q = r
    BY <1>1, <2>1
  <2>2. CASE q # r
    BY <1>1, <2>2 DEF OthersKept, AccountThere
  <2> QED
    BY <2>1, <2>2
<1> QED
  BY <1>1 DEF AccountThere

\* The rows that are written are rows.
LEMMA RowTypes ==
    /\ \A u \in User : \A s \in Statuses : [u EXCEPT !.status = s] \in User
    /\ \A u \in User : \A w \in Passwords \cup {None} :
          [u EXCEPT !.password = w, !.legacy = FALSE] \in User
    /\ \A u \in User : \A s \in Statuses :
          [u EXCEPT !.status = s].provider = u.provider
    /\ \A u \in User : \A w \in Passwords \cup {None} :
          [u EXCEPT !.password = w, !.legacy = FALSE].provider = u.provider
    /\ \A x \in Pin : [x EXCEPT !.used = TRUE] \in Pin
    /\ \A x \in Pin : [x EXCEPT !.expired = TRUE] \in Pin
  BY DEF User, Pin, Statuses

LEMMA NewUserType ==
    ASSUME LocalOK, NEW r \in Reqs
    PROVE  /\ NewUser(r) \in User
           /\ req[r].op # "google" => NewUser(r).provider = "local"
<1>1. req[r].password \in Passwords \cup {None}
  BY DEF LocalOK, Request
<1> QED
  BY <1>1 DEF NewUser, User, Statuses

LEMMA CallType ==
    ASSUME NEW op \in Ops
    PROVE  /\ Call(op) \in Request /\ Call(op).op = op
           /\ \A w \in Passwords : [Call(op) EXCEPT !.password = w] \in Request
           /\ \A w \in Passwords : [Call(op) EXCEPT !.password = w].op = op
           /\ \A v, w \in Passwords :
                 [Call(op) EXCEPT !.old = v, !.password = w] \in Request
           /\ \A v, w \in Passwords :
                 [Call(op) EXCEPT !.old = v, !.password = w].op = op
           /\ \A x \in Purposes : [Call(op) EXCEPT !.purpose = x] \in Request
           /\ \A x \in Purposes : /\ [Call(op) EXCEPT !.purpose = x].op = op
                                  /\ [Call(op) EXCEPT !.purpose = x].purpose = x
           /\ \A x \in Purposes, w \in Passwords :
                 /\ [Call(op) EXCEPT !.purpose = x, !.password = w] \in Request
                 /\ [Call(op) EXCEPT !.purpose = x, !.password = w].op = op
  BY DEF Call, Request

-----------------------------------------------------------------------------
(* Arrivals.                                                               *)

LEMMA ArriveInv ==
    ASSUME Inv, NEW r \in Reqs, Arrive(r)
    PROVE  Inv'
<1> USE DEF Inv, TypeInv
<1>1. HandlerOK(r) /\ pin[r] \in PinIds \cup {None} /\ pin = [pin EXCEPT ![r] = pin[r]]
  BY DEF LocalOK, HandlersOK
<1>2. "find" \in PCs /\ "select" \in PCs
  BY DEF PCs
\* A request without a PIN.
<1>3. ASSUME NEW request \in Request, Begin(r, request, "find"), UNCHANGED pin,
             request.op \in {"register", "forgot", "resend", "login", "change",
                             "google"},
             request.op = "resend" => request.purpose # None
      PROVE  Inv'
  <2>1. pin' = [pin EXCEPT ![r] = pin[r]] /\ UNCHANGED <<user, pins, mail, upgrade>>
    BY <1>1, <1>3 DEF Begin, tables
  <2>2. pc[r] = "idle" /\ pc'[r] = "find" /\ req'[r] = request /\ resp' = resp
    BY <1>3 DEF Begin, Goto, LocalOK
  <2>3. HandlerOK(r)'
    BY <1>1, <1>3, <2>2 DEF HandlerOK
  <2>4. LocalOK' /\ OthersKept(r) /\ resp[r] = "none"
    BY <1>1, <1>2, <1>3, <2>1, <2>3, BeginOK
  <2>5. ~ HasConsumed(r)' /\ ~ Registered(r)'
    BY <2>2, <2>4 DEF HasConsumed, Registered
  <2>6. NewPin' /\ AcceptedPinSpent'
    BY <1>3, <2>1, <2>2, <2>4, <2>5, PinsKept
  <2>7. OneAccount'
    BY <2>1, <2>4, <2>5, AccountKept
  <2>8. pc'[r] \in {"findAgain", "identity"} \/ r \in upgrade' => user' # None
    BY <2>1, <2>2 DEF AccountThere
  <2>9. AccountThere'
    BY <2>1, <2>4, <2>8, AccountStillThere
  <2> QED
    BY <2>1, <2>4, <2>6, <2>7, <2>9 DEF TablesOK
\* A request with a PIN that was mailed.
<1>4. ASSUME NEW request \in Request, NEW p \in PinIds, mail[p] # None,
             Begin(r, request, "select"), pin' = [pin EXCEPT ![r] = p],
             request.op \in {"verify", "reset"}
      PROVE  Inv'
  <2>1. UNCHANGED <<user, pins, mail, upgrade>>
    BY <1>4 DEF Begin, tables
  <2>2. /\ pc[r] = "idle" /\ pc'[r] = "select" /\ req'[r] = request /\ resp' = resp
        /\ pin'[r] = p
    BY <1>4 DEF Begin, Goto, LocalOK
  <2>3. HandlerOK(r)'
    BY <1>1, <1>4, <2>2, AccountAssumption DEF HandlerOK
  <2>4. LocalOK' /\ OthersKept(r) /\ resp[r] = "none"
    BY <1>2, <1>4, <2>3, BeginOK
  <2>5. ~ HasConsumed(r)' /\ ~ Registered(r)'
    BY <2>2, <2>4 DEF HasConsumed, Registered
  <2>6. NewPin'
    BY <1>4, <2>1, <2>2, <2>4 DEF NewPin, OthersKept
  <2>7. AcceptedPinSpent'
    BY <2>1, <2>4, <2>5 DEF AcceptedPinSpent, OthersKept, HasConsumed
  <2>8. OneAccount'
    BY <2>1, <2>4, <2>5, AccountKept
  <2>9. pc'[r] \in {"findAgain", "identity"} \/ r \in upgrade' => user' # None
    BY <2>1, <2>2 DEF AccountThere
  <2>10. AccountThere'
    BY <2>1, <2>4, <2>9, AccountStillThere
  <2> QED
    BY <2>1, <2>4, <2>6, <2>7, <2>8, <2>10 DEF TablesOK
<1>5. CASE ForgotPassword(r)
  <2>1. "forgot" \in Ops
    BY DEF Ops
  <2> QED
    BY <1>5, <1>3, <2>1, CallType DEF ForgotPassword
<1>6. CASE GoogleLogin(r)
  <2>1. "google" \in Ops
    BY DEF Ops
  <2> QED
    BY <1>6, <1>3, <2>1, CallType DEF GoogleLogin
<1>7. ASSUME NEW purpose \in Purposes, ResendPIN(r, purpose) PROVE Inv'
  <2>1. "resend" \in Ops
    BY DEF Ops
  <2> DEFINE request == [Call("resend") EXCEPT !.purpose = purpose]
  <2>2. purpose # None
    BY NoneIsNoPurpose
  <2>3. request \in Request /\ request.op = "resend" /\ request.purpose = purpose
    BY <2>1, CallType
  <2>4. Begin(r, request, "find") /\ UNCHANGED pin
    BY <1>7 DEF ResendPIN
  <2> HIDE DEF request
  <2> QED
    BY <1>3, <2>2, <2>3, <2>4
<1>8. ASSUME NEW p \in PinIds, NEW purpose \in Purposes, VerifyPIN(r, p, purpose)
      PROVE  Inv'
  <2>1. "verify" \in Ops
    BY DEF Ops
  <2> QED
    BY <1>8, <1>4, <2>1, CallType DEF VerifyPIN
<1>9. ASSUME NEW w \in Passwords, Register(r, w) PROVE Inv'
  <2>1. "register" \in Ops
    BY DEF Ops
  <2> QED
    BY <1>9, <1>3, <2>1, CallType DEF Register
<1>10. ASSUME NEW w \in Passwords, Login(r, w) PROVE Inv'
  <2>1. "login" \in Ops
    BY DEF Ops
  <2> QED
    BY <1>10, <1>3, <2>1, CallType DEF Login
<1>11. ASSUME NEW v \in Passwords, NEW w \in Passwords, ChangePassword(r, v, w)
       PROVE  Inv'
  <2> DEFINE request == [Call("change") EXCEPT !.old = v, !.password = w]
  <2>2. request \in Request /\ request.op = "change"
    BY DEF Call, Request, Ops
  <2>3. Begin(r, request, "find") /\ UNCHANGED pin
    BY <1>11 DEF ChangePassword
  <2> HIDE DEF request
  <2> QED
    BY <1>3, <2>2, <2>3
<1>12. ASSUME NEW p \in PinIds, NEW w \in Passwords, ResetPassword(r, p, w)
       PROVE  Inv'
  <2> DEFINE request == [Call("reset") EXCEPT !.purpose = "forgot_password",
                                              !.password = w]
  <2>1. "reset" \in Ops /\ "forgot_password" \in Purposes
    BY DEF Ops, Purposes
  <2>2. request \in Request /\ request.op = "reset"
    BY <2>1 DEF Call, Request, Ops
  <2>3. mail[p] # None /\ Begin(r, request, "select") /\ pin' = [pin EXCEPT ![r] = p]
    BY <1>12 DEF ResetPassword
  <2> HIDE DEF request
  <2> QED
    BY <1>4, <2>2, <2>3
<1> QED
  BY <1>5, <1>6, <1>7, <1>8, <1>9, <1>10, <1>11, <1>12 DEF Arrive

-----------------------------------------------------------------------------
(* Steps on the user row.                                                  *)

\* A step of r that touches no PIN, registers nobody, keeps the account and
\* leaves the handlers well typed preserves the invariant.
LEMMA RowStep ==
    ASSUME Inv, NEW r \in Reqs, LocalOK', OthersKept(r), pin' = pin,
           UNCHANGED <<pins, mail>>, user' \in User \cup {None},
           user # None => user' # None /\ user'.provider = user.provider,
           upgrade' \subseteq upgrade \cup {r}, pc'[r] # "insert",
           HasConsumed(r)' => HasConsumed(r),
           Registered(r)' => Registered(r),
           pc'[r] \in {"findAgain", "identity"} \/ r \in upgrade' => user' # None
    PROVE  Inv'
<1>1. TablesOK' /\ upgrade' \subseteq Reqs
  BY DEF Inv, TypeInv, TablesOK
<1>2. NewPin' /\ AcceptedPinSpent'
  BY PinsKept DEF Inv
<1>3. OneAccount'
  BY AccountKept DEF Inv
<1>4. AccountThere'
  BY AccountStillThere DEF Inv, TypeInv
<1> QED
  BY <1>1, <1>2, <1>3, <1>4 DEF Inv, TypeInv

\* A response by a handler that neither consumed a PIN nor registered.
LEMMA FinishStep ==
    ASSUME Inv, NEW r \in Reqs, NEW response \in Responses, Finish(r, response),
           UNCHANGED <<pins, mail>>, user' \in User \cup {None},
           user # None => user' # None /\ user'.provider = user.provider,
           upgrade' \subseteq upgrade \cup {r}, r \in upgrade' => user' # None,
           response = "ok" => /\ req[r].op # "register"
                              /\ req[r].op \in {"verify", "reset"} =>
                                    pc[r] \in {"activate", "store"}
    PROVE  Inv'
<1>1. /\ LocalOK' /\ OthersKept(r) /\ pc'[r] = "done" /\ resp'[r] = response
      /\ req' = req /\ pin' = pin
  BY FinishOK DEF Inv, TypeInv
<1>2. HasConsumed(r)' => HasConsumed(r)
  BY <1>1 DEF HasConsumed
<1>3. Registered(r)' => Registered(r)
  BY <1>1 DEF Registered
<1> QED
  BY <1>1, <1>2, <1>3, RowStep

\* A handler goes on to a point that is past no PIN and no registration.
LEMMA ContinueStep ==
    ASSUME Inv, NEW r \in Reqs, NEW label \in PCs, Continue(r, label),
           UNCHANGED <<user, pins, mail, upgrade>>, HandlerOK(r)',
           label \notin {"insert", "identity"},
           label = "findAgain" => user # None,
           label \in {"activate", "store"} => req[r].op \notin {"verify", "reset"},
           label = "delete" => req[r].op # "register"
    PROVE  Inv'
<1>1. /\ LocalOK' /\ OthersKept(r) /\ pc'[r] = label
      /\ req' = req /\ pin' = pin /\ resp' = resp
  BY ContinueOK DEF Inv, TypeInv
<1>2. HasConsumed(r)' => HasConsumed(r)
  BY <1>1 DEF HasConsumed
<1>3. Registered(r)' => Registered(r)
  BY <1>1 DEF Registered
<1>4. user \in User \cup {None} /\ (r \in upgrade => user # None)
  BY DEF Inv, TypeInv, TablesOK, AccountThere
<1> QED
  BY <1>1, <1>2, <1>3, <1>4, RowStep

LEMMA SeeStep ==
    ASSUME Inv, NEW r \in Reqs, user' \in User, See(r, user', "identity"),
           UNCHANGED <<pins, mail, upgrade>>,
           user # None => user'.provider = user.provider,
           req[r].op = "google", pc[r] # "done"
    PROVE  Inv'
<1>1. /\ LocalOK' /\ OthersKept(r) /\ pc'[r] = "identity"
      /\ req' = req /\ pin' = pin /\ resp' = resp
  <2> DEFINE row == user'
  <2>1. row \in User /\ See(r, row, "identity")
    OBVIOUS
  <2> HIDE DEF row
  <2> QED
    BY <2>1, SeeOK DEF Inv, TypeInv
<1>2. ~ HasConsumed(r)' /\ ~ Registered(r)'
  BY <1>1 DEF HasConsumed, Registered
<1>3. user' # None
  BY NoneIsNoRow
<1> QED
  BY <1>1, <1>2, <1>3, RowStep

\* What FindUser does for each request.
LEMMA FindUserCases ==
    ASSUME NEW r \in Reqs, FindUser(r)
    PROVE  /\ req[r].op = "register" =>
                 (Finish(r, "exists") /\ user # None) \/ Continue(r, "create")
           /\ req[r].op \in {"forgot", "resend"} =>
                 Finish(r, "ok") \/ Continue(r, "delete")
           /\ req[r].op = "login" =>
                 Finish(r, "refused") \/ (Finish(r, "ok") /\ user # None)
           /\ req[r].op = "change" =>
                 Finish(r, "refused") \/ Continue(r, "store")
           /\ req[r].op = "google" =>
                 \/ Continue(r, "create") \/ Finish(r, "refused")
                 \/ See(r, user, "identity") /\ user # None
<1>1. CASE req[r].op = "register"
  BY <1>1 DEF FindUser, FindForRegister, FindForPin, FindForLogin,
                  FindForChange, FindForGoogle
<1>2. CASE req[r].op \in {"forgot", "resend"}
  BY <1>2 DEF FindUser, FindForRegister, FindForPin, FindForLogin,
                  FindForChange, FindForGoogle
<1>3. CASE req[r].op = "login"
  BY <1>3 DEF FindUser, FindForRegister, FindForPin, FindForLogin,
                  FindForChange, FindForGoogle
<1>4. CASE req[r].op = "change"
  BY <1>4 DEF FindUser, FindForRegister, FindForPin, FindForLogin,
                  FindForChange, FindForGoogle
<1>5. CASE req[r].op = "google"
  BY <1>5 DEF FindUser, FindForRegister, FindForPin, FindForLogin,
                  FindForChange, FindForGoogle
<1> QED
  BY <1>1, <1>2, <1>3, <1>4, <1>5

LEMMA FindUserInv ==
    ASSUME Inv, NEW r \in Reqs, FindUser(r)
    PROVE  Inv'
<1>1. /\ pc[r] = "find" /\ HandlerOK(r) /\ user \in User \cup {None}
      /\ UNCHANGED <<user, pins, mail>>
  BY DEF Inv, TypeInv, LocalOK, HandlersOK, TablesOK, FindUser, tables
<1>2. req[r].op \in {"register", "forgot", "resend", "login", "change", "google"}
  BY <1>1 DEF HandlerOK
<1>3. {"exists", "ok", "refused"} \subseteq Responses
  BY DEF Responses
<1>4. {"create", "delete", "store"} \subseteq PCs
  BY DEF PCs
<1>5. upgrade' \subseteq upgrade \cup {r}
  BY DEF FindUser
<1>6. r \in upgrade => user # None
  BY DEF Inv, TypeInv, AccountThere
<1>7. ASSUME NEW response \in {"exists", "ok", "refused"}, Finish(r, response),
             response = "ok" /\ req[r].op = "login" => user # None,
             response = "ok" => req[r].op # "register"
      PROVE  Inv'
  <2>1. resp'[r] = response
    BY <1>7 DEF Finish, Inv, TypeInv, LocalOK
  <2>2. r \in upgrade' => user' # None
    BY <1>1, <1>6, <1>7, <2>1 DEF FindUser
  <2> QED
    BY <1>1, <1>2, <1>3, <1>5, <1>7, <2>2, FinishStep
<1>8. ASSUME NEW label \in {"create", "delete", "store"}, Continue(r, label),
             label = "create" => req[r].op \in {"register", "google"},
             label = "delete" => req[r].op \in {"forgot", "resend"},
             label = "store" => req[r].op = "change"
      PROVE  Inv'
  <2>1. pc'[r] = label /\ UNCHANGED <<req, seen, pin, resp>>
    BY <1>8 DEF Continue, Goto, Inv, TypeInv, LocalOK
  <2>2. HandlerOK(r)'
    BY <1>1, <1>8, <2>1 DEF HandlerOK
  <2>3. resp'[r] # "ok"
    BY <1>1, <2>1 DEF HandlerOK
  <2>4. upgrade' = upgrade
    BY <2>3 DEF FindUser
  <2> QED
    BY <1>1, <1>4, <1>8, <2>2, <2>4, ContinueStep
<1>9. CASE req[r].op = "google" /\ user # None /\ See(r, user, "identity")
  <2>1. upgrade' = upgrade
    BY <1>9 DEF FindUser
  <2> QED
    BY <1>1, <1>9, <2>1, SeeStep
<1> QED
  BY <1>2, <1>7, <1>8, <1>9, FindUserCases

\* Register goes on without knowing whether the account exists.
LEMMA FindFailsInv ==
    ASSUME Inv, NEW r \in Reqs, FindFails(r)
    PROVE  Inv'
<1>1. /\ pc[r] = "find" /\ HandlerOK(r) /\ user \in User \cup {None}
      /\ UNCHANGED <<user, pins, mail, upgrade>>
  BY DEF Inv, TypeInv, LocalOK, HandlersOK, TablesOK, FindFails, tables
<1>2. r \in upgrade => user # None
  BY DEF Inv, TypeInv, AccountThere
<1>3. "create" \in PCs /\ "ok" \in Responses /\ "error" \in Responses
  BY DEF PCs, Responses
<1>4. \/ req[r].op = "register" /\ Continue(r, "create")
      \/ req[r].op \in {"forgot", "resend"} /\ Finish(r, "ok")
      \/ Finish(r, "error")
  BY DEF FindFails
<1>5. CASE req[r].op = "register" /\ Continue(r, "create")
  <2>1. pc'[r] = "create" /\ UNCHANGED <<req, seen, pin, resp>>
    BY <1>5 DEF Continue, Goto, Inv, TypeInv, LocalOK
  <2>2. HandlerOK(r)'
    BY <1>1, <1>5, <2>1 DEF HandlerOK
  <2> QED
    BY <1>1, <1>3, <1>5, <2>2, ContinueStep
<1>6. CASE req[r].op \in {"forgot", "resend"} /\ Finish(r, "ok")
  BY <1>1, <1>2, <1>3, <1>6, FinishStep
<1>7. CASE Finish(r, "error")
  BY <1>1, <1>2, <1>3, <1>7, FinishStep
<1> QED
  BY <1>4, <1>5, <1>6, <1>7

\* The insert that succeeds is the only one that registers the account.
LEMMA CreateUserInv ==
    ASSUME Inv, NEW r \in Reqs, CreateUser(r)
    PROVE  Inv'
<1>1. /\ pc[r] = "create" /\ HandlerOK(r) /\ user \in User \cup {None}
      /\ UNCHANGED <<pins, mail, upgrade>> /\ (r \in upgrade => user # None)
  BY DEF Inv, TypeInv, LocalOK, HandlersOK, TablesOK, AccountThere, CreateUser
<1>2. req[r].op \in {"register", "google"}
  BY <1>1 DEF HandlerOK
<1>3. {"delete", "findAgain"} \subseteq PCs /\ "exists" \in Responses
  BY DEF PCs, Responses
<1>4. NewUser(r) \in User /\ (req[r].op # "google" => NewUser(r).provider = "local")
  BY NewUserType DEF Inv, TypeInv
<1>5. CASE user = None /\ req[r].op = "google"
  <2>1. user' \in User /\ See(r, user', "identity")
    BY <1>4, <1>5 DEF CreateUser
  <2> QED
    BY <1>1, <1>5, <2>1, SeeStep
<1>6. CASE user = None /\ req[r].op = "register"
  <2>1. user' = NewUser(r) /\ user' # None /\ Continue(r, "delete")
    BY <1>4, <1>6, NoneIsNoRow DEF CreateUser
  <2>2. pc'[r] = "delete" /\ UNCHANGED <<req, seen, pin, resp>>
    BY <2>1 DEF Continue, Goto, Inv, TypeInv, LocalOK
  <2>3. HandlerOK(r)'
    BY <1>1, <1>6, <2>2 DEF HandlerOK
  <2>4. LocalOK' /\ OthersKept(r)
    BY <1>3, <2>1, <2>3, ContinueOK DEF Inv, TypeInv
  <2>5. TablesOK' /\ upgrade' \subseteq Reqs
    BY <1>1, <1>4, <2>1 DEF Inv, TypeInv, TablesOK
  <2>6. AccountThere'
    BY <2>1 DEF AccountThere
  <2>7. ~ HasConsumed(r)'
    BY <1>6, <2>2 DEF HasConsumed
  <2>8. NewPin' /\ AcceptedPinSpent'
    BY <1>1, <2>2, <2>4, <2>7, PinsKept DEF Inv
  <2>9. \A q \in Reqs : q # r => ~ Registered(q)'
    BY <1>6, <2>4 DEF Inv, OneAccount, OthersKept, Registered
  <2>10. OneAccount'
    BY <1>4, <1>6, <2>1, <2>9 DEF OneAccount
  <2> QED
    BY <2>4, <2>5, <2>6, <2>8, <2>10 DEF Inv, TypeInv
<1>7. CASE user # None /\ req[r].op = "google"
  <2>1. user' = user /\ Continue(r, "findAgain")
    BY <1>7 DEF CreateUser
  <2>2. pc'[r] = "findAgain" /\ UNCHANGED <<req, seen, pin, resp>>
    BY <2>1 DEF Continue, Goto, Inv, TypeInv, LocalOK
  <2>3. HandlerOK(r)'
    BY <1>1, <1>7, <2>2 DEF HandlerOK
  <2> QED
    BY <1>1, <1>3, <1>7, <2>1, <2>3, ContinueStep
<1>8. CASE user # None /\ req[r].op = "register"
  <2>1. user' = user /\ Finish(r, "exists")
    BY <1>8 DEF CreateUser
  <2> QED
    BY <1>1, <1>3, <1>8, <2>1, FinishStep
<1> QED
  BY <1>2, <1>5, <1>6, <1>7, <1>8

LEMMA FindAgainInv ==
    ASSUME Inv, NEW r \in Reqs, FindAgain(r)
    PROVE  Inv'
<1>1. /\ pc[r] = "findAgain" /\ HandlerOK(r) /\ user \in User /\ user # None
      /\ UNCHANGED <<user, pins, mail, upgrade>>
  BY DEF Inv, TypeInv, LocalOK, HandlersOK, TablesOK, AccountThere, FindAgain, tables
<1>2. req[r].op = "google"
  BY <1>1 DEF HandlerOK
<1>3. CASE Finish(r, "refused")
  <2>1. "refused" \in Responses
    BY DEF Responses
  <2> QED
    BY <1>1, <1>3, <2>1, FinishStep
<1>4. CASE See(r, user, "identity")
  BY <1>1, <1>2, <1>4, SeeStep
<1> QED
  BY <1>3, <1>4 DEF FindAgain

\* A response after an update of the row that is there.
LEMMA UpdateInv ==
    ASSUME Inv, NEW r \in Reqs,
           UpdateIdentity(r) \/ Activate(r) \/ UpdatePasswordHash(r)
    PROVE  Inv'
<1>1. /\ HandlerOK(r) /\ user \in User \cup {None} /\ req[r] \in Request
      /\ UNCHANGED <<pins, mail, upgrade>> /\ (r \in upgrade => user # None)
  BY DEF Inv, TypeInv, LocalOK, HandlersOK, TablesOK, AccountThere,
         UpdateIdentity, Activate, UpdatePasswordHash
<1>2. "ok" \in Responses /\ "error" \in Responses /\ "ACTIVE" \in Statuses
  BY DEF Responses, Statuses
<1>3. ASSUME user \in User, user' \in User, user'.provider = user.provider,
             Finish(r, "ok"), pc[r] \in {"identity", "activate", "store"}
      PROVE  Inv'
  <2>1. /\ req[r].op # "register"
        /\ req[r].op \in {"verify", "reset"} => pc[r] \in {"activate", "store"}
    BY <1>1, <1>3 DEF HandlerOK
  <2>2. user' # None
    BY <1>3, NoneIsNoRow
  <2> QED
    BY <1>1, <1>2, <1>3, <2>1, <2>2, FinishStep
<1>4. ASSUME user' = user, Finish(r, "error") PROVE Inv'
  BY <1>1, <1>2, <1>4, FinishStep
<1>5. CASE UpdateIdentity(r)
  <2>1. user \in User
    BY <1>1, <1>5 DEF Inv, TypeInv, AccountThere, UpdateIdentity
  <2>2. Finish(r, "ok") /\ pc[r] = "identity"
    BY <1>5 DEF UpdateIdentity
  <2>3. user' \in User /\ user'.provider = user.provider
    BY <1>2, <1>5, <2>1, RowTypes DEF UpdateIdentity
  <2> QED
    BY <1>3, <2>1, <2>2, <2>3
<1>6. CASE Activate(r)
  <2>1. CASE user = None
    BY <1>4, <1>6, <2>1 DEF Activate
  <2>2. CASE user # None
    <3>1. /\ Finish(r, "ok") /\ pc[r] = "activate" /\ user \in User
          /\ user' = [user EXCEPT !.status = "ACTIVE"]
      BY <1>1, <1>6, <2>2 DEF Activate
    <3>2. user' \in User /\ user'.provider = user.provider
      BY <1>2, <3>1, RowTypes
    <3> QED
      BY <1>3, <3>1, <3>2
  <2> QED
    BY <2>1, <2>2
<1>7. CASE UpdatePasswordHash(r)
  <2>1. req[r].password \in Passwords \cup {None}
    BY <1>1 DEF Request
  <2>2. CASE user = None
    BY <1>4, <1>7, <2>2 DEF UpdatePasswordHash
  <2>3. CASE user # None
    <3>1. /\ Finish(r, "ok") /\ pc[r] = "store" /\ user \in User
          /\ user' = [user EXCEPT !.password = req[r].password, !.legacy = FALSE]
      BY <1>1, <1>7, <2>3 DEF UpdatePasswordHash
    <3>2. user' \in User /\ user'.provider = user.provider
      BY <2>1, <3>1, RowTypes
    <3> QED
      BY <1>3, <3>1, <3>2
  <2> QED
    BY <2>2, <2>3
<1> QED
  BY <1>5, <1>6, <1>7

LEMMA AbortInv ==
    ASSUME Inv, NEW r \in Reqs, Abort(r)
    PROVE  Inv'
<1>1. /\ user \in User \cup {None} /\ UNCHANGED <<user, pins, mail, upgrade>>
      /\ (r \in upgrade => user # None) /\ "error" \in Responses
  BY DEF Inv, TypeInv, TablesOK, AccountThere, Abort, tables, Responses
<1> QED
  BY <1>1, FinishStep DEF Abort

-----------------------------------------------------------------------------
(* Steps that belong to no handler.                                        *)

LEMMA TableStep ==
    ASSUME Inv, UNCHANGED local, UNCHANGED mail, user' \in User \cup {None},
           pins' \in [PinIds -> Pin \cup {None}], upgrade' \subseteq upgrade,
           user # None => user' # None /\ user'.provider = user.provider,
           \A p \in PinIds : pins[p] = None => pins'[p] = None,
           \A p \in PinIds : pins[p] # None /\ pins[p].used =>
                                 pins'[p] = None \/ pins'[p].used
    PROVE  Inv'
<1>1. UNCHANGED <<pc, req, seen, pin, doomed, resp>>
  BY DEF local
<1>2. LocalOK'
  BY <1>1 DEF Inv, TypeInv, LocalOK, HandlersOK, HandlerOK
<1>3. TablesOK' /\ upgrade' \subseteq Reqs /\ AccountThere'
  BY <1>1 DEF Inv, TypeInv, TablesOK, AccountThere
<1>4. \A r \in Reqs : pc[r] = "insert" \/ HasConsumed(r) => pin[r] \in PinIds
  <2>1. ASSUME NEW r \in Reqs, pc[r] = "insert" \/ HasConsumed(r)
        PROVE  pin[r] \in PinIds
    <3>1. HandlerOK(r) /\ pin[r] \in PinIds \cup {None}
      BY DEF Inv, TypeInv, LocalOK, HandlersOK
    <3> QED
      BY <2>1, <3>1 DEF HandlerOK, HasConsumed
  <2> QED
    BY <2>1
<1>5. NewPin'
  BY <1>1, <1>4 DEF Inv, NewPin
<1>6. AcceptedPinSpent'
  <2>1. ASSUME NEW r \in Reqs, HasConsumed(r)'
        PROVE  pins'[pin[r]] = None \/ pins'[pin[r]].used
    <3>1. HasConsumed(r)
      BY <1>1, <2>1 DEF HasConsumed
    <3>2. pin[r] \in PinIds /\ (pins[pin[r]] = None \/ pins[pin[r]].used)
      BY <1>4, <3>1 DEF Inv, AcceptedPinSpent
    <3> QED
      BY <3>2
  <2> QED
    BY <1>1, <2>1 DEF AcceptedPinSpent
<1>7. OneAccount'
  BY <1>1 DEF Inv, OneAccount, Registered
<1> QED
  BY <1>2, <1>3, <1>5, <1>6, <1>7 DEF Inv, TypeInv

LEMMA RehashInv ==
    ASSUME Inv, NEW r \in Reqs, Rehash(r) \/ RehashFails(r)
    PROVE  Inv'
<1>1. /\ user \in User /\ pins \in [PinIds -> Pin \cup {None}]
      /\ req[r].password \in Passwords \cup {None}
  BY DEF Inv, TypeInv, TablesOK, LocalOK, Request, AccountThere, Rehash, RehashFails
<1>2. CASE Rehash(r)
  <2>1. /\ user' = [user EXCEPT !.password = req[r].password, !.legacy = FALSE]
        /\ UNCHANGED local /\ UNCHANGED <<pins, mail>> /\ upgrade' \subseteq upgrade
    BY <1>2 DEF Rehash
  <2>2. user' \in User /\ user'.provider = user.provider
    BY <1>1, <2>1, RowTypes
  <2>3. user' # None
    BY <2>2, NoneIsNoRow
  <2> QED
    BY <1>1, <2>1, <2>2, <2>3, TableStep
<1>3. CASE RehashFails(r)
  BY <1>1, <1>3, TableStep DEF RehashFails, tables
<1> QED
  BY <1>2, <1>3

LEMMA UpdateUserStatusInv ==
    ASSUME Inv, NEW status \in AdminStatuses, UpdateUserStatus(status)
    PROVE  Inv'
<1>1. user \in User /\ pins \in [PinIds -> Pin \cup {None}] /\ status \in Statuses
  BY AccountAssumption
     DEF Inv, TypeInv, TablesOK, Statuses, UpdateUserStatus
<1>2. user' \in User /\ user'.provider = user.provider /\ user' # None
  <2>1. user' = [user EXCEPT !.status = status]
    BY DEF UpdateUserStatus
  <2>2. user' \in User /\ user'.provider = user.provider
    BY <1>1, <2>1, RowTypes
  <2> QED
    BY <2>2, NoneIsNoRow
<1>3. UNCHANGED local /\ UNCHANGED <<pins, mail>> /\ upgrade' \subseteq upgrade
  BY DEF UpdateUserStatus
<1> QED
  BY <1>1, <1>2, <1>3, TableStep

LEMMA PinExpiresInv ==
    ASSUME Inv, NEW p \in PinIds, PinExpires(p)
    PROVE  Inv'
<1>1. pins \in [PinIds -> Pin \cup {None}] /\ pins[p] \in Pin /\ user \in User \cup {None}
  BY DEF Inv, TypeInv, TablesOK, PinExpires
<1>2. pins' = [pins EXCEPT ![p] = [pins[p] EXCEPT !.expired = TRUE]]
  BY DEF PinExpires
<1>3. /\ [pins[p] EXCEPT !.expired = TRUE] \in Pin
      /\ [pins[p] EXCEPT !.expired = TRUE].used = pins[p].used
  BY <1>1, RowTypes DEF Pin
<1>4. pins' \in [PinIds -> Pin \cup {None}]
  BY <1>1, <1>2, <1>3
<1>5. /\ \A x \in PinIds : pins[x] = None => pins'[x] = None
      /\ \A x \in PinIds : pins[x] # None /\ pins[x].used =>
                               pins'[x] = None \/ pins'[x].used
  BY <1>1, <1>2, <1>3, NoneIsNoRow
<1>6. UNCHANGED local /\ UNCHANGED <<user, mail>> /\ upgrade' \subseteq upgrade
  BY DEF PinExpires
<1> QED
  BY <1>1, <1>4, <1>5, <1>6, TableStep

LEMMA StutterInv ==
    ASSUME Inv, UNCHANGED vars
    PROVE  Inv'
<1>1. user \in User \cup {None} /\ pins \in [PinIds -> Pin \cup {None}]
  BY DEF Inv, TypeInv, TablesOK
<1>2. UNCHANGED local /\ UNCHANGED <<user, pins, mail, upgrade>>
  BY DEF vars, local
<1> QED
  BY <1>1, <1>2, TableStep

-----------------------------------------------------------------------------
(* PINs.                                                                   *)

\* The code that CreatePin is going to insert is nobody's.
LEMMA DeletePinsInv ==
    ASSUME Inv, NEW r \in Reqs, DeletePins(r)
    PROVE  Inv'
<1>1. PICK p \in Fresh : pin' = [pin EXCEPT ![r] = p]
  BY DEF DeletePins
<1>2. /\ p \in PinIds /\ p # None /\ pins[p] = None /\ mail[p] = None
      /\ \A q \in Reqs : pin[q] # p
  BY AccountAssumption DEF Fresh
<1>3. /\ pc[r] = "delete" /\ HandlerOK(r)
      /\ UNCHANGED <<user, pins, mail, upgrade, req, seen, resp>>
  BY DEF DeletePins, tables, Inv, TypeInv, LocalOK, HandlersOK
<1>4. pc'[r] = "insert" /\ pin'[r] = p /\ OthersKept(r)
  BY <1>1, <1>3 DEF DeletePins, Goto, Inv, TypeInv, LocalOK, OthersKept
<1>5. HandlerOK(r)'
  BY <1>2, <1>3, <1>4 DEF HandlerOK
<1>6. LocalOK'
  <2>1. /\ pc' \in [Reqs -> PCs] /\ pin' \in [Reqs -> PinIds \cup {None}]
        /\ doomed' \in [Reqs -> SUBSET PinIds]
    BY <1>1, <1>2 DEF DeletePins, Goto, PCs, Unused, Inv, TypeInv, LocalOK
  <2> QED
    BY <1>3, <1>4, <1>5, <2>1, HandlersKept DEF Inv, TypeInv, LocalOK
<1>7. TablesOK' /\ upgrade' \subseteq Reqs
  BY <1>3 DEF Inv, TypeInv, TablesOK
<1>8. AccountThere'
  BY <1>3, <1>4 DEF Inv, TypeInv, AccountThere, OthersKept
<1>9. NewPin'
  <2>1. ASSUME NEW q \in Reqs, pc'[q] = "insert"
        PROVE  /\ pins[pin'[q]] = None /\ mail[pin'[q]] = None
               /\ \A x \in Reqs : x # q => pin'[x] # pin'[q]
    <3>1. CASE q = r
      BY <1>2, <1>4, <3>1 DEF OthersKept
    <3>2. CASE q # r
      <4>1. pc[q] = "insert" /\ pin'[q] = pin[q]
        BY <1>4, <2>1, <3>2 DEF OthersKept
      <4> QED
        BY <1>2, <1>4, <4>1 DEF Inv, NewPin, OthersKept
    <3> QED
      BY <3>1, <3>2
  <2> QED
    BY <1>3, <2>1 DEF NewPin
<1>10. ~ HasConsumed(r)'
  BY <1>3, <1>4 DEF HandlerOK, HasConsumed
<1>11. AcceptedPinSpent'
  BY <1>3, <1>4, <1>10 DEF Inv, AcceptedPinSpent, HasConsumed, OthersKept
<1>12. Registered(r)' => Registered(r)
  BY <1>3, <1>4 DEF Registered
<1>13. OneAccount'
  BY <1>3, <1>4, <1>12, AccountKept DEF Inv
<1> QED
  BY <1>6, <1>7, <1>8, <1>9, <1>11, <1>13 DEF Inv, TypeInv

LEMMA PurposeTypes ==
    ASSUME LocalOK, NEW r \in Reqs, pc[r] = "insert"
    PROVE  IssuedPurpose(r) \in Purposes /\ MailedPurpose(r) \in Purposes
<1>1. /\ req[r].op \in {"register", "forgot", "resend"}
      /\ req[r].op = "resend" => req[r].purpose \in Purposes
  <2>1. HandlerOK(r) /\ req[r].purpose \in Purposes \cup {None}
    BY DEF LocalOK, HandlersOK, Request
  <2> QED
    BY <2>1 DEF HandlerOK
<1>2. {"register", "forgot_password", "verify"} \subseteq Purposes
  BY DEF Purposes
<1>3. CASE req[r].op = "register"
  BY <1>2, <1>3 DEF IssuedPurpose, MailedPurpose
<1>4. CASE req[r].op = "forgot"
  BY <1>2, <1>4 DEF IssuedPurpose, MailedPurpose
<1>5. CASE req[r].op = "resend"
  BY <1>1, <1>2, <1>5 DEF IssuedPurpose, MailedPurpose
<1> QED
  BY <1>1, <1>3, <1>4, <1>5

\* The new row replaces none that a request has consumed.
LEMMA CreatePinInv ==
    ASSUME Inv, NEW r \in Reqs, CreatePin(r)
    PROVE  Inv'
<1>1. /\ pc[r] = "insert" /\ HandlerOK(r) /\ UNCHANGED <<user, upgrade>>
      /\ Finish(r, "ok") /\ "ok" \in Responses
  BY DEF CreatePin, Inv, TypeInv, LocalOK, HandlersOK, Responses
<1>2. /\ LocalOK' /\ OthersKept(r) /\ pc'[r] = "done" /\ resp'[r] = "ok"
      /\ req' = req /\ pin' = pin
  BY <1>1, FinishOK DEF Inv, TypeInv
<1>3. pin[r] \in PinIds /\ req[r].op \in {"register", "forgot", "resend"}
  BY <1>1 DEF Inv, TypeInv, LocalOK, HandlerOK
<1>4. IssuedPurpose(r) \in Purposes /\ MailedPurpose(r) \in Purposes
  BY <1>1, PurposeTypes DEF Inv, TypeInv
<1>5. /\ pins' \in [PinIds -> Pin \cup {None}]
      /\ \A p \in PinIds : p # pin[r] => pins'[p] = pins[p] \/ pins'[p] = None
  <2> DEFINE row == [purpose |-> IssuedPurpose(r), used |-> FALSE, expired |-> FALSE]
  <2>1. row \in Pin /\ pins \in [PinIds -> Pin \cup {None}]
    BY <1>4 DEF Pin, Inv, TypeInv, TablesOK
  <2>2. \/ pins' = [p \in PinIds |-> IF p = pin[r] THEN row
                                     ELSE IF p \in doomed[r] THEN None ELSE pins[p]]
        \/ pins' = pins
    BY DEF CreatePin
  <2> HIDE DEF row
  <2> QED
    BY <2>1, <2>2
<1>6. /\ mail' \in [PinIds -> Purposes \cup {None}]
      /\ \A p \in PinIds : p # pin[r] => mail'[p] = mail[p]
  BY <1>4 DEF CreatePin, Inv, TypeInv, TablesOK
<1>7. \A q \in Reqs : q # r => pin[q] # pin[r]
  BY <1>1 DEF Inv, NewPin
<1>8. TablesOK' /\ upgrade' \subseteq Reqs
  BY <1>1, <1>5, <1>6 DEF Inv, TypeInv, TablesOK
<1>9. AccountThere'
  BY <1>1, <1>2 DEF Inv, TypeInv, AccountThere, OthersKept
<1>10. NewPin'
  <2>1. ASSUME NEW q \in Reqs, pc'[q] = "insert"
        PROVE  /\ pins'[pin[q]] = None /\ mail'[pin[q]] = None
               /\ \A x \in Reqs : x # q => pin[x] # pin[q]
    <3>1. q # r /\ pc[q] = "insert"
      BY <1>2, <2>1 DEF OthersKept
    <3>2. pin[q] \in PinIds
      BY <3>1 DEF Inv, TypeInv, LocalOK, HandlersOK, HandlerOK
    <3> QED
      BY <1>5, <1>6, <1>7, <3>1, <3>2 DEF Inv, NewPin
  <2> QED
    BY <1>2, <2>1 DEF NewPin
<1>11. AcceptedPinSpent'
  <2>1. ASSUME NEW q \in Reqs, HasConsumed(q)'
        PROVE  pins'[pin[q]] = None \/ pins'[pin[q]].used
    <3>1. q # r /\ HasConsumed(q)
      BY <1>2, <1>3, <2>1 DEF OthersKept, HasConsumed
    <3>2. pin[q] \in PinIds
      BY <3>1 DEF Inv, TypeInv, LocalOK, HandlersOK, HandlerOK, HasConsumed
    <3> QED
      BY <1>5, <1>7, <3>1, <3>2 DEF Inv, AcceptedPinSpent
  <2> QED
    BY <1>2, <2>1 DEF AcceptedPinSpent
<1>12. Registered(r)' => Registered(r)
  BY <1>1, <1>2 DEF Registered
<1>13. OneAccount'
  BY <1>1, <1>2, <1>12, AccountKept DEF Inv
<1> QED
  BY <1>2, <1>8, <1>9, <1>10, <1>11, <1>13 DEF Inv, TypeInv

LEMMA SelectPinInv ==
    ASSUME Inv, NEW r \in Reqs, SelectPin(r)
    PROVE  Inv'
<1>1. /\ pc[r] = "select" /\ HandlerOK(r) /\ user \in User \cup {None}
      /\ UNCHANGED <<user, pins, mail, upgrade>> /\ (r \in upgrade => user # None)
  BY DEF SelectPin, tables, Inv, TypeInv, TablesOK, LocalOK, HandlersOK, AccountThere
<1>2. "consume" \in PCs /\ "invalid" \in Responses
  BY DEF PCs, Responses
<1>3. CASE Continue(r, "consume")
  <2>1. pc'[r] = "consume" /\ UNCHANGED <<req, seen, pin, resp>>
    BY <1>3 DEF Continue, Goto, Inv, TypeInv, LocalOK
  <2>2. HandlerOK(r)'
    BY <1>1, <2>1 DEF HandlerOK
  <2> QED
    BY <1>1, <1>2, <1>3, <2>2, ContinueStep
<1>4. CASE Finish(r, "invalid")
  BY <1>1, <1>2, <1>4, FinishStep
<1> QED
  BY <1>3, <1>4 DEF SelectPin

\* The PIN is used, or was replaced, when the request goes on with it.
LEMMA ConsumePinInv ==
    ASSUME Inv, NEW r \in Reqs, ConsumePin(r)
    PROVE  Inv'
<1>1. /\ pc[r] = "consume" /\ HandlerOK(r) /\ UNCHANGED <<user, mail, upgrade>>
      /\ Accepted(r)
  BY DEF ConsumePin, Inv, TypeInv, LocalOK, HandlersOK
<1>2. req[r].op \in {"verify", "reset"} /\ pin[r] \in PinIds
  BY <1>1 DEF Inv, TypeInv, LocalOK, HandlerOK
<1>3. {"store", "activate"} \subseteq PCs /\ "ok" \in Responses
  BY DEF PCs, Responses
<1>4. /\ LocalOK' /\ OthersKept(r) /\ req' = req /\ pin' = pin
      /\ pc'[r] \in {"store", "activate", "done"}
  <2>1. \/ req[r].op = "reset" /\ Continue(r, "store")
        \/ req[r].op = "verify" /\ Continue(r, "activate")
        \/ Finish(r, "ok")
    BY <1>1, <1>2 DEF Accepted
  <2>2. ASSUME NEW label \in {"store", "activate"}, Continue(r, label),
               label = "store" => req[r].op = "reset",
               label = "activate" => req[r].op = "verify"
        PROVE  /\ LocalOK' /\ OthersKept(r) /\ req' = req /\ pin' = pin
               /\ pc'[r] = label
    <3>1. pc'[r] = label /\ UNCHANGED <<req, seen, pin, resp>>
      BY <2>2 DEF Continue, Goto, Inv, TypeInv, LocalOK
    <3>2. HandlerOK(r)'
      BY <1>1, <2>2, <3>1 DEF HandlerOK
    <3> QED
      BY <1>3, <2>2, <3>2, ContinueOK DEF Inv, TypeInv
  <2>3. CASE Finish(r, "ok")
    BY <1>3, <2>3, FinishOK DEF Inv, TypeInv
  <2> QED
    BY <2>1, <2>2, <2>3
<1>5. /\ pins' \in [PinIds -> Pin \cup {None}]
      /\ pins'[pin[r]] = None \/ pins'[pin[r]].used
      /\ \A p \in PinIds : p # pin[r] => pins'[p] = pins[p]
      /\ \A p \in PinIds : pins[p] = None => pins'[p] = None
  <2> DEFINE row == IF pins[pin[r]] = None THEN None
                    ELSE [pins[pin[r]] EXCEPT !.used = TRUE]
  <2>1. pins \in [PinIds -> Pin \cup {None}] /\ pins' = [pins EXCEPT ![pin[r]] = row]
    BY DEF ConsumePin, Inv, TypeInv, TablesOK
  <2>2. /\ row \in Pin \cup {None} /\ (row = None \/ row.used)
        /\ pins[pin[r]] = None => row = None
    <3>1. CASE pins[pin[r]] = None
      BY <3>1
    <3>2. CASE pins[pin[r]] # None
      <4>1. pins[pin[r]] \in Pin
        BY <1>2, <2>1, <3>2
      <4>2. row \in Pin /\ row.used
        BY <3>2, <4>1, RowTypes DEF Pin
      <4> QED
        BY <3>2, <4>2
    <3> QED
      BY <3>1, <3>2
  <2> HIDE DEF row
  <2> QED
    BY <1>2, <2>1, <2>2
<1>6. TablesOK' /\ upgrade' \subseteq Reqs
  BY <1>1, <1>5 DEF Inv, TypeInv, TablesOK
<1>7. AccountThere'
  BY <1>1, <1>4 DEF Inv, TypeInv, AccountThere, OthersKept
<1>8. NewPin'
  <2>1. ASSUME NEW q \in Reqs, pc'[q] = "insert"
        PROVE  pins'[pin[q]] = None /\ pc[q] = "insert"
    <3>1. q # r /\ pc[q] = "insert"
      BY <1>4, <2>1 DEF OthersKept
    <3>2. pin[q] \in PinIds
      BY <3>1 DEF Inv, TypeInv, LocalOK, HandlersOK, HandlerOK
    <3> QED
      BY <1>5, <3>1, <3>2 DEF Inv, NewPin
  <2> QED
    BY <1>1, <1>4, <2>1 DEF Inv, NewPin
<1>9. AcceptedPinSpent'
  <2>1. ASSUME NEW q \in Reqs, HasConsumed(q)'
        PROVE  pins'[pin[q]] = None \/ pins'[pin[q]].used
    <3>1. CASE pin[q] = pin[r]
      BY <1>5, <3>1
    <3>2. CASE pin[q] # pin[r]
      <4>1. q # r /\ HasConsumed(q)
        BY <1>4, <2>1, <3>2 DEF OthersKept, HasConsumed
      <4>2. pin[q] \in PinIds
        BY <4>1 DEF Inv, TypeInv, LocalOK, HandlersOK, HandlerOK, HasConsumed
      <4> QED
        BY <1>5, <3>2, <4>1, <4>2 DEF Inv, AcceptedPinSpent
    <3> QED
      BY <3>1, <3>2
  <2> QED
    BY <1>4, <2>1 DEF AcceptedPinSpent
<1>10. ~ Registered(r)'
  BY <1>2, <1>4 DEF Registered
<1>11. OneAccount'
  BY <1>1, <1>4, <1>10, AccountKept DEF Inv
<1> QED
  BY <1>4, <1>6, <1>7, <1>8, <1>9, <1>11 DEF Inv, TypeInv

-----------------------------------------------------------------------------
(* The theorems.                                                           *)

LEMMA InitInv == Init => Inv
<1> SUFFICES ASSUME Init PROVE Inv
  OBVIOUS
<1>1. Call("none") \in Request /\ Call("none").op = "none"
  BY DEF Call, Request, Ops
<1>2. \A r \in Reqs : HandlerOK(r)
  BY <1>1 DEF Init, HandlerOK
<1>3. LocalOK
  BY <1>1, <1>2 DEF Init, LocalOK, HandlersOK, PCs, Responses
<1>4. TablesOK
  <2>1. user \in User \cup {None}
    <3>1. CASE user = None
      BY <3>1
    <3>2. ASSUME NEW w \in Passwords,
                 user = [status |-> "ACTIVE", provider |-> "local",
                         password |-> w, legacy |-> TRUE]
          PROVE  user \in User
      BY <3>2 DEF User, Statuses
    <3> QED
      BY <3>1, <3>2 DEF Init
  <2>2. /\ pins \in [PinIds -> Pin \cup {None}]
        /\ mail \in [PinIds -> Purposes \cup {None}]
    BY DEF Init
  <2> QED
    BY <2>1, <2>2 DEF TablesOK
<1>5. NewPin /\ AccountThere /\ upgrade \subseteq Reqs
  BY DEF Init, NewPin, AccountThere
<1>6. AcceptedPinSpent /\ OneAccount
  BY <1>1 DEF Init, AcceptedPinSpent, HasConsumed, OneAccount, Registered
<1> QED
  BY <1>3, <1>4, <1>5, <1>6 DEF Inv, TypeInv

LEMMA NextInv == Inv /\ [Next]_vars => Inv'
<1> SUFFICES ASSUME Inv, [Next]_vars PROVE Inv'
  OBVIOUS
<1>1. ASSUME NEW r \in Reqs, Step(r) PROVE Inv'
  BY <1>1, FindUserInv, CreateUserInv, FindAgainInv, UpdateInv, DeletePinsInv,
     CreatePinInv, SelectPinInv, ConsumePinInv DEF Step
<1>2. ASSUME NEW r \in Reqs,
             FindFails(r) \/ Abort(r) \/ Rehash(r) \/ RehashFails(r)
      PROVE  Inv'
  BY <1>2, FindFailsInv, AbortInv, RehashInv
<1>3. CASE Quiescent \/ UNCHANGED vars
  BY <1>3, StutterInv DEF Quiescent
<1> QED
  BY <1>1, <1>2, <1>3, ArriveInv, PinExpiresInv, UpdateUserStatusInv DEF Next

\* The account, the PINs and every handler's local state keep their types
\* (auth_service.go, repository.go), whatever fails.
THEOREM AccountTypes == Spec => []TypeOK
<1>1. Inv => TypeOK
  BY DEF Inv, TypeInv, TablesOK, LocalOK, TypeOK
<1> QED
  BY <1>1, InitInv, NextInv, PTL DEF Spec

\* A PIN that ValidateAndConsumePin has accepted is used or gone for good, for
\* any number of requests with it and for it.
THEOREM AcceptedSpent == Spec => []AcceptedPinSpent
<1>1. Inv => AcceptedPinSpent
  BY DEF Inv
<1> QED
  BY <1>1, InitInv, NextInv, PTL DEF Spec

\* However many registrations and Google logins of one email race, and whatever
\* reads fail, at most one registration is answered with success.
THEOREM RegisteredAtMostOnce == Spec => []RegisteredOnce
<1>1. Inv => RegisteredOnce
  BY DEF Inv, OneAccount, Registered, RegisteredOnce
<1> QED
  BY <1>1, InitInv, NextInv, PTL DEF Spec

-----------------------------------------------------------------------------
(* Who has shown what.                                                     *)

Secret == {"register", "forgot_password"}

\* A stored PIN was mailed, and for the purpose it is stored with, unless that
\* is "verify".
MailOK ==
    \A p \in PinIds : pins[p] # None =>
        /\ mail[p] # None
        /\ pins[p].purpose \in Secret => mail[p] = pins[p].purpose

\* A reset asks for a PIN of its own purpose, and only a PIN for a registration
\* leads to the activation.
PurposeOK(r) ==
    /\ req[r].op = "reset" => req[r].purpose = "forgot_password"
    /\ pc[r] = "activate" => req[r].purpose = "register"

\* The request is past the SELECT of ValidateAndConsumePin.
HasMatched(r) ==
    /\ req[r].op \in {"verify", "reset"}
    /\ pc[r] \in {"consume", "activate", "store"} \/ resp[r] = "ok"

\* Such a request has entered a PIN mailed for its purpose.
MatchedOK(r) ==
    HasMatched(r) /\ req[r].purpose \in Secret => mail[pin[r]] = req[r].purpose

\* A goroutine that upgrades a hash belongs to a login that succeeded.
UpgradeOK(r) == r \in upgrade => req[r].op = "login" /\ resp[r] = "ok"

ProofsOK == \A r \in Reqs : PurposeOK(r) /\ MatchedOK(r) /\ UpgradeOK(r)

\* The request may have stored its password.
Authorized(r) ==
    \/ /\ req[r].op = "register"
       /\ pc[r] \in {"delete", "insert"} \/ resp[r] \in {"ok", "error"}
    \/ req[r].op \in {"change", "login"} /\ resp[r] = "ok"
    \/ req[r].op = "reset" /\ resp[r] = "ok" /\ mail[pin[r]] = "forgot_password"

PasswordOK ==
    (user # None /\ user.password # None /\ ~ user.legacy) =>
        \E r \in Reqs : req[r].password = user.password /\ Authorized(r)

\* The request has shown that the address is its client's.
Proved(r) ==
    /\ resp[r] = "ok"
    /\ \/ req[r].op = "google"
       \/ req[r].op = "verify" /\ mail[pin[r]] = "register"

ActiveOK ==
    (/\ user # None /\ user.status = "ACTIVE" /\ "ACTIVE" \notin AdminStatuses
     /\ \E r \in Reqs : Registered(r))
    => \E r \in Reqs : Proved(r)

\* A step of the handler of r.
HandlerStep(r) == Step(r) \/ FindFails(r) \/ Abort(r)

LEMMA ArriveLocal ==
    ASSUME Inv, NEW r \in Reqs, Arrive(r)
    PROVE  /\ OthersKept(r) /\ UNCHANGED <<user, pins, mail, resp, upgrade>>
           /\ pc[r] = "idle" /\ pc'[r] \in {"find", "select"}
           /\ resp[r] = "none" /\ req'[r].op # "none"
           /\ req'[r].op = "reset" => req'[r].purpose = "forgot_password"
<1> USE DEF Inv, TypeInv, LocalOK, Goto
<1>1. ASSUME NEW request, NEW label \in {"find", "select"},
             Begin(r, request, label),
             UNCHANGED pin \/ \E p \in PinIds : pin' = [pin EXCEPT ![r] = p],
             request.op # "none",
             request.op = "reset" => request.purpose = "forgot_password"
      PROVE  /\ OthersKept(r) /\ UNCHANGED <<user, pins, mail, resp, upgrade>>
             /\ pc[r] = "idle" /\ pc'[r] \in {"find", "select"}
             /\ resp[r] = "none" /\ req'[r].op # "none"
             /\ req'[r].op = "reset" => req'[r].purpose = "forgot_password"
  <2>1. /\ UNCHANGED <<user, pins, mail, resp, upgrade, seen>> /\ pc[r] = "idle"
        /\ pc'[r] = label /\ req'[r] = request
    BY <1>1 DEF Begin, tables
  <2>2. OthersKept(r)
    BY <1>1, <2>1 DEF Begin, OthersKept
  <2>3. resp[r] = "none"
    BY <2>1 DEF HandlersOK, HandlerOK
  <2> QED
    BY <1>1, <2>1, <2>2, <2>3
<1>2. CASE ForgotPassword(r) \/ GoogleLogin(r)
  BY <1>1, <1>2 DEF ForgotPassword, GoogleLogin, Call
<1>3. ASSUME NEW purpose \in Purposes, ResendPIN(r, purpose)
      PROVE  \E request : /\ Begin(r, request, "find") /\ UNCHANGED pin
                          /\ request.op = "resend"
  BY <1>3 DEF ResendPIN, Call
<1>4. ASSUME NEW p \in PinIds, NEW purpose \in Purposes, VerifyPIN(r, p, purpose)
      PROVE  \E request : /\ Begin(r, request, "select")
                          /\ pin' = [pin EXCEPT ![r] = p] /\ request.op = "verify"
  BY <1>4 DEF VerifyPIN, Call
<1>5. ASSUME NEW w \in Passwords, Register(r, w) \/ Login(r, w)
      PROVE  \E request : /\ Begin(r, request, "find") /\ UNCHANGED pin
                          /\ request.op \in {"register", "login"}
  BY <1>5 DEF Register, Login, Call
<1>6. ASSUME NEW v \in Passwords, NEW w \in Passwords, ChangePassword(r, v, w)
      PROVE  \E request : /\ Begin(r, request, "find") /\ UNCHANGED pin
                          /\ request.op = "change"
  <2> DEFINE request == [Call("change") EXCEPT !.old = v, !.password = w]
  <2>1. request.op = "change"
    BY DEF Call
  <2>2. Begin(r, request, "find") /\ UNCHANGED pin
    BY <1>6 DEF ChangePassword
  <2> HIDE DEF request
  <2> QED
    BY <2>1, <2>2
<1>7. ASSUME NEW p \in PinIds, NEW w \in Passwords, ResetPassword(r, p, w)
      PROVE  \E request : /\ Begin(r, request, "select")
                          /\ pin' = [pin EXCEPT ![r] = p] /\ request.op = "reset"
                          /\ request.purpose = "forgot_password"
  <2> DEFINE request == [Call("reset") EXCEPT !.purpose = "forgot_password",
                                              !.password = w]
  <2>1. request.op = "reset" /\ request.purpose = "forgot_password"
    BY DEF Call
  <2>2. Begin(r, request, "select") /\ pin' = [pin EXCEPT ![r] = p]
    BY <1>7 DEF ResetPassword
  <2> HIDE DEF request
  <2> QED
    BY <2>1, <2>2
<1> QED
  BY <1>1, <1>2, <1>3, <1>4, <1>5, <1>6, <1>7 DEF Arrive

\* What a handler keeps, and what has led it where it is.
LEMMA StepLocal ==
    ASSUME Inv, NEW r \in Reqs, HandlerStep(r)
    PROVE  /\ OthersKept(r) /\ req' = req
           /\ pc[r] \notin {"idle", "done"} /\ resp[r] = "none"
           /\ pc[r] # "delete" => pin' = pin
           /\ pc'[r] = "consume" => pc[r] = "select" /\ Matches(r)
           /\ pc'[r] = "activate" => /\ pc[r] = "consume"
                                     /\ req[r].op = "verify"
                                     /\ req[r].purpose = "register"
           /\ pc'[r] = "store" => pc[r] = "consume" \/ req[r].op = "change"
           /\ resp'[r] = "ok" /\ req[r].op \in {"verify", "reset"} =>
                 pc[r] \in {"consume", "activate", "store"}
           /\ pc[r] = "delete" => pc'[r] = "insert" \/ resp'[r] = "error"
           /\ pc[r] = "insert" => resp'[r] \in {"ok", "error"}
           /\ pc'[r] = "insert" => pc[r] = "delete"
           /\ pc'[r] # "done" => resp'[r] = "none"
<1> USE DEF Inv, TypeInv, LocalOK, Goto
<1>0. HandlerOK(r)
  BY DEF HandlersOK
<1>a. ASSUME NEW response, Finish(r, response)
      PROVE  /\ OthersKept(r) /\ req' = req /\ pin' = pin
             /\ pc'[r] = "done" /\ resp'[r] = response
  BY <1>a DEF Finish, OthersKept
<1>b. ASSUME NEW label, Continue(r, label)
      PROVE  /\ OthersKept(r) /\ req' = req /\ pin' = pin
             /\ pc'[r] = label /\ resp' = resp
  BY <1>b DEF Continue, OthersKept
<1>c. ASSUME NEW row, See(r, row, "identity")
      PROVE  /\ OthersKept(r) /\ req' = req /\ pin' = pin
             /\ pc'[r] = "identity" /\ resp' = resp
  BY <1>c DEF See, OthersKept
<1>d. pc[r] # "done" => resp[r] = "none"
  BY <1>0 DEF HandlerOK
<1>1. CASE FindUser(r)
  <2>1. pc[r] = "find" /\ req[r].op \in {"register", "forgot", "resend", "login",
                                         "change", "google"}
    BY <1>0, <1>1 DEF FindUser, HandlerOK
  <2>2. \/ \E response : Finish(r, response)
        \/ \E label \in {"create", "delete"} : Continue(r, label)
        \/ req[r].op = "change" /\ Continue(r, "store")
        \/ See(r, user, "identity")
    BY <1>1, <2>1, FindUserCases
  <2> QED
    BY <1>a, <1>b, <1>c, <1>d, <2>1, <2>2
<1>2. CASE CreateUser(r)
  <2>1. pc[r] = "create" /\ req[r].op \in {"register", "google"}
    BY <1>0, <1>2 DEF CreateUser, HandlerOK
  <2>2. \/ Finish(r, "exists")
        \/ \E label \in {"findAgain", "delete"} : Continue(r, label)
        \/ See(r, user', "identity")
    BY <1>2 DEF CreateUser
  <2> QED
    BY <1>a, <1>b, <1>c, <1>d, <2>1, <2>2
<1>3. CASE FindAgain(r)
  <2>1. pc[r] = "findAgain" /\ req[r].op = "google"
    BY <1>0, <1>3 DEF FindAgain, HandlerOK
  <2> QED
    BY <1>3, <1>a, <1>c, <1>d, <2>1 DEF FindAgain
<1>4. CASE UpdateIdentity(r) \/ Activate(r) \/ UpdatePasswordHash(r)
  <2>1. /\ pc[r] \in {"identity", "activate", "store"}
        /\ pc[r] = "identity" => req[r].op = "google"
    BY <1>0, <1>4 DEF UpdateIdentity, Activate, UpdatePasswordHash, HandlerOK
  <2>2. \E response : Finish(r, response)
    BY <1>4 DEF UpdateIdentity, Activate, UpdatePasswordHash
  <2> QED
    BY <1>a, <1>d, <2>1, <2>2
<1>5. CASE DeletePins(r)
  <2>1. pc[r] = "delete" /\ pc'[r] = "insert" /\ UNCHANGED <<req, seen, resp>>
    BY <1>5 DEF DeletePins
  <2>2. OthersKept(r)
    BY <1>5, <2>1 DEF DeletePins, OthersKept
  <2> QED
    BY <1>d, <2>1, <2>2
<1>6. CASE CreatePin(r)
  <2>1. pc[r] = "insert" /\ Finish(r, "ok")
    BY <1>6 DEF CreatePin
  <2>2. req[r].op \notin {"verify", "reset"}
    BY <1>0, <2>1 DEF HandlerOK
  <2> QED
    BY <1>a, <1>d, <2>1, <2>2
<1>7. CASE SelectPin(r)
  <2>1. /\ pc[r] = "select"
        /\ Finish(r, "invalid") \/ (Matches(r) /\ Continue(r, "consume"))
    BY <1>7 DEF SelectPin
  <2> QED
    BY <1>a, <1>b, <1>d, <2>1
<1>8. CASE ConsumePin(r)
  <2>1. pc[r] = "consume" /\ req[r].op \in {"verify", "reset"}
    BY <1>0, <1>8 DEF ConsumePin, HandlerOK
  <2>2. \/ Continue(r, "store") \/ Finish(r, "ok")
        \/ /\ Continue(r, "activate") /\ req[r].op = "verify"
           /\ req[r].purpose = "register"
    BY <1>8, <2>1 DEF ConsumePin, Accepted
  <2> QED
    BY <1>a, <1>b, <1>d, <2>1, <2>2
<1>9. CASE FindFails(r)
  <2>1. pc[r] = "find" /\ req[r].op \notin {"verify", "reset"}
    BY <1>0, <1>9 DEF FindFails, HandlerOK
  <2>2. Continue(r, "create") \/ Finish(r, "ok") \/ Finish(r, "error")
    BY <1>9 DEF FindFails
  <2> QED
    BY <1>a, <1>b, <1>d, <2>1, <2>2
<1>10. CASE Abort(r)
  BY <1>10, <1>a, <1>d DEF Abort
<1> QED
  BY <1>1, <1>2, <1>3, <1>4, <1>5, <1>6, <1>7, <1>8, <1>9, <1>10
  DEF HandlerStep, Step

\* Only the insert of the account makes a request the one that registered it.
LEMMA StepRegisters ==
    ASSUME Inv, NEW r \in Reqs, HandlerStep(r), Registered(r)', ~ Registered(r)
    PROVE  user = None /\ user' = NewUser(r)
<1> USE DEF Inv, TypeInv, LocalOK, Goto
<1>0. HandlerOK(r) /\ req[r].op = "register" /\ pc[r] \notin {"delete", "insert"}
  BY StepLocal DEF HandlersOK, Registered
<1>1. pc[r] \in {"find", "create"}
  BY <1>0, StepLocal DEF HandlerOK, PCs
<1>a. ASSUME NEW response, Finish(r, response) PROVE response = "ok"
  <2>1. pc'[r] = "done" /\ resp'[r] = response
    BY <1>a DEF Finish
  <2> QED
    BY <2>1 DEF Registered
<1>b. ASSUME NEW label, Continue(r, label), label # "delete" PROVE FALSE
  <2>1. pc'[r] = label /\ resp' = resp
    BY <1>b DEF Continue
  <2>2. label = "insert"
    BY <1>b, <2>1, StepLocal DEF Registered
  <2> QED
    BY <1>0, <2>1, <2>2, StepLocal
<1>2. CASE FindUser(r)
  BY <1>0, <1>2, <1>a, <1>b, FindUserCases
<1>3. CASE CreateUser(r)
  BY <1>0, <1>3, <1>a, <1>b DEF CreateUser
<1>4. CASE FindFails(r) \/ Abort(r)
  BY <1>0, <1>4, <1>a, <1>b DEF FindFails, Abort
<1>5. CASE \/ FindAgain(r) \/ UpdateIdentity(r) \/ Activate(r)
           \/ UpdatePasswordHash(r) \/ DeletePins(r) \/ CreatePin(r)
           \/ SelectPin(r) \/ ConsumePin(r)
  BY <1>1, <1>5 DEF FindAgain, UpdateIdentity, Activate, UpdatePasswordHash,
                    DeletePins, CreatePin, SelectPin, ConsumePin
<1> QED
  BY <1>2, <1>3, <1>4, <1>5 DEF HandlerStep, Step

\* How a handler changes the account.
LEMMA StepUser ==
    ASSUME Inv, NEW r \in Reqs, HandlerStep(r)
    PROVE  \/ user' = user
           \/ /\ user = None /\ user' = NewUser(r)
              /\ \/ req[r].op = "google"
                 \/ req[r].op = "register" /\ pc'[r] = "delete"
           \/ /\ user \in User /\ user' = [user EXCEPT !.status = "ACTIVE"]
              /\ resp'[r] = "ok" /\ (req[r].op = "google" \/ pc[r] = "activate")
           \/ /\ user \in User /\ pc[r] = "store" /\ resp'[r] = "ok"
              /\ user' = [user EXCEPT !.password = req[r].password, !.legacy = FALSE]
<1> USE DEF Inv, TypeInv, LocalOK, Goto
<1>0. HandlerOK(r) /\ user \in User \cup {None}
  BY DEF HandlersOK, TablesOK
<1>a. Finish(r, "ok") => resp'[r] = "ok"
  BY DEF Finish
<1>1. CASE CreateUser(r)
  <2>1. req[r].op \in {"register", "google"}
    BY <1>0, <1>1 DEF CreateUser, HandlerOK
  <2>2. Continue(r, "delete") => pc'[r] = "delete"
    BY DEF Continue
  <2> QED
    BY <1>1, <2>1, <2>2 DEF CreateUser
<1>2. CASE UpdateIdentity(r)
  <2>1. user \in User /\ req[r].op = "google"
    BY <1>0, <1>2 DEF UpdateIdentity, HandlerOK, AccountThere
  <2> QED
    BY <1>2, <1>a, <2>1 DEF UpdateIdentity
<1>3. CASE Activate(r) \/ UpdatePasswordHash(r)
  BY <1>3, <1>0, <1>a DEF Activate, UpdatePasswordHash
<1>4. CASE FindUser(r) \/ FindAgain(r) \/ SelectPin(r) \/ FindFails(r) \/ Abort(r)
  BY <1>4 DEF FindUser, FindAgain, SelectPin, FindFails, Abort, tables
<1>5. CASE DeletePins(r) \/ CreatePin(r) \/ ConsumePin(r)
  BY <1>5 DEF DeletePins, CreatePin, ConsumePin, tables
<1> QED
  BY <1>1, <1>2, <1>3, <1>4, <1>5 DEF HandlerStep, Step

LEMMA StepUpgrade ==
    ASSUME Inv, NEW r \in Reqs, HandlerStep(r)
    PROVE  \/ upgrade' = upgrade
           \/ /\ upgrade' = upgrade \cup {r}
              /\ req[r].op = "login" /\ resp'[r] = "ok"
<1>1. CASE FindUser(r)
  BY <1>1 DEF FindUser
<1>2. CASE \/ CreateUser(r) \/ FindAgain(r) \/ UpdateIdentity(r) \/ Activate(r)
           \/ UpdatePasswordHash(r) \/ FindFails(r) \/ Abort(r)
  BY <1>2 DEF CreateUser, FindAgain, UpdateIdentity, Activate,
              UpdatePasswordHash, FindFails, Abort
<1>3. CASE DeletePins(r) \/ CreatePin(r) \/ SelectPin(r) \/ ConsumePin(r)
  BY <1>3 DEF DeletePins, CreatePin, SelectPin, ConsumePin
<1> QED
  BY <1>1, <1>2, <1>3 DEF HandlerStep, Step

\* Only CreatePin mails a PIN, a new one.
LEMMA StepMail ==
    ASSUME Inv, NEW r \in Reqs, HandlerStep(r), MailOK
    PROVE  /\ MailOK'
           /\ \A p \in PinIds : mail[p] # None => mail'[p] = mail[p]
<1>1. CASE \/ FindUser(r) \/ CreateUser(r) \/ FindAgain(r) \/ UpdateIdentity(r)
           \/ Activate(r) \/ UpdatePasswordHash(r) \/ FindFails(r) \/ Abort(r)
           \/ DeletePins(r) \/ SelectPin(r)
  <2>1. UNCHANGED <<pins, mail>>
    BY <1>1 DEF FindUser, CreateUser, FindAgain, UpdateIdentity, Activate,
           UpdatePasswordHash, FindFails, Abort, DeletePins, SelectPin, tables
  <2> QED
    BY <2>1 DEF MailOK
<1>2. CASE ConsumePin(r)
  <2>1. pins \in [PinIds -> Pin \cup {None}] /\ UNCHANGED mail
    BY <1>2 DEF ConsumePin, Inv, TypeInv, TablesOK
  <2>2. ASSUME NEW p \in PinIds, pins'[p] # None
        PROVE  pins[p] # None /\ pins'[p].purpose = pins[p].purpose
    <3>1. CASE pins'[p] = pins[p]
      BY <2>2, <3>1
    <3>2. CASE pins[p] # None /\ pins'[p] = [pins[p] EXCEPT !.used = TRUE]
      BY <2>1, <3>2 DEF Pin
    <3> QED
      BY <1>2, <2>1, <2>2, <3>1, <3>2 DEF ConsumePin
  <2> QED
    BY <2>1, <2>2 DEF MailOK
<1>3. CASE CreatePin(r)
  <2>1. pc[r] = "insert" /\ HandlerOK(r)
    BY <1>3 DEF CreatePin, Inv, TypeInv, LocalOK, HandlersOK
  <2>2. pin[r] \in PinIds /\ req[r].op \in {"register", "forgot", "resend"}
    BY <2>1 DEF HandlerOK, Inv, TypeInv, LocalOK
  <2>3. /\ IssuedPurpose(r) \in Purposes /\ MailedPurpose(r) \in Purposes
        /\ MailedPurpose(r) # None
    BY <2>1, PurposeTypes, NoneIsNoPurpose DEF Inv, TypeInv
  <2>4. IssuedPurpose(r) \in Secret => MailedPurpose(r) = IssuedPurpose(r)
    <3>1. CASE req[r].op = "register"
      BY <3>1 DEF IssuedPurpose, MailedPurpose
    <3>2. CASE req[r].op = "forgot"
      BY <3>2 DEF IssuedPurpose, MailedPurpose
    <3>3. CASE req[r].op = "resend"
      BY <3>3 DEF IssuedPurpose, MailedPurpose, Secret
    <3> QED
      BY <2>2, <3>1, <3>2, <3>3
  <2>5. /\ mail'[pin[r]] = MailedPurpose(r) /\ mail[pin[r]] = None
        /\ pins[pin[r]] = None
        /\ \A p \in PinIds : p # pin[r] => mail'[p] = mail[p]
    BY <1>3, <2>1, <2>2 DEF CreatePin, Inv, TypeInv, TablesOK, NewPin
  <2>6. ASSUME NEW p \in PinIds, pins'[p] # None
        PROVE  /\ mail'[p] # None
               /\ pins'[p].purpose \in Secret => mail'[p] = pins'[p].purpose
    <3>1. CASE p = pin[r]
      <4>1. pins'[p].purpose = IssuedPurpose(r)
        BY <1>3, <2>5, <2>6, <3>1 DEF CreatePin
      <4> QED
        BY <2>3, <2>4, <2>5, <3>1, <4>1
    <3>2. CASE p # pin[r]
      <4>1. pins'[p] = pins[p]
        BY <1>3, <2>6, <3>2 DEF CreatePin
      <4> QED
        BY <2>5, <2>6, <3>2, <4>1 DEF MailOK
    <3> QED
      BY <3>1, <3>2
  <2> QED
    BY <2>5, <2>6 DEF MailOK
<1> QED
  BY <1>1, <1>2, <1>3 DEF HandlerStep, Step

\* A PIN that the SELECT accepts was mailed for what the request is about, and
\* what was mailed stays so.
LEMMA StepProofs ==
    ASSUME Inv, MailOK, ProofsOK, NEW r \in Reqs, HandlerStep(r)
    PROVE  ProofsOK'
<1>0. HandlerOK(r) /\ (req[r].op \in {"verify", "reset"} => pin[r] \in PinIds)
  BY DEF Inv, TypeInv, LocalOK, HandlersOK, HandlerOK
<1>1. ASSUME NEW q \in Reqs, q # r
      PROVE  PurposeOK(q)' /\ MatchedOK(q)' /\ UpgradeOK(q)'
  <2>1. /\ pc'[q] = pc[q] /\ req'[q] = req[q] /\ pin'[q] = pin[q]
        /\ resp'[q] = resp[q] /\ (q \in upgrade' => q \in upgrade)
    BY <1>1, StepLocal, StepUpgrade DEF OthersKept
  <2>2. PurposeOK(q) /\ MatchedOK(q) /\ UpgradeOK(q)
    BY DEF ProofsOK
  <2>3. PurposeOK(q)' /\ UpgradeOK(q)'
    BY <2>1, <2>2 DEF PurposeOK, UpgradeOK
  <2>4. MatchedOK(q)'
    <3>1. SUFFICES ASSUME HasMatched(q)', req[q].purpose \in Secret
                   PROVE  mail'[pin[q]] = req[q].purpose
      BY <2>1 DEF MatchedOK
    <3>2. HasMatched(q)
      BY <2>1, <3>1 DEF HasMatched
    <3>3. mail[pin[q]] = req[q].purpose
      BY <2>2, <3>1, <3>2 DEF MatchedOK
    <3>4. pin[q] \in PinIds
      BY <3>2 DEF HasMatched, Inv, TypeInv, LocalOK, HandlersOK, HandlerOK
    <3>5. req[q].purpose # None
      BY <3>1, NoneIsNoPurpose DEF Secret, Purposes
    <3> QED
      BY <3>3, <3>4, <3>5, StepMail
  <2> QED
    BY <2>3, <2>4
<1>2. PurposeOK(r)'
  BY StepLocal DEF ProofsOK, PurposeOK
<1>3. UpgradeOK(r)'
  BY StepLocal, StepUpgrade DEF ProofsOK, UpgradeOK
<1>4. MatchedOK(r)'
  <2>1. SUFFICES ASSUME HasMatched(r)', req[r].purpose \in Secret
                 PROVE  mail'[pin'[r]] = req[r].purpose
    BY StepLocal DEF MatchedOK
  <2>2. req[r].op \in {"verify", "reset"}
    BY <2>1, StepLocal DEF HasMatched
  <2>3. pin' = pin /\ pin[r] \in PinIds
    BY <1>0, <2>2, StepLocal DEF HandlerOK
  <2>4. mail[pin[r]] = req[r].purpose
    <3>1. CASE Matches(r)
      BY <2>1, <2>3, <3>1 DEF Matches, MailOK
    <3>2. CASE pc[r] \in {"consume", "activate", "store"}
      BY <2>1, <2>2, <3>2 DEF ProofsOK, MatchedOK, HasMatched
    <3> QED
      BY <2>1, <2>2, <3>1, <3>2, StepLocal DEF HasMatched
  <2>5. req[r].purpose # None
    BY <2>1, NoneIsNoPurpose DEF Secret, Purposes
  <2> QED
    BY <2>3, <2>4, <2>5, StepMail
<1> QED
  BY <1>1, <1>2, <1>3, <1>4 DEF ProofsOK

\* What a request has shown or been allowed stays so.
LEMMA ShownStays ==
    ASSUME Inv, MailOK, NEW r \in Reqs, HandlerStep(r), NEW q \in Reqs
    PROVE  /\ Authorized(q) => Authorized(q)'
           /\ Proved(q) => Proved(q)'
<1>1. CASE q = r
  <2>1. HandlerOK(r) /\ resp[r] = "none"
    BY StepLocal DEF Inv, TypeInv, LocalOK, HandlersOK
  <2> QED
    BY <1>1, <2>1, StepLocal DEF Authorized, Proved
<1>2. CASE q # r
  <2>1. /\ pc'[q] = pc[q] /\ req'[q] = req[q] /\ pin'[q] = pin[q]
        /\ resp'[q] = resp[q]
    BY <1>2, StepLocal DEF OthersKept
  <2>2. /\ req[q].op \in {"verify", "reset"} => pin[q] \in PinIds
        /\ None \notin {"register", "forgot_password"}
    BY NoneIsNoPurpose
       DEF Inv, TypeInv, LocalOK, HandlersOK, HandlerOK, Purposes
  <2>3. /\ req[q].op = "reset" /\ mail[pin[q]] = "forgot_password" =>
              mail'[pin[q]] = "forgot_password"
        /\ req[q].op = "verify" /\ mail[pin[q]] = "register" =>
              mail'[pin[q]] = "register"
    BY <2>2, StepMail
  <2> QED
    BY <2>1, <2>3 DEF Authorized, Proved
<1> QED
  BY <1>1, <1>2

\* The fields of a row that is updated, or new.
LEMMA RowFields ==
    /\ \A u \in User : /\ [u EXCEPT !.status = "ACTIVE"].password = u.password
                       /\ [u EXCEPT !.status = "ACTIVE"].legacy = u.legacy
    /\ \A u \in User : \A w \in Passwords \cup {None} :
          /\ [u EXCEPT !.password = w, !.legacy = FALSE].password = w
          /\ [u EXCEPT !.password = w, !.legacy = FALSE].status = u.status
  BY DEF User

LEMMA StepPassword ==
    ASSUME Inv, MailOK, ProofsOK, PasswordOK, NEW r \in Reqs, HandlerStep(r)
    PROVE  PasswordOK'
<1>0. /\ req' = req /\ resp[r] = "none" /\ HandlerOK(r)
      /\ user \in User \cup {None}
      /\ req[r].password \in Passwords \cup {None}
  BY StepLocal DEF Inv, TypeInv, LocalOK, HandlersOK, TablesOK, Request
<1>1. ASSUME user' # None, user'.password # None, ~ user'.legacy, user # None,
             user'.password = user.password, user'.legacy = user.legacy
      PROVE  \E q \in Reqs : req'[q].password = user'.password /\ Authorized(q)'
  BY <1>0, <1>1, ShownStays DEF PasswordOK
<1>2. CASE user' = user
  BY <1>1, <1>2 DEF PasswordOK
<1>3. CASE user' = NewUser(r) /\ req[r].op = "google"
  BY <1>3 DEF NewUser, PasswordOK
<1>4. CASE user' = NewUser(r) /\ req[r].op = "register" /\ pc'[r] = "delete"
  BY <1>0, <1>4 DEF NewUser, PasswordOK, Authorized
<1>5. CASE user \in User /\ user' = [user EXCEPT !.status = "ACTIVE"]
  <2>1. user # None /\ user'.password = user.password /\ user'.legacy = user.legacy
    BY <1>5, RowFields, NoneIsNoRow
  <2> QED
    BY <1>1, <2>1 DEF PasswordOK
<1>6. CASE /\ user \in User /\ pc[r] = "store" /\ resp'[r] = "ok"
           /\ user' = [user EXCEPT !.password = req[r].password, !.legacy = FALSE]
  <2>1. user'.password = req[r].password
    BY <1>0, <1>6, RowFields
  <2>2. req[r].op \in {"reset", "change"} /\ pin' = pin
    BY <1>0, <1>6, StepLocal DEF HandlerOK
  <2>3. req[r].op = "reset" => mail'[pin[r]] = "forgot_password"
    <3>1. SUFFICES ASSUME req[r].op = "reset" PROVE mail'[pin[r]] = "forgot_password"
      OBVIOUS
    <3>2. req[r].purpose = "forgot_password" /\ "forgot_password" \in Secret
      BY <3>1 DEF ProofsOK, PurposeOK, Secret
    <3>3. mail[pin[r]] = "forgot_password"
      BY <1>6, <3>1, <3>2 DEF ProofsOK, MatchedOK, HasMatched
    <3>4. pin[r] \in PinIds
      BY <3>1 DEF Inv, TypeInv, LocalOK, HandlersOK, HandlerOK
    <3> QED
      BY <3>3, <3>4, StepMail, NoneIsNoPurpose DEF Purposes
  <2>4. Authorized(r)'
    BY <1>0, <1>6, <2>2, <2>3 DEF Authorized
  <2> QED
    BY <1>0, <2>1, <2>4 DEF PasswordOK
<1> QED
  BY <1>2, <1>3, <1>4, <1>5, <1>6, StepUser

LEMMA StepActive ==
    ASSUME Inv, MailOK, ProofsOK, ActiveOK, NEW r \in Reqs, HandlerStep(r)
    PROVE  ActiveOK'
<1>0. /\ req' = req /\ resp[r] = "none" /\ HandlerOK(r)
      /\ user \in User \cup {None}
      /\ req[r].password \in Passwords \cup {None}
  BY StepLocal DEF Inv, TypeInv, LocalOK, HandlersOK, TablesOK, Request
<1>1. ASSUME user # None, user'.status = user.status
      PROVE  ActiveOK'
  <2>1. \A q \in Reqs : Registered(q)' => Registered(q)
    BY <1>1, StepLocal, StepRegisters DEF OthersKept, Registered
  <2> QED
    BY <1>1, <2>1, ShownStays DEF ActiveOK
<1>2. CASE user' = user
  BY <1>1, <1>2 DEF ActiveOK
<1>3. CASE user = None /\ user' = NewUser(r) /\ req[r].op = "google"
  <2>1. \A q \in Reqs : ~ Registered(q)'
    BY <1>0, <1>3, StepLocal DEF OthersKept, Registered, Inv, OneAccount
  <2> QED
    BY <2>1 DEF ActiveOK
<1>4. CASE user' = NewUser(r) /\ req[r].op = "register"
  BY <1>4 DEF NewUser, ActiveOK
<1>5. CASE resp'[r] = "ok" /\ req[r].op = "google"
  BY <1>0, <1>5 DEF ActiveOK, Proved
<1>6. CASE resp'[r] = "ok" /\ pc[r] = "activate"
  <2>1. /\ req[r].op = "verify" /\ req[r].purpose = "register"
        /\ "register" \in Secret /\ pin' = pin
    BY <1>0, <1>6, StepLocal DEF HandlerOK, ProofsOK, PurposeOK, Secret
  <2>2. mail[pin[r]] = "register"
    BY <1>6, <2>1 DEF ProofsOK, MatchedOK, HasMatched
  <2>3. pin[r] \in PinIds
    BY <2>1 DEF Inv, TypeInv, LocalOK, HandlersOK, HandlerOK
  <2>4. mail'[pin[r]] = "register"
    BY <2>2, <2>3, StepMail, NoneIsNoPurpose DEF Purposes
  <2>5. Proved(r)'
    BY <1>0, <1>6, <2>1, <2>4 DEF Proved
  <2> QED
    BY <2>5 DEF ActiveOK
<1>7. CASE /\ user \in User
           /\ user' = [user EXCEPT !.password = req[r].password, !.legacy = FALSE]
  <2>1. user # None /\ user'.status = user.status
    BY <1>0, <1>7, RowFields, NoneIsNoRow
  <2> QED
    BY <1>1, <2>1
<1> QED
  BY <1>2, <1>3, <1>4, <1>5, <1>6, <1>7, StepUser

\* What the proofs about passwords and activation add to Inv.
ShownInv == MailOK /\ ProofsOK /\ PasswordOK /\ ActiveOK

LEMMA ArriveShown ==
    ASSUME Inv, ShownInv, NEW r \in Reqs, Arrive(r)
    PROVE  ShownInv'
<1>1. ASSUME NEW q \in Reqs
      PROVE  /\ PurposeOK(q)' /\ MatchedOK(q)' /\ UpgradeOK(q)'
             /\ Authorized(q) => Authorized(q)' /\ req'[q].password = req[q].password
             /\ Proved(q) => Proved(q)'
             /\ Registered(q)' => Registered(q)
  <2>1. CASE q = r
    <3>1. HandlerOK(r) /\ UpgradeOK(r)
      BY DEF Inv, TypeInv, LocalOK, HandlersOK, ShownInv, ProofsOK
    <3>2. ~ Authorized(r) /\ ~ Proved(r) /\ ~ HasMatched(r)' /\ ~ Registered(r)'
      BY <3>1, ArriveLocal
         DEF HandlerOK, Authorized, Proved, HasMatched, Registered
    <3> QED
      BY <2>1, <3>1, <3>2, ArriveLocal DEF PurposeOK, MatchedOK, UpgradeOK
  <2>2. CASE q # r
    <3>1. /\ pc'[q] = pc[q] /\ req'[q] = req[q] /\ pin'[q] = pin[q]
          /\ resp'[q] = resp[q] /\ UNCHANGED <<mail, upgrade>>
      BY <2>2, ArriveLocal DEF OthersKept
    <3>2. PurposeOK(q) /\ MatchedOK(q) /\ UpgradeOK(q)
      BY DEF ShownInv, ProofsOK
    <3> QED
      BY <3>1, <3>2 DEF PurposeOK, MatchedOK, HasMatched, UpgradeOK, Authorized,
                        Proved, Registered
  <2> QED
    BY <2>1, <2>2
<1>2. UNCHANGED <<user, pins, mail>>
  BY ArriveLocal
<1>3. MailOK' /\ ProofsOK'
  BY <1>1, <1>2 DEF ShownInv, MailOK, ProofsOK
<1>4. PasswordOK'
  BY <1>1, <1>2 DEF ShownInv, PasswordOK
<1>5. ActiveOK'
  BY <1>1, <1>2 DEF ShownInv, ActiveOK
<1> QED
  BY <1>3, <1>4, <1>5 DEF ShownInv

\* A step of no handler that changes neither what was mailed nor, but for the
\* goroutine of a login, the password, and activates no account.
LEMMA TableShown ==
    ASSUME Inv, ShownInv, UNCHANGED local, UNCHANGED mail, upgrade' \subseteq upgrade,
           \A p \in PinIds : pins'[p] # None =>
               pins[p] # None /\ pins'[p].purpose = pins[p].purpose,
           user' # user => /\ user # None
                           /\ "ACTIVE" \notin AdminStatuses =>
                                 user'.status = user.status \/ user'.status # "ACTIVE"
                           /\ \/ /\ user'.password = user.password
                                 /\ user'.legacy = user.legacy
                              \/ \E r \in upgrade : user'.password = req[r].password
    PROVE  ShownInv'
<1>1. UNCHANGED <<pc, req, seen, pin, doomed, resp>>
  BY DEF local
<1>2. MailOK'
  BY DEF ShownInv, MailOK
<1>3. ASSUME NEW q \in Reqs
      PROVE  /\ PurposeOK(q)' /\ MatchedOK(q)' /\ UpgradeOK(q)'
             /\ Authorized(q)' <=> Authorized(q)
             /\ Proved(q)' <=> Proved(q)
             /\ Registered(q)' <=> Registered(q)
  <2>1. PurposeOK(q) /\ MatchedOK(q) /\ UpgradeOK(q)
    BY DEF ShownInv, ProofsOK
  <2>2. PurposeOK(q)' /\ MatchedOK(q)' /\ UpgradeOK(q)'
    BY <1>1, <2>1 DEF PurposeOK, MatchedOK, HasMatched, UpgradeOK
  <2> QED
    BY <1>1, <2>2 DEF Authorized, Proved, Registered
<1>4. ProofsOK'
  BY <1>3 DEF ProofsOK
<1>5. \A r \in upgrade : r \in Reqs /\ Authorized(r)
  BY DEF ShownInv, ProofsOK, UpgradeOK, Authorized, Inv, TypeInv
<1>6. PasswordOK'
  <2>1. SUFFICES ASSUME user' # None, user'.password # None, ~ user'.legacy
                 PROVE  \E r \in Reqs : req'[r].password = user'.password
                                        /\ Authorized(r)'
    BY DEF PasswordOK
  <2>2. CASE \E r \in upgrade : user'.password = req[r].password
    BY <1>1, <1>3, <1>5, <2>2
  <2>3. CASE user # None /\ user'.password = user.password /\ ~ user.legacy
    BY <1>1, <1>3, <2>1, <2>3 DEF ShownInv, PasswordOK
  <2> QED
    BY <2>1, <2>2, <2>3
<1>7. ActiveOK'
  BY <1>3 DEF ShownInv, ActiveOK
<1> QED
  BY <1>2, <1>4, <1>6, <1>7 DEF ShownInv

LEMMA InitShown == Init => ShownInv
<1> SUFFICES ASSUME Init PROVE ShownInv
  OBVIOUS
<1>1. Call("none").op = "none" /\ Call("none").purpose = None
  BY DEF Call
<1>2. MailOK /\ ActiveOK
  BY <1>1 DEF Init, MailOK, ActiveOK, Registered
<1>3. ProofsOK
  BY <1>1 DEF Init, ProofsOK, PurposeOK, MatchedOK, HasMatched, UpgradeOK
<1>4. PasswordOK
  BY DEF Init, PasswordOK
<1> QED
  BY <1>2, <1>3, <1>4 DEF ShownInv

LEMMA NextShown == Inv /\ ShownInv /\ [Next]_vars => ShownInv'
<1> SUFFICES ASSUME Inv, ShownInv, [Next]_vars PROVE ShownInv'
  OBVIOUS
<1>0. user \in User \cup {None} /\ pins \in [PinIds -> Pin \cup {None}]
  BY DEF Inv, TypeInv, TablesOK
<1>1. ASSUME NEW r \in Reqs, HandlerStep(r) PROVE ShownInv'
  BY <1>1, StepMail, StepProofs, StepPassword, StepActive DEF ShownInv
<1>2. ASSUME NEW r \in Reqs, Rehash(r) PROVE ShownInv'
  <2>1. user \in User /\ req[r].password \in Passwords \cup {None}
    BY <1>0, <1>2 DEF Rehash, Inv, TypeInv, AccountThere, LocalOK, Request
  <2>2. user'.password = req[r].password /\ user'.status = user.status /\ r \in upgrade
    BY <1>2, <2>1, RowFields DEF Rehash
  <2>3. /\ UNCHANGED local /\ UNCHANGED <<pins, mail>>
        /\ upgrade' \subseteq upgrade /\ user # None
    BY <1>2, <2>1, NoneIsNoRow DEF Rehash
  <2> QED
    BY <2>2, <2>3, TableShown
<1>3. ASSUME NEW r \in Reqs, RehashFails(r) PROVE ShownInv'
  BY <1>3, TableShown DEF RehashFails, tables
<1>4. ASSUME NEW p \in PinIds, PinExpires(p) PROVE ShownInv'
  <2>1. /\ pins[p] \in Pin /\ pins[p] # None
        /\ pins' = [pins EXCEPT ![p] = [pins[p] EXCEPT !.expired = TRUE]]
        /\ UNCHANGED local /\ UNCHANGED <<user, mail, upgrade>>
    BY <1>0, <1>4 DEF PinExpires
  <2>2. [pins[p] EXCEPT !.expired = TRUE].purpose = pins[p].purpose
    BY <2>1 DEF Pin
  <2>3. \A x \in PinIds : pins'[x] # None =>
            pins[x] # None /\ pins'[x].purpose = pins[x].purpose
    BY <1>0, <2>1, <2>2
  <2> QED
    BY <2>1, <2>3, TableShown
<1>5. ASSUME NEW status \in AdminStatuses, UpdateUserStatus(status) PROVE ShownInv'
  <2>1. /\ user \in User /\ user # None
        /\ user' = [user EXCEPT !.status = status]
        /\ UNCHANGED local /\ UNCHANGED <<pins, mail, upgrade>>
    BY <1>0, <1>5 DEF UpdateUserStatus
  <2>2. /\ user'.status = status /\ user'.password = user.password
        /\ user'.legacy = user.legacy
    BY <2>1 DEF User
  <2> QED
    BY <2>1, <2>2, TableShown
<1>6. CASE Quiescent \/ UNCHANGED vars
  <2>1. UNCHANGED local /\ UNCHANGED <<user, pins, mail, upgrade>>
    BY <1>6 DEF Quiescent, vars, local
  <2> QED
    BY <2>1, TableShown
<1> QED
  BY <1>1, <1>2, <1>3, <1>4, <1>5, <1>6, ArriveShown DEF Next, HandlerStep

\* A registered account becomes active only by a request that entered a PIN
\* mailed for the registration or by a login with Google (VerifyPIN,
\* GoogleLogin), for any number of requests and PINs and whatever fails.
THEOREM ActivationProved == Spec => []ActivatedByProof
<1>1. Inv /\ ShownInv => ActivatedByProof
  BY DEF ShownInv, ActiveOK, Registered, Proved, ActivatedByProof
<1> QED
  BY <1>1, InitInv, NextInv, InitShown, NextShown, PTL DEF Spec

\* The stored password comes from a request that was entitled to set it, and
\* never from one that was refused (Register, ResetPassword, ChangePassword, the
\* rehash goroutine), however they interleave.
THEOREM PasswordsAuthorized == Spec => []PasswordAuthorized
<1>1. Inv /\ ShownInv => PasswordAuthorized
  <2> SUFFICES ASSUME Inv, ShownInv, user # None, user.password # None, ~ user.legacy
               PROVE  \E r \in Reqs :
                          /\ req[r].password = user.password
                          /\ resp[r] \notin {"exists", "invalid", "refused"}
                          /\ \/ req[r].op \in {"register", "change", "login"}
                             \/ /\ req[r].op = "reset"
                                /\ mail[pin[r]] = "forgot_password"
    BY DEF PasswordAuthorized
  <2>1. PICK r \in Reqs : req[r].password = user.password /\ Authorized(r)
    BY DEF ShownInv, PasswordOK
  <2>2. pc[r] \in {"delete", "insert"} => resp[r] = "none"
    BY DEF Inv, TypeInv, LocalOK, HandlersOK, HandlerOK
  <2> QED
    BY <2>1, <2>2 DEF Authorized
<1> QED
  BY <1>1, InitInv, NextInv, InitShown, NextShown, PTL DEF Spec

=============================================================================
