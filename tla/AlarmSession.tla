---------------------------- MODULE AlarmSession ----------------------------
(***************************************************************************)
(* The Alarm.com client: credentials in the environment, in the database   *)
(* and in memory, and a controller of the library pyalarmdotcomajax that   *)
(* holds the session.                                                      *)
(* Its methods are coroutines that wait for Alarm.com in their middle; any *)
(* other call runs meanwhile, and they use self._controller and            *)
(* self._logged_in as they find them afterwards.                           *)
(*                                                                         *)
(* A cookie is known by the account it was issued for.  Alarm.com answers  *)
(* as it likes, but lists devices only to a controller it has let in.      *)
(***************************************************************************)
EXTENDS Naturals, Sequences

CONSTANTS
    Account,        \* user names
    None,           \* no account, no cookie
    Call,           \* concurrent requests to routes/alarm_com.py
    Environment,    \* what the variables ALARM_COM_* may hold
    MaxControllers, \* bound: controllers made since the start of the process
    MaxSaves        \* bound: times credentials are saved

ASSUME AlarmAssumption ==
    /\ None \notin Account
    /\ Environment \subseteq [account : Account \cup {None}, cookie : Account \cup {None}]
    /\ MaxControllers \in Nat /\ MaxSaves \in Nat

Id == 1..MaxControllers

VARIABLES
    client,     \* username and two_factor_cookie of the client
    controller, \* what each controller was made with and what it is allowed
    current,    \* self._controller; 0 for None
    loggedIn,   \* self._logged_in
    stored,     \* the setting alarm_com_credentials
    call,       \* what each request waits for, on which controller, and why
    env,        \* the variables ALARM_COM_* of the process
    origin,     \* ghost: where the client has its account from
    saves       \* bound: credentials saved

startVars == <<env, origin>>
alarmVars == <<client, controller, current, loggedIn, stored, call, startVars, saves>>

NoAccount == [account |-> None, cookie |-> None]
Idle      == [at |-> "idle", on |-> 0, for |-> "none"]

(* What the client has after it was left with what AlarmComClient() found in
   the environment.  A user and password there go before the database.      *)
OriginOf(e) == IF e.account = None THEN "nothing" ELSE "environment"

AlarmInit ==
    /\ stored = NoAccount /\ env \in Environment
    /\ client = env /\ origin = OriginOf(env)
    /\ controller = <<>> /\ current = 0 /\ loggedIn = FALSE
    /\ call = [r \in Call |-> Idle]
    /\ saves = 0

----------------------------------------------------------------------------
(* POST /credentials: no await.  A database that raises leaves the client as
   it was; an empty cookie leaves the former one in memory.                 *)
Typed(a, c) == [account |-> a, cookie |-> IF c = None THEN client.cookie ELSE c]

(* Mutant of SetCredentials: the controller is kept. *)
SetCredentialsKeeping(a, c) ==
    client' = Typed(a, c) /\ loggedIn' = FALSE /\ UNCHANGED current

SetCredentials(a, c) ==
    client' = Typed(a, c) /\ loggedIn' = FALSE /\ current' = 0

(* Mutant of SaveCredentials: the client first, the database afterwards. *)
SaveCredentialsLate(a, c) ==
    /\ saves < MaxSaves /\ saves' = saves + 1
    /\ SetCredentials(a, c)
    /\ \/ stored' = [account |-> a, cookie |-> c]
       \/ UNCHANGED stored
    /\ origin' = "setting"
    /\ UNCHANGED <<controller, call, env>>

SaveCredentials(a, c) ==
    /\ saves < MaxSaves /\ saves' = saves + 1
    /\ stored' = [account |-> a, cookie |-> c]
    /\ SetCredentials(a, c)
    /\ origin' = "setting"
    /\ UNCHANGED <<controller, call, env>>

----------------------------------------------------------------------------
(* login(): a new controller with what the client has now, then the wait *)
Fresh == [account |-> client.account, cookie |-> client.cookie, in |-> FALSE, listed |-> FALSE]

LogIn(r, why) ==
    /\ client.account # None /\ Len(controller) < MaxControllers
    /\ controller' = Append(controller, Fresh)
    /\ current' = Len(controller) + 1
    /\ call' = [call EXCEPT ![r] = [at |-> "login", on |-> current', for |-> why]]
    /\ UNCHANGED <<client, loggedIn, stored, startVars, saves>>

Ready == loggedIn /\ current # 0

(* What follows _ensure_logged_in without an await in between *)
Waiting(r, at) == [call EXCEPT ![r] = [at |-> at, on |-> current, for |-> "none"]]
Over(r)        == [call EXCEPT ![r] = Idle]

(* A command needs the partition or lock in what the controller has listed. *)
Sent(r) ==
    IF current # 0 /\ controller'[current].listed THEN Waiting(r, "command") ELSE Over(r)

Open(r, why) ==
    /\ call[r] = Idle
    /\ \/ why = "login" /\ LogIn(r, why)
       \/ why # "login" /\ ~Ready /\ LogIn(r, why)
       \/ /\ why # "login" /\ Ready
          /\ UNCHANGED controller
          /\ call' = IF why = "devices" THEN Waiting(r, "update") ELSE Sent(r)
          /\ UNCHANGED <<client, current, loggedIn, stored, startVars, saves>>

(* The listings call _ensure_logged_in once more before they update: a
   controller lost during the login is made again.                          *)
LoginAccepted(r) ==
    LET c == call[r] IN
    /\ c.at = "login"
    /\ loggedIn' = TRUE
    /\ \/ /\ c.for # "devices" \/ current # 0
          /\ controller' = [controller EXCEPT ![c.on].in = TRUE]
          /\ call' = CASE c.for = "login"   -> Over(r)
                       [] c.for = "devices" -> Waiting(r, "update")
                       [] c.for = "command" -> Sent(r)
          /\ UNCHANGED current
       \/ /\ c.for = "devices" /\ current = 0 /\ Len(controller) < MaxControllers
          /\ controller' = Append([controller EXCEPT ![c.on].in = TRUE], Fresh)
          /\ current' = Len(controller) + 1
          /\ call' = [call EXCEPT ![r] = [at |-> "login", on |-> current', for |-> "devices"]]
    /\ UNCHANGED <<client, stored, startVars, saves>>

(* OtpRequired leaves _logged_in as it is. *)
LoginRefused(r) ==
    /\ call[r].at = "login"
    /\ loggedIn' \in {loggedIn, FALSE}
    /\ call' = Over(r)
    /\ UNCHANGED <<client, controller, current, stored, startVars, saves>>

----------------------------------------------------------------------------
(* submit_otp(): the controller asked is the one current at the call, the
   cookie is taken from the one current at the answer.                      *)
SubmitOtp(r) ==
    /\ call[r] = Idle /\ current # 0
    /\ call' = Waiting(r, "otp")
    /\ UNCHANGED <<client, controller, current, loggedIn, stored, startVars, saves>>

(* The route stores the cookie with the credentials it then reads. *)
Remember ==
    IF client'.cookie # None /\ stored.account # None
    THEN [stored EXCEPT !.cookie = client'.cookie] ELSE stored

OtpAccepted(r) ==
    LET c == call[r].on IN
    /\ call[r].at = "otp"
    /\ controller' = [controller EXCEPT ![c].in = TRUE, ![c].cookie = controller[c].account]
    /\ IF current = 0
       THEN UNCHANGED <<client, loggedIn, stored>>
       ELSE LET k == controller'[current].cookie IN
            /\ client' = IF k = None THEN client ELSE [client EXCEPT !.cookie = k]
            /\ loggedIn' = TRUE
            /\ stored' = Remember
    /\ call' = Over(r)
    /\ UNCHANGED <<current, startVars, saves>>

OtpRefused(r) ==
    /\ call[r].at = "otp"
    /\ call' = Over(r)
    /\ UNCHANGED <<client, controller, current, loggedIn, stored, startVars, saves>>

----------------------------------------------------------------------------
Updated(r) ==
    /\ call[r].at = "update" /\ controller[call[r].on].in
    /\ controller' = [controller EXCEPT ![call[r].on].listed = TRUE]
    /\ call' = Over(r)
    /\ UNCHANGED <<client, current, loggedIn, stored, startVars, saves>>

UpdateFailed(r) ==
    /\ call[r].at = "update"
    /\ loggedIn' = FALSE
    /\ call' = Over(r)
    /\ UNCHANGED <<client, controller, current, stored, startVars, saves>>

CommandEnded(r) ==
    /\ call[r].at = "command"
    /\ call' = Over(r)
    /\ UNCHANGED <<client, controller, current, loggedIn, stored, startVars, saves>>

(* A process that had been killed starts again, its environment edited or not:
   AlarmComClient() and load_alarm_com_credentials_on_startup, in which the
   database may have nothing to give, or raise.                             *)
AlarmRestart ==
    /\ env' \in Environment
    /\ \/ client' = env' /\ origin' = OriginOf(env')
       \/ /\ env'.account = None /\ stored.account # None
          /\ client' = stored /\ origin' = "setting"
    /\ controller' = <<>> /\ current' = 0 /\ loggedIn' = FALSE
    /\ call' = [r \in Call |-> Idle]
    /\ UNCHANGED <<stored, saves>>

AlarmNext ==
    \/ \E a \in Account : \E c \in {a, None} : SaveCredentials(a, c)
    \/ \E r \in Call :
         \/ \E why \in {"login", "devices", "command"} : Open(r, why)
         \/ LoginAccepted(r) \/ LoginRefused(r)
         \/ SubmitOtp(r) \/ OtpAccepted(r) \/ OtpRefused(r)
         \/ Updated(r) \/ UpdateFailed(r) \/ CommandEnded(r)

----------------------------------------------------------------------------
AlarmTypeOK ==
    /\ client \in [account : Account \cup {None}, cookie : Account \cup {None}]
    /\ stored \in [account : Account \cup {None}, cookie : Account \cup {None}]
    /\ env \in Environment /\ origin \in {"setting", "environment", "nothing"}
    /\ controller \in Seq([account : Account, cookie : Account \cup {None},
                           in : BOOLEAN, listed : BOOLEAN])
    /\ current \in 0..Len(controller)
    /\ loggedIn \in BOOLEAN
    /\ call \in [Call -> [at : {"idle", "login", "otp", "update", "command"}, on : 0..Len(controller),
                          for : {"none", "login", "devices", "command"}]]

(* A command is sent for the account that is configured when it is sent,
   however the logins, answers and changes of account overtake each other.  *)
CommandsForConfigured ==
    [][\A r \in Call :
         call[r].at # "command" /\ call'[r].at = "command"
         => controller'[call'[r].on].account = client'.account]_alarmVars

(* The account in use is the one that the last save or the last start gave
   the client, and while it comes from the setting, the setting has it still:
   an answer to a code, which reads the credentials and writes them again,
   brings back neither an account that was replaced meanwhile nor the stored
   one that the environment overrides.                                      *)
AccountAsGiven ==
    CASE origin = "setting"     -> client.account = stored.account
      [] origin = "environment" -> client.account = env.account
      [] OTHER                  -> client.account = None

=============================================================================
