---------------------------- MODULE AccountProofs ----------------------------
(***************************************************************************)
(* Proofs about the sessions with Alarm.com and the tokens of the Alexa    *)
(* skill, for any number of accounts, requests, controllers and codes: as  *)
(* parts of SeparateParts, whose other parts leave their variables alone.  *)
(***************************************************************************)
EXTENDS TLAPS, SequenceTheorems, SeparateParts

(* A step of the whole is one of the part or leaves its variables alone. *)
LEMMA AlarmPart == [PartsNext]_partVars => [AlarmNext \/ AlarmRestart]_alarmVars
BY DEF PartsNext, partVars, accountVars, Migrating, Cleaning, Alarming, Granting, Naming,
       Monitoring, Boosting, Paging

LEMMA SkillPart == [PartsNext]_partVars => [SkillNext \/ SkillRestart]_skillVars
BY DEF PartsNext, partVars, accountVars, Migrating, Cleaning, Alarming, Granting, Naming,
       Monitoring, Boosting, Paging

(* The fairness of the other parts plays no role for safety. *)
LEMMA PartsSafety == PartsSpec => PartsInit /\ [][PartsNext]_partVars
BY PTL DEF PartsSpec

----------------------------------------------------------------------------
(* Codes: one that is still kept has led to nothing yet. *)
SkillInv ==
    /\ granted \in [Issued -> Nat]
    /\ \A c \in codes : c \in Issued /\ granted[c] = 0
    /\ CodesExchangedOnce

LEMMA SkillInvInit == SkillInit => SkillInv
BY DEF SkillInit, SkillInv, CodesExchangedOnce, Issued

LEMMA SkillInvStep == SkillInv /\ [SkillNext \/ SkillRestart]_skillVars => SkillInv'
<1> SUFFICES ASSUME SkillInv, [SkillNext \/ SkillRestart]_skillVars PROVE SkillInv'
    OBVIOUS
<1> USE DEF SkillInv, CodesExchangedOnce, Issued
<1>1. ASSUME NEW c \in Code, Authorize(c) PROVE SkillInv'
    BY <1>1 DEF Authorize
<1>2. ASSUME NEW c \in Code, Exchange(c) PROVE SkillInv'
    BY <1>2 DEF Exchange
<1>3. ASSUME NEW c \in Code, Refresh(c) PROVE SkillInv'
    BY <1>3 DEF Refresh
<1>4. CASE Expire
    BY <1>4 DEF Expire
<1>5. CASE Sweep
    BY <1>5 DEF Sweep
<1>6. CASE SkillRestart
    BY <1>6 DEF SkillRestart
<1>7. CASE UNCHANGED skillVars
    BY <1>7 DEF skillVars
<1> QED BY <1>1, <1>2, <1>3, <1>4, <1>5, <1>6, <1>7 DEF SkillNext

(* A code is exchanged at most once, whatever repetitions, sweeps and
   restarts come in between (routes/oauth.py 112-190).                      *)
THEOREM CodesAlways == PartsSpec => []CodesExchangedOnce
<1>1. PartsInit => SkillInv
    BY SkillInvInit DEF PartsInit
<1>2. SkillInv /\ [PartsNext]_partVars => SkillInv'
    BY SkillInvStep, SkillPart
<1>3. SkillInv => CodesExchangedOnce
    BY DEF SkillInv
<1> QED BY <1>1, <1>2, <1>3, PartsSafety, PTL

----------------------------------------------------------------------------
(* Alarm.com: the controller in use was made for the account in use.  To see
   that, it is enough that no step changes whom a controller was made for.  *)
Controller == [account : Account, cookie : Account \cup {None}, in : BOOLEAN, listed : BOOLEAN]
Waits(n)   == {w \in [at : {"idle", "login", "otp", "update", "command"}, on : 0..n,
                     for : {"none", "login", "devices", "command"}] :
                 w.at = "login" => w.for # "none"}
Keeps(s, t) ==
    /\ t \in Seq(Controller) /\ Len(t) >= Len(s)
    /\ \A i \in 1..Len(s) : t[i].account = s[i].account

AlarmInv ==
    /\ AlarmTypeOK
    /\ AccountAsGiven
    /\ current # 0 => controller[current].account = client.account
    /\ (\E r \in Call : call[r].at # "idle") => client.account # None
    /\ call \in [Call -> Waits(Len(controller))]

LEMMA ReplaceKeeps ==
    ASSUME NEW s \in Seq(Controller), NEW c \in 0..Len(s), NEW v,
           c # 0 => v \in Controller /\ v.account = s[c].account
    PROVE  Keeps(s, [s EXCEPT ![c] = v]) /\ Len([s EXCEPT ![c] = v]) = Len(s)
<1>1. CASE c = 0
  <2> HIDE DEF Controller
  <2>1. s \in [1..Len(s) -> Controller] /\ c \notin 1..Len(s)
    BY <1>1
  <2> DEFINE D == 1..Len(s)
  <2> HIDE DEF D
  <2>2. s \in [D -> Controller] /\ c \notin D => [s EXCEPT ![c] = v] = s
    OBVIOUS
  <2>3. [s EXCEPT ![c] = v] = s
    BY <2>1, <2>2 DEF D
  <2>4. Len(s) \in Nat
    OBVIOUS
  <2>5. Keeps(s, s)
    BY <2>4 DEF Keeps
  <2> QED BY <2>3, <2>5
<1>2. CASE c # 0
  <2> HIDE DEF Controller
  <2>1. c \in 1..Len(s) /\ v \in Controller
    BY <1>2
  <2> QED BY <2>1, ExceptSeq DEF Keeps
<1> QED BY <1>1, <1>2

LEMMA AppendKeeps ==
    ASSUME NEW s \in Seq(Controller), NEW v \in Controller
    PROVE  /\ Keeps(s, Append(s, v)) /\ Len(Append(s, v)) = Len(s) + 1
           /\ Append(s, v)[Len(s) + 1] = v
<1> HIDE DEF Controller
<1> QED BY AppendProperties DEF Keeps

(* The three ways a controller is changed: let in, let in by a code, listed *)
LEMMA ChangeKeeps ==
    ASSUME NEW s \in Seq(Controller), NEW c \in 0..Len(s)
    PROVE  /\ Keeps(s, [s EXCEPT ![c].in = TRUE])
           /\ Keeps(s, [s EXCEPT ![c].in = TRUE, ![c].cookie = s[c].account])
           /\ Keeps(s, [s EXCEPT ![c].listed = TRUE])
           /\ Len([s EXCEPT ![c].in = TRUE]) = Len(s)
<1>1. c # 0 => s[c] \in Controller
  <2> HIDE DEF Controller
  <2> QED OBVIOUS
<1>2. /\ [s EXCEPT ![c].in = TRUE] = [s EXCEPT ![c] = [s[c] EXCEPT !.in = TRUE]]
      /\ [s EXCEPT ![c].listed = TRUE] = [s EXCEPT ![c] = [s[c] EXCEPT !.listed = TRUE]]
      /\ [s EXCEPT ![c].in = TRUE, ![c].cookie = s[c].account]
            = [s EXCEPT ![c] = [s[c] EXCEPT !.in = TRUE, !.cookie = s[c].account]]
  BY Zenon
<1> DEFINE a == [s[c] EXCEPT !.in = TRUE]
           b == [s[c] EXCEPT !.listed = TRUE]
           d == [s[c] EXCEPT !.in = TRUE, !.cookie = s[c].account]
<1>3. c # 0 => /\ a \in Controller /\ a.account = s[c].account
               /\ b \in Controller /\ b.account = s[c].account
               /\ d \in Controller /\ d.account = s[c].account
  BY <1>1 DEF Controller
<1> HIDE DEF a, b, d
<1>4. Keeps(s, [s EXCEPT ![c] = a]) /\ Len([s EXCEPT ![c] = a]) = Len(s)
  BY <1>3, ReplaceKeeps
<1>5. Keeps(s, [s EXCEPT ![c] = b])
  BY <1>3, ReplaceKeeps
<1>6. Keeps(s, [s EXCEPT ![c] = d])
  BY <1>3, ReplaceKeeps
<1> QED BY <1>2, <1>4, <1>5, <1>6, Zenon DEF a, b, d

----------------------------------------------------------------------------
LEMMA AlarmInvInit == AlarmInit => AlarmInv
<1> SUFFICES ASSUME AlarmInit PROVE AlarmInv
    OBVIOUS
<1>1. controller \in Seq(Controller) /\ Len(controller) = 0
    BY DEF AlarmInit
<1>2. call \in [Call -> Waits(0)]
    BY DEF AlarmInit, Idle, Waits
<1>3. call \in [Call -> Waits(Len(controller))] /\ current \in 0..Len(controller) /\ current = 0
    BY <1>1, <1>2 DEF AlarmInit
<1>4. /\ client \in [account : Account \cup {None}, cookie : Account \cup {None}]
      /\ stored \in [account : Account \cup {None}, cookie : Account \cup {None}]
      /\ loggedIn \in BOOLEAN /\ env \in Environment
      /\ origin \in {"setting", "environment", "nothing"}
    BY AlarmAssumption DEF AlarmInit, NoAccount, OriginOf, AlarmAssumption
<1>6. AccountAsGiven
    BY DEF AlarmInit, OriginOf, AccountAsGiven
<1>5. \A r \in Call : call[r].at = "idle"
    BY DEF AlarmInit, Idle
<1> QED BY <1>1, <1>3, <1>4, <1>5, <1>6 DEF AlarmInv, AlarmTypeOK, Controller, Waits

(* What a step that keeps the controllers has to show for the rest *)
LEMMA InvFromParts ==
    ASSUME AlarmInv, Keeps(controller, controller'),
           client' \in [account : Account \cup {None}, cookie : Account \cup {None}],
           stored' \in [account : Account \cup {None}, cookie : Account \cup {None}],
           loggedIn' \in BOOLEAN, client'.account # None,
           \/ /\ client'.account = client.account /\ stored'.account = stored.account
              /\ UNCHANGED startVars
           \/ AccountAsGiven' /\ env' = env /\ origin' = "setting",
           \/ current' = 0
           \/ current' = current /\ client'.account = client.account
           \/ current' \in 1..Len(controller') /\ controller'[current'].account = client'.account,
           \/ call' = call
           \/ \E r \in Call, w \in Waits(Len(controller')) : call' = [call EXCEPT ![r] = w]
    PROVE  AlarmInv'
<1> USE DEF AlarmInv, AlarmTypeOK
<1>1. Len(controller) \in Nat /\ Len(controller') \in Nat /\ Len(controller) <= Len(controller')
    BY DEF Keeps
<1>2. call \in [Call -> Waits(Len(controller'))]
  <2>1. call \in [Call -> Waits(Len(controller))]
    BY DEF Waits
  <2>2. Waits(Len(controller)) \subseteq Waits(Len(controller'))
    BY <1>1 DEF Waits
  <2> QED BY <2>1, <2>2
<1>3. call' \in [Call -> Waits(Len(controller'))]
    BY <1>2
<1>4. current' \in 0..Len(controller') /\ (current' # 0 => controller'[current'].account = client'.account)
    BY <1>1 DEF Keeps
<1>5. controller' \in Seq(Controller)
    BY DEF Keeps
<1>6. AccountAsGiven' /\ env' \in Environment /\ origin' \in {"setting", "environment", "nothing"}
    BY DEF AccountAsGiven, startVars
<1> QED BY <1>3, <1>4, <1>5, <1>6 DEF Waits, Controller

LEMMA AlarmInvStep == AlarmInv /\ [AlarmNext \/ AlarmRestart]_alarmVars => AlarmInv'
<1> SUFFICES ASSUME AlarmInv, [AlarmNext \/ AlarmRestart]_alarmVars PROVE AlarmInv'
    OBVIOUS
<1> DEFINE Held == [account : Account \cup {None}, cookie : Account \cup {None}]
<1>0. /\ client \in Held /\ stored \in Held /\ AccountAsGiven
      /\ env \in Environment /\ origin \in {"setting", "environment", "nothing"}
      /\ controller \in Seq(Controller) /\ Len(controller) \in Nat /\ current \in 0..Len(controller)
      /\ loggedIn \in BOOLEAN
      /\ call \in [Call -> Waits(Len(controller))]
      /\ current # 0 => controller[current].account = client.account
    BY DEF AlarmInv, AlarmTypeOK, Controller, Waits
<1>a. Keeps(controller, controller)
    BY <1>0 DEF Keeps
<1>b. \A r \in Call :
      /\ call[r].on \in 0..Len(controller) /\ call[r].for \in {"none", "login", "devices", "command"}
      /\ call[r].at = "login" => call[r].for # "none"
    BY <1>0 DEF Waits
<1>c. \A n \in Nat : Idle \in Waits(n)
    BY DEF Idle, Waits
<1>e. \A r \in Call : call[r].at # "idle" => client.account # None
    BY DEF AlarmInv
<1>f. current # 0 => client.account # None
  <2>1. current # 0 => controller[current] \in Controller
    <3> HIDE DEF Controller
    <3> QED BY <1>0
  <2> QED BY <1>0, <2>1, AlarmAssumption DEF Controller
<1>1. ASSUME NEW a \in Account, NEW c \in {a, None}, SaveCredentials(a, c) PROVE AlarmInv'
  <2>1. client' \in Held /\ stored' \in Held /\ AccountAsGiven'
    BY <1>0, <1>1 DEF SaveCredentials, SetCredentials, Typed, AccountAsGiven
  <2>2. current' = 0 /\ loggedIn' \in BOOLEAN /\ call' = call /\ controller' = controller
        /\ env' = env /\ origin' = "setting"
    BY <1>1 DEF SaveCredentials, SetCredentials
  <2>3. client'.account # None
    BY <1>1, AlarmAssumption DEF SaveCredentials, SetCredentials, Typed
  <2> QED BY <2>1, <2>2, <2>3, <1>a, InvFromParts
<1>2. ASSUME NEW r \in Call, NEW why \in {"login", "devices", "command"}, LogIn(r, why)
      PROVE AlarmInv'
  <2>1. /\ Fresh \in Controller /\ Fresh.account = client.account
    BY <1>0, <1>2 DEF LogIn, Fresh, Controller
  <2>2. /\ Keeps(controller, controller') /\ Len(controller') = Len(controller) + 1
        /\ controller'[Len(controller) + 1] = Fresh
    BY <1>0, <1>2, <2>1, AppendKeeps DEF LogIn
  <2>3. current' \in 1..Len(controller') /\ controller'[current'].account = client'.account
    BY <1>0, <1>2, <2>1, <2>2 DEF LogIn
  <2>4. \E w \in Waits(Len(controller')) : call' = [call EXCEPT ![r] = w]
    <3> DEFINE w == [at |-> "login", on |-> current', for |-> why]
    <3>1. w \in Waits(Len(controller'))
      BY <1>0, <2>2, <2>3 DEF Waits
    <3> QED BY <1>2, <3>1 DEF LogIn
  <2> QED BY <1>0, <1>2, <2>2, <2>3, <2>4, InvFromParts DEF LogIn
<1>3. ASSUME NEW r \in Call, NEW why \in {"login", "devices", "command"}, Open(r, why)
      PROVE AlarmInv'
  <2>1. CASE LogIn(r, why)
    BY <1>2, <2>1
  <2>2. CASE ~LogIn(r, why)
    <3>1. controller' = controller /\ UNCHANGED <<client, current, loggedIn, stored, startVars>>
      BY <2>2, <1>3 DEF Open
    <3>2. \E w \in Waits(Len(controller')) : call' = [call EXCEPT ![r] = w]
      BY <1>0, <1>c, <1>3, <2>2, <3>1 DEF Open, Sent, Waiting, Over, Waits
    <3>3. client.account # None
      BY <1>f, <1>3, <2>2 DEF Open, Ready
    <3> QED BY <1>0, <1>a, <3>1, <3>2, <3>3, InvFromParts
  <2> QED BY <2>1, <2>2
<1>4. ASSUME NEW r \in Call, LoginAccepted(r) PROVE AlarmInv'
  <2> DEFINE n == call[r].on
             let == [controller EXCEPT ![n].in = TRUE]
  <2>0. client.account # None
    BY <1>e, <1>4 DEF LoginAccepted
  <2>1. n \in 0..Len(controller)
    BY <1>b
  <2>2. Keeps(controller, let) /\ Len(let) = Len(controller) /\ let \in Seq(Controller)
    <3>1. Keeps(controller, let) /\ Len(let) = Len(controller)
      BY <1>0, <2>1, ChangeKeeps, Zenon
    <3> QED BY <3>1 DEF Keeps
  <2>3. loggedIn' \in BOOLEAN /\ client' = client /\ stored' = stored /\ UNCHANGED startVars
    BY <1>4 DEF LoginAccepted
  <2>4. CASE current = 0 /\ call[r].for = "devices"
    <3>1. /\ controller' = Append(let, Fresh) /\ current' = Len(controller) + 1
          /\ call' = [call EXCEPT ![r] = [at |-> "login", on |-> current', for |-> "devices"]]
      BY <1>4, <2>4 DEF LoginAccepted
    <3>2. Fresh \in Controller
      BY <1>0, <2>0 DEF Fresh, Controller
    <3> HIDE DEF let
    <3>3. Keeps(let, controller') /\ Len(controller') = Len(controller) + 1
          /\ controller'[Len(controller) + 1] = Fresh
      BY <2>2, <3>1, <3>2, AppendKeeps
    <3>4. Keeps(controller, controller')
      BY <1>0, <2>2, <3>3 DEF Keeps
    <3>5. current' \in 1..Len(controller') /\ controller'[current'].account = client'.account
      BY <1>0, <2>3, <3>1, <3>3 DEF Fresh
    <3>6. \E w \in Waits(Len(controller')) : call' = [call EXCEPT ![r] = w]
      <4> DEFINE w == [at |-> "login", on |-> current', for |-> "devices"]
      <4>1. w \in Waits(Len(controller'))
        BY <1>0, <3>3, <3>5 DEF Waits
      <4> QED BY <3>1, <4>1
    <3> QED BY <1>0, <2>0, <2>3, <3>4, <3>5, <3>6, InvFromParts
  <2>5. CASE ~(current = 0 /\ call[r].for = "devices")
    <3>1. controller' = let /\ current' = current
      BY <1>4, <2>5, Zenon DEF LoginAccepted
    <3>2. \E w \in Waits(Len(controller')) : call' = [call EXCEPT ![r] = w]
      <4>1. \/ call' = [call EXCEPT ![r] = Idle]
            \/ \E at \in {"update", "command"} :
                  call' = [call EXCEPT ![r] = [at |-> at, on |-> current, for |-> "none"]]
        BY <1>b, <1>4, <2>5 DEF LoginAccepted, Sent, Waiting, Over
      <4>2. \A at \in {"update", "command"} :
              [at |-> at, on |-> current, for |-> "none"] \in Waits(Len(controller'))
        BY <1>0, <2>2, <3>1 DEF Waits
      <4>3. Idle \in Waits(Len(controller'))
        BY <1>0, <1>c, <2>2, <3>1
      <4> QED BY <4>1, <4>2, <4>3
    <3> QED BY <1>0, <2>0, <2>2, <2>3, <3>1, <3>2, InvFromParts
  <2> QED BY <2>4, <2>5
<1>5. ASSUME NEW r \in Call, LoginRefused(r) \/ OtpRefused(r) \/ UpdateFailed(r) \/ CommandEnded(r)
      PROVE AlarmInv'
  <2>1. /\ UNCHANGED <<client, controller, current, stored, startVars>> /\ loggedIn' \in BOOLEAN
        /\ call' = [call EXCEPT ![r] = Idle] /\ call[r].at # "idle"
    BY <1>0, <1>5 DEF LoginRefused, OtpRefused, UpdateFailed, CommandEnded, Over
  <2> QED BY <1>0, <1>a, <1>c, <1>e, <2>1, InvFromParts
<1>6. ASSUME NEW r \in Call, SubmitOtp(r) PROVE AlarmInv'
  <2> DEFINE w == [at |-> "otp", on |-> current, for |-> "none"]
  <2>1. w \in Waits(Len(controller'))
    BY <1>0, <1>6 DEF SubmitOtp, Waits
  <2>2. /\ call' = [call EXCEPT ![r] = w]
        /\ UNCHANGED <<client, controller, current, loggedIn, stored, startVars>>
    BY <1>6 DEF SubmitOtp, Waiting
  <2>3. client.account # None
    BY <1>f, <1>6 DEF SubmitOtp
  <2> QED BY <1>0, <1>a, <2>1, <2>2, <2>3, InvFromParts
<1>7. ASSUME NEW r \in Call, OtpAccepted(r) PROVE AlarmInv'
  <2> DEFINE n == call[r].on
  <2>0. client.account # None
    BY <1>e, <1>7 DEF OtpAccepted
  <2>1. n \in 0..Len(controller)
    BY <1>b
  <2>2. Keeps(controller, controller')
    BY <1>0, <1>7, <2>1, ChangeKeeps, Zenon DEF OtpAccepted
  <2>3. /\ current' = current /\ call' = [call EXCEPT ![r] = Idle]
        /\ loggedIn' \in BOOLEAN /\ UNCHANGED startVars
    BY <1>0, <1>7 DEF OtpAccepted, Over
  <2>4. current # 0 => controller'[current].cookie \in Account \cup {None}
    <3> HIDE DEF Controller
    <3>1. current # 0 => controller'[current] \in Controller
      BY <1>0, <2>2 DEF Keeps
    <3> QED BY <3>1 DEF Controller
  <2>5. client' \in Held /\ client'.account = client.account
    BY <1>0, <1>7, <2>4 DEF OtpAccepted
  <2>6. stored' \in Held /\ stored'.account = stored.account
    BY <1>0, <1>7, <2>5 DEF OtpAccepted, Remember
  <2>7. Idle \in Waits(Len(controller'))
    BY <1>c, <2>2 DEF Keeps
  <2> QED BY <1>0, <2>0, <2>2, <2>3, <2>5, <2>6, <2>7, InvFromParts
<1>8. ASSUME NEW r \in Call, Updated(r) PROVE AlarmInv'
  <2> DEFINE n == call[r].on
  <2>0. client.account # None
    BY <1>e, <1>8 DEF Updated
  <2>1. n \in 0..Len(controller)
    BY <1>b
  <2>2. Keeps(controller, controller')
    BY <1>0, <1>8, <2>1, ChangeKeeps, Zenon DEF Updated
  <2>3. /\ call' = [call EXCEPT ![r] = Idle] /\ UNCHANGED <<client, current, loggedIn, stored, startVars>>
    BY <1>8 DEF Updated, Over
  <2>4. Idle \in Waits(Len(controller'))
    BY <1>c, <2>2 DEF Keeps
  <2> QED BY <1>0, <2>0, <2>2, <2>3, <2>4, InvFromParts
<1>9. CASE AlarmRestart
  <2>1. /\ stored' = stored /\ current' = 0 /\ loggedIn' = FALSE
        /\ controller' = <<>> /\ call' = [r \in Call |-> Idle]
    BY <1>9 DEF AlarmRestart
  <2>2. controller' \in Seq(Controller) /\ Len(controller') = 0
    BY <2>1
  <2>3. call' \in [Call -> Waits(Len(controller'))] /\ \A r \in Call : call'[r].at = "idle"
    BY <1>c, <2>1, <2>2 DEF Idle
  <2>4. /\ client' \in Held /\ stored' \in Held /\ current' = 0 /\ loggedIn' \in BOOLEAN
        /\ env' \in Environment /\ origin' \in {"setting", "environment", "nothing"}
    BY <1>0, <1>9, <2>1, AlarmAssumption DEF AlarmRestart, OriginOf, AlarmAssumption
  <2>5. AlarmTypeOK'
    BY <2>2, <2>3, <2>4 DEF AlarmTypeOK, Controller, Waits
  <2>6. AccountAsGiven'
    BY <1>9 DEF AlarmRestart, OriginOf, AccountAsGiven
  <2> QED BY <2>3, <2>4, <2>5, <2>6 DEF AlarmInv
<1>10. CASE UNCHANGED alarmVars
    BY <1>10 DEF alarmVars, startVars, AlarmInv, AlarmTypeOK, AccountAsGiven
<1> QED BY <1>1, <1>3, <1>4, <1>5, <1>6, <1>7, <1>8, <1>9, <1>10 DEF AlarmNext

(* Whatever logins, codes, answers and saves overtake one another, and from
   wherever each start has its account, the client has the account it was
   given last (routes/alarm_com.py 101-166, 207-228; alarm_com_client.py
   28-53, 119-148).                                                         *)
THEOREM AccountsAlways == PartsSpec => []AccountAsGiven
<1>1. PartsInit => AlarmInv
    BY AlarmInvInit DEF PartsInit
<1>2. AlarmInv /\ [PartsNext]_partVars => AlarmInv'
    BY AlarmInvStep, AlarmPart
<1>3. AlarmInv => AccountAsGiven
    BY DEF AlarmInv
<1> QED BY <1>1, <1>2, <1>3, PartsSafety, PTL

(* A command is sent for the account that is configured at that moment
   (alarm_com_client.py 60-103, 150-155, 267-340).                          *)
THEOREM CommandsAlways == PartsSpec => CommandsForConfigured
<1> DEFINE Sending ==
      \A r \in Call :
         call[r].at # "command" /\ call'[r].at = "command"
         => controller'[call'[r].on].account = client'.account
<1>1. PartsInit => AlarmInv
    BY AlarmInvInit DEF PartsInit
<1>2. AlarmInv /\ [PartsNext]_partVars => AlarmInv'
    BY AlarmInvStep, AlarmPart
<1>3. ASSUME AlarmInv, AlarmInv', [AlarmNext \/ AlarmRestart]_alarmVars PROVE Sending
  <2>1. SUFFICES ASSUME NEW r \in Call, call[r].at # "command", call'[r].at = "command"
                 PROVE  call'[r].on = current' /\ current' # 0
    BY <1>3 DEF AlarmInv
  <2> USE DEF Waiting, Over, Idle
  <2>0. call \in [Call -> Waits(Len(controller))]
    BY <1>3 DEF AlarmInv
  <2>2. ASSUME NEW q \in Call, NEW why \in {"login", "devices", "command"}, LogIn(q, why) PROVE FALSE
    BY <2>0, <2>1, <2>2 DEF LogIn
  <2>3. ASSUME NEW q \in Call, NEW why \in {"login", "devices", "command"}, Open(q, why), ~LogIn(q, why)
        PROVE  call'[r].on = current' /\ current' # 0
    BY <2>0, <2>1, <2>3 DEF Open, Sent, Ready
  <2>4. ASSUME NEW q \in Call, LoginAccepted(q)
        PROVE  call'[r].on = current' /\ current' # 0
    <3>1. CASE call[q].for = "login"
      BY <2>0, <2>1, <2>4, <3>1 DEF LoginAccepted
    <3>2. CASE call[q].for = "devices"
      BY <2>0, <2>1, <2>4, <3>2 DEF LoginAccepted
    <3>3. CASE call[q].for = "command"
      BY <2>0, <2>1, <2>4, <3>3 DEF LoginAccepted, Sent
    <3> QED BY <2>0, <2>4, <3>1, <3>2, <3>3 DEF LoginAccepted, Waits
  <2>5. ASSUME NEW q \in Call, \/ LoginRefused(q) \/ SubmitOtp(q) \/ OtpAccepted(q) \/ OtpRefused(q)
                               \/ Updated(q) \/ UpdateFailed(q) \/ CommandEnded(q) PROVE FALSE
    <3>1. \/ call' = [call EXCEPT ![q] = [at |-> "otp", on |-> current, for |-> "none"]]
          \/ call' = [call EXCEPT ![q] = [at |-> "idle", on |-> 0, for |-> "none"]]
      BY <2>5 DEF LoginRefused, SubmitOtp, OtpAccepted, OtpRefused, Updated, UpdateFailed, CommandEnded
    <3> QED BY <2>0, <2>1, <3>1
  <2>6. ASSUME NEW a \in Account, NEW c \in {a, None}, SaveCredentials(a, c) PROVE FALSE
    BY <2>1, <2>6 DEF SaveCredentials
  <2>7. ~AlarmRestart /\ ~UNCHANGED alarmVars
    BY <2>1 DEF AlarmRestart, alarmVars
  <2> QED BY <1>3, <2>2, <2>3, <2>4, <2>5, <2>6, <2>7 DEF AlarmNext
<1>4. AlarmInv /\ AlarmInv' /\ [PartsNext]_partVars => [Sending]_alarmVars
    BY <1>3, AlarmPart
<1> QED BY <1>1, <1>2, <1>4, PartsSafety, PTL DEF CommandsForConfigured

=============================================================================
