------------------------------ MODULE HiBoost -------------------------------
(***************************************************************************)
(* The HiBoost signal booster, read and set through its vendor's cloud:    *)
(* HiBoostClient keeps a token, HiBoostService a cache of 30 seconds, and  *)
(* HiBoostScheduler records a history.  Nothing here awaits in its middle, *)
(* so each request and each poll is one step of the event loop, faults of  *)
(* the cloud included.                                                     *)
(***************************************************************************)
EXTENDS Integers

CONSTANTS
    Asked,      \* gains a request may ask for; 0..20 are accepted
    TTL,        \* CACHE_TTL, in ticks
    MaxFaults   \* bound: faults of the cloud, tokens revoked, logins saved,
                \* changes made at the booster

ASSUME HiBoostAssumption ==
    Asked \subseteq Int /\ 0 \in Asked /\ TTL \in Nat \ {0} /\ MaxFaults \in Nat

Accepted == {g \in Asked : 0 <= g /\ g <= 20}
Setting  == [gain : Accepted, on : BOOLEAN]
Nothing  == [gain |-> -1, on |-> FALSE]

VARIABLES
    booster,   \* the parameters of the device itself
    login,     \* whether the client's account and password are right
    token,     \* what the cloud thinks of _token: "none", "good" or "revoked"
    dashAge,   \* age of the cached dashboard; TTL when there is none to use
    detail,    \* the cached detail and its age
    out,       \* what the step just taken showed or recorded
    since,     \* ghost: ticks since the booster last had each setting, TTL for
               \* one it did not have since the last acknowledged write
    faults     \* bound

boosterVars == <<booster, login, token, dashAge, detail, out, since, faults>>

Silent  == [kind |-> "none", value |-> Nothing]
Empty   == [value |-> Nothing, age |-> TTL]
Aged(a) == IF a < TTL THEN a + 1 ELSE TTL

BoosterInit ==
    /\ booster \in {s \in Setting : s.gain = 0}
    /\ login \in {"right", "wrong"} /\ token = "none"
    /\ dashAge = TTL /\ detail = Empty /\ out = Silent
    /\ since = [s \in Setting |-> IF s = booster THEN 0 ELSE TTL]
    /\ faults = 0

----------------------------------------------------------------------------
(* The client.  authenticate(): the token it has afterwards, or none *)
NewToken(f) == IF login = "right" /\ f = 0 THEN "good" ELSE "none"

(* What a call comes to: does it succeed, the token left, the faults met *)
Result(ok, t, f) == [ok |-> ok, token |-> t, faults |-> f]

(* Mutant of Get: _get_token() before the refused token is dropped. *)
GetKeepingToken(t) ==
    CASE t = "good"    -> {Result(TRUE, t, 0), Result(FALSE, t, 1)}
      [] t = "revoked" -> {Result(FALSE, t, 0)}
      [] OTHER         -> {Result(NewToken(0) = "good", NewToken(0), 0), Result(FALSE, "none", 1),
                           Result(FALSE, NewToken(0), 1)}

(* _get(): log in if there is no token; a 401 drops the token, logs in anew
   and asks once more.                                                      *)
Get(t) ==
    CASE t = "good" -> {Result(TRUE, t, 0), Result(FALSE, t, 1)}
      [] OTHER      -> {Result(NewToken(0) = "good", NewToken(0), 0)}
                       \cup {Result(FALSE, u, 1) : u \in {t, NewToken(0), NewToken(1)}}

(* update_device_params(): the token is used as it is, a 401 fails the call.
   The write can reach the booster and its answer be lost.                  *)
Post(t) ==
    LET used == IF t = "none" THEN NewToken(0) ELSE t
    IN  {[call |-> Result(used = "good", used, 0), applied |-> used = "good"]}
        \cup {[call |-> Result(FALSE, u, 1), applied |-> FALSE] : u \in {t, used}}
        \cup {[call |-> Result(FALSE, u, 1), applied |-> TRUE] : u \in {used} \cap {"good"}}

Costs(r) ==
    /\ faults + r.faults <= MaxFaults /\ faults' = faults + r.faults
    /\ token' = r.token

----------------------------------------------------------------------------
(* The service.  A cached entry younger than TTL answers without a call. *)
Shows(s) == out' = [kind |-> "shown", value |-> s]

Dashboard ==
    /\ \/ dashAge < TTL /\ UNCHANGED <<dashAge, token, faults>>
       \/ /\ dashAge = TTL
          /\ \E r \in Get(token) : Costs(r) /\ dashAge' = IF r.ok THEN 0 ELSE dashAge
    /\ out' = Silent
    /\ UNCHANGED <<booster, login, detail, since>>

Detail ==
    /\ \/ detail.age < TTL /\ Shows(detail.value) /\ UNCHANGED <<detail, token, faults>>
       \/ /\ detail.age = TTL
          /\ \E r \in Get(token) :
                /\ Costs(r)
                /\ IF r.ok THEN Shows(booster) /\ detail' = [value |-> booster, age |-> 0]
                   ELSE out' = Silent /\ UNCHANGED detail
    /\ UNCHANGED <<booster, login, dashAge, since>>

(* POST /refresh: clear_cache(), then the detail from the cloud *)
RefreshDetail ==
    /\ dashAge' = TTL
    /\ \E r \in Get(token) :
          /\ Costs(r)
          /\ IF r.ok THEN Shows(booster) /\ detail' = [value |-> booster, age |-> 0]
             ELSE out' = Silent /\ detail' = Empty
    /\ UNCHANGED <<booster, login, since>>

(* _uint_to_hex and back: a byte *)
Byte(g) == g % 256

(* What update_mgc() and update_rf_switch() write; a gain that is refused is
   refused before anything is sent.                                          *)
Requests ==
    {[booster EXCEPT !.gain = Byte(g)] : g \in Accepted}
    \cup {[booster EXCEPT !.on = b] : b \in BOOLEAN}

Had(s, acknowledged) ==
    [x \in Setting |-> IF x = s THEN 0 ELSE IF acknowledged THEN TTL ELSE since[x]]

(* Mutant of Update: the cache is not cleared. *)
UpdateCached ==
    \E s \in Requests, r \in Post(token) :
        /\ Costs(r.call)
        /\ booster' = IF r.applied THEN s ELSE booster
        /\ since' = Had(booster', r.call.ok)
        /\ out' = Silent
        /\ UNCHANGED <<login, dashAge, detail>>

Update ==
    \E s \in Requests, r \in Post(token) :
        /\ Costs(r.call)
        /\ booster' = IF r.applied THEN s ELSE booster
        /\ since' = Had(booster', r.call.ok)
        /\ IF r.call.ok THEN dashAge' = TTL /\ detail' = Empty
           ELSE UNCHANGED <<dashAge, detail>>
        /\ out' = Silent
        /\ UNCHANGED login

----------------------------------------------------------------------------
(* The scheduler, _record_snapshot(): the list of devices, from the cache if
   it is there; then, the cache cleared, the detail and a row of history.  A
   failure of either is logged.                                             *)
Poll ==
    /\ \E l \in IF dashAge < TTL THEN {Result(TRUE, token, 0)} ELSE Get(token) :
          IF ~l.ok THEN Costs(l) /\ out' = Silent /\ UNCHANGED <<dashAge, detail>>
          ELSE \E r \in Get(l.token) :
                 /\ Costs([r EXCEPT !.faults = @ + l.faults])
                 /\ dashAge' = TTL
                 /\ IF r.ok THEN /\ detail' = [value |-> booster, age |-> 0]
                                 /\ out' = [kind |-> "recorded", value |-> booster]
                    ELSE detail' = Empty /\ out' = Silent
    /\ UNCHANGED <<booster, login, since>>

(* POST /api/settings/hiboost/credentials: the token goes, the cache stays. *)
SaveLogin(l) ==
    /\ faults < MaxFaults /\ faults' = faults + 1
    /\ login' = l /\ token' = "none" /\ out' = Silent
    /\ UNCHANGED <<booster, dashAge, detail, since>>

(* The process starts again with nothing but a login: that of the environment
   or the stored one, either of which may be right, or none, which logs in
   nowhere, as when the setting cannot be read.                             *)
RestartBooster ==
    /\ login' \in {"right", "wrong"}
    /\ token' = "none" /\ dashAge' = TTL /\ detail' = Empty /\ out' = Silent
    /\ UNCHANGED <<booster, since, faults>>

(* The world: time, the cloud that revokes the token or lets it expire (the
   client forgets it after 24 hours less 300 seconds), the booster's own app *)
Tick ==
    /\ dashAge' = Aged(dashAge) /\ detail' = [detail EXCEPT !.age = Aged(@)]
    /\ since' = [s \in Setting |-> IF s = booster THEN 0 ELSE Aged(since[s])]
    /\ out' = Silent /\ UNCHANGED <<booster, login, token, faults>>

TokenEnds ==
    /\ token = "good" /\ out' = Silent
    /\ \/ token' = "none" /\ UNCHANGED faults
       \/ token' = "revoked" /\ faults < MaxFaults /\ faults' = faults + 1
    /\ UNCHANGED <<booster, login, dashAge, detail, since>>

Turned ==
    /\ faults < MaxFaults /\ faults' = faults + 1
    /\ booster' \in Setting /\ since' = Had(booster', FALSE)
    /\ out' = Silent /\ UNCHANGED <<login, token, dashAge, detail>>

BoosterNext ==
    \/ Dashboard \/ Detail \/ RefreshDetail \/ Update \/ Poll
    \/ \E l \in {"right", "wrong"} : SaveLogin(l)
    \/ RestartBooster \/ Tick \/ TokenEnds \/ Turned

----------------------------------------------------------------------------
(* What a request is shown is what the booster had less than TTL ago and not
   before the last write that was acknowledged; what the history records is
   what it has at that moment (hiboost_service.py 63-92, 108-186;
   hiboost_scheduler.py 60-80).                                             *)
AnswersRecent ==
    /\ out.kind = "shown" => since[out.value] < TTL
    /\ out.kind = "recorded" => out.value = booster

Authorized == token = "good"

=============================================================================
