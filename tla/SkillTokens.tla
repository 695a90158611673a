----------------------------- MODULE SkillTokens -----------------------------
(***************************************************************************)
(* The OAuth provider that the Alexa skill is linked through: codes and    *)
(* tokens in three dictionaries of the process.  Each handler runs on the  *)
(* event loop without a wait once it has read its body; Amazon may send a  *)
(* request again whose answer it did not get.                              *)
(***************************************************************************)
EXTENDS Naturals, FiniteSets

CONSTANTS
    Code    \* authorization codes that may be issued, each once

VARIABLES
    codes,      \* _auth_codes
    access,     \* _access_tokens, each known by the code that led to it
    refresh,    \* _refresh_tokens, likewise
    expired,    \* what is past its time in each of the three
    granted     \* ghost: codes issued in the life of the process, and how often exchanged

skillVars == <<codes, access, refresh, expired, granted>>

NothingExpired == [codes |-> {}, access |-> {}, refresh |-> {}]

SkillInit ==
    /\ codes = {} /\ access = {} /\ refresh = {}
    /\ expired = NothingExpired
    /\ granted = [c \in {} |-> 0]

Issued == DOMAIN granted

Authorize(c) ==
    /\ c \notin Issued
    /\ codes' = codes \cup {c}
    /\ granted' = [i \in Issued \cup {c} |-> IF i = c THEN 0 ELSE granted[i]]
    /\ UNCHANGED <<access, refresh, expired>>

(* Mutant of Exchange: the code is looked up and left where it is. *)
ExchangeKeeping(c) ==
    /\ c \in Issued
    /\ IF c \in codes \ expired.codes
       THEN /\ access' = access \cup {c} /\ refresh' = refresh \cup {c}
            /\ expired' = [expired EXCEPT !.access = @ \ {c}]
            /\ granted' = [granted EXCEPT ![c] = @ + 1]
       ELSE UNCHANGED <<access, refresh, expired, granted>>
    /\ UNCHANGED codes

(* POST /token with a code: popped before it is looked at *)
Exchange(c) ==
    /\ c \in Issued
    /\ codes' = codes \ {c}
    /\ IF c \in codes \ expired.codes
       THEN /\ access' = access \cup {c} /\ refresh' = refresh \cup {c}
            /\ granted' = [granted EXCEPT ![c] = @ + 1]
            /\ expired' = [expired EXCEPT !.codes = @ \ {c}]
       ELSE /\ UNCHANGED <<access, refresh, granted>>
            /\ expired' = [expired EXCEPT !.codes = @ \ {c}]

(* POST /token with a refresh token, which stays good for its year *)
Refresh(c) ==
    /\ c \in refresh \ expired.refresh
    /\ access' = access \cup {c}
    /\ expired' = [expired EXCEPT !.access = @ \ {c}]
    /\ UNCHANGED <<codes, refresh, granted>>

(* Time passes: a code after five minutes, an access token after an hour, a
   refresh token after a year and never before the access token it came with *)
Expire ==
    /\ \E c \in Issued :
         \/ c \in codes /\ expired' = [expired EXCEPT !.codes = @ \cup {c}]
         \/ c \in access /\ expired' = [expired EXCEPT !.access = @ \cup {c}]
         \/ /\ c \in refresh /\ c \notin access \ expired.access
            /\ expired' = [expired EXCEPT !.refresh = @ \cup {c}]
    /\ UNCHANGED <<codes, access, refresh, granted>>

(* _expire_oauth_entries, every five minutes *)
Sweep ==
    /\ codes' = codes \ expired.codes
    /\ access' = access \ expired.access
    /\ refresh' = refresh \ expired.refresh
    /\ expired' = NothingExpired
    /\ UNCHANGED granted

(* A restart forgets everything: the skill has to be linked again. *)
SkillRestart ==
    /\ codes' = {} /\ access' = {} /\ refresh' = {}
    /\ expired' = NothingExpired
    /\ UNCHANGED granted

SkillNext ==
    \/ Expire \/ Sweep
    \/ \E c \in Code : Authorize(c) \/ Exchange(c) \/ Refresh(c)

(* A code leads to one pair of tokens, whatever repetitions, sweeps and
   restarts come between the requests that carry it.                        *)
CodesExchangedOnce == \A c \in Issued : granted[c] <= 1

=============================================================================
