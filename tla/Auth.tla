-------------------------------- MODULE Auth --------------------------------
(***************************************************************************)
(* AuthService: a phone asks for a one-time password (requestOtp) and      *)
(* trades it for a token (verifyOtp).  The rate counter and the OTPs are   *)
(* keys of redis-cache, the sessions keys of redis-session.  verifyOtp     *)
(* decides by the key of the OTP alone; its row in otp_codes is only kept  *)
(* up to date.  Nothing here is a transaction: each call takes effect by   *)
(* itself, and the rows are taken to be durable.                           *)
(*                                                                         *)
(* One action per awaited call.  An ask stands for the request_id that it  *)
(* creates, and a phone for the user that it belongs to.                   *)
(***************************************************************************)
EXTENDS Naturals

CONSTANTS
  Asks,       \* POST /auth/otp/request: a finite number of them
  Logins,     \* POST /auth/otp/verify: a finite number of them
  Phones,
  Codes,      \* the six-digit codes
  Limit,      \* OTPs per phone and window (3)
  MaxRate,    \* bound on a counter, above which no command is sent twice
  None        \* no phone, no code, no key

ASSUME AuthAssumption ==
  /\ None \notin Phones \cup Codes \cup Asks
  /\ Limit \in Nat \ {0}
  /\ MaxRate \in Nat

VARIABLES
  rate,      \* rate[p]: the counter otp_rate:<p>; 0 when there is no such key
  expiring,  \* the phones whose counter has an expiry
  otp,       \* otp[a]: the key otp:<a>, holding a phone and a code
  session,   \* the phones whose user has a key session:<id>
  rows,      \* otp_codes, by the ask that inserted them
  users,     \* the phones with a row in users
  asked,     \* asked[a]: control point, phone and code of ask a
  login      \* login[v]: control point of verification v, the ask it names,
             \* the code it presents and the OTP that it has read

redisVars == <<rate, expiring, otp, session>>
tableVars == <<rows, users>>
vars == <<rate, expiring, otp, session, rows, users, asked, login>>

Entry == [phone : Phones, code : Codes]
OtpRow == [id : Asks, phone : Phones, code : Codes, consumed : BOOLEAN]

AskPoints   == {"idle", "incr", "expire", "insert", "setex", "sent", "refused", "error"}
LoginPoints == {"idle", "get", "del", "consume", "upsert", "setex",
                "loggedIn", "refused", "error"}

TypeOK ==
  /\ rate \in [Phones -> Nat]
  /\ expiring \in SUBSET Phones
  /\ otp \in [Asks -> Entry \cup {None}]
  /\ session \in SUBSET Phones
  /\ rows \in SUBSET OtpRow
  /\ users \in SUBSET Phones
  /\ asked \in [Asks -> [at : AskPoints, phone : Phones \cup {None}, code : Codes \cup {None}]]
  /\ login \in [Logins -> [at : LoginPoints, ask : Asks \cup {None},
                           code : Codes \cup {None}, read : Entry \cup {None}]]

Init ==
  /\ rate = [p \in Phones |-> 0]
  /\ expiring = {}
  /\ otp = [a \in Asks |-> None]
  /\ session = {}
  /\ rows = {}
  /\ users = {}
  /\ asked = [a \in Asks |-> [at |-> "idle", phone |-> None, code |-> None]]
  /\ login = [v \in Logins |-> [at |-> "idle", ask |-> None, code |-> None, read |-> None]]
-----------------------------------------------------------------------------
(* requestOtp *)

AskStep(a, from, to) ==
  /\ asked[a].at = from
  /\ asked' = [asked EXCEPT ![a].at = to]
  /\ UNCHANGED login

Ask(a) ==
  /\ asked[a].at = "idle"
  /\ \E p \in Phones :
       asked' = [asked EXCEPT ![a].at = "incr", ![a].phone = p]
  /\ UNCHANGED <<login, redisVars, tableVars>>

\* INCR otp_rate:<phone>: a counter that starts gets its expiry next, and one
\* above the limit refuses the request.
Incr(a) ==
  LET count == rate[asked[a].phone] + 1
  IN  /\ AskStep(a, "incr", IF count = 1 THEN "expire"
                            ELSE IF count > Limit THEN "refused" ELSE "insert")
      /\ rate' = [rate EXCEPT ![asked[a].phone] = count]
      /\ UNCHANGED <<expiring, otp, session, tableVars>>

\* The INCR takes effect but its answer is lost: ioredis sends it again.
IncrUnanswered(a) ==
  /\ asked[a].at = "incr"
  /\ rate[asked[a].phone] < MaxRate
  /\ rate' = [rate EXCEPT ![asked[a].phone] = @ + 1]
  /\ UNCHANGED <<expiring, otp, session, tableVars, asked, login>>

\* EXPIRE otp_rate:<phone> 60, which does nothing if the key has gone.
Expire(a) ==
  /\ AskStep(a, "expire", "insert")
  /\ expiring' = IF rate[asked[a].phone] > 0 THEN expiring \cup {asked[a].phone} ELSE expiring
  /\ UNCHANGED <<rate, otp, session, tableVars>>

\* Mutant of InsertCode: the code stays in the database.
InsertCodeOnly(a) ==
  /\ AskStep(a, "insert", "setex")
  /\ \E k \in Codes :
       rows' = rows \cup {[id |-> a, phone |-> asked[a].phone, code |-> k, consumed |-> FALSE]}
  /\ UNCHANGED <<users, redisVars>>

\* INSERT INTO otp_codes, with a code drawn at random.
InsertCode(a) ==
  /\ asked[a].at = "insert"
  /\ \E k \in Codes :
       /\ asked' = [asked EXCEPT ![a].at = "setex", ![a].code = k]
       /\ rows' = rows \cup {[id |-> a, phone |-> asked[a].phone, code |-> k, consumed |-> FALSE]}
  /\ UNCHANGED <<users, redisVars, login>>

\* SETEX otp:<request_id>; then the client learns the request_id.
SetOtp(a, end) ==
  /\ AskStep(a, "setex", end)
  /\ otp' = [otp EXCEPT ![a] = [phone |-> asked[a].phone, code |-> asked[a].code]]
  /\ UNCHANGED <<rate, expiring, session, tableVars>>

\* A call rejects, or the process dies: nothing is undone.  A last call may
\* have taken effect.
AskFails(a) ==
  \/ /\ \E s \in {"incr", "expire", "insert", "setex"} : AskStep(a, s, "error")
     /\ UNCHANGED <<redisVars, tableVars>>
  \/ SetOtp(a, "error")
-----------------------------------------------------------------------------
(* verifyOtp *)

LoginStep(v, from, to) ==
  /\ login[v].at = from
  /\ login' = [login EXCEPT ![v].at = to]
  /\ UNCHANGED asked

\* A client knows the request_ids it has been told, and guesses the code.
Present(v) ==
  /\ login[v].at = "idle"
  /\ \E a \in Asks, k \in Codes :
       /\ asked[a].at = "sent"
       /\ login' = [login EXCEPT ![v].at = "get", ![v].ask = a, ![v].code = k]
  /\ UNCHANGED <<asked, redisVars, tableVars>>

\* GET otp:<request_id>, and the comparison of the codes.
Get(v) ==
  LET entry   == otp[login[v].ask]
      matches == entry # None /\ entry.code = login[v].code
  IN  /\ login[v].at = "get"
      /\ login' = IF matches THEN [login EXCEPT ![v].at = "del", ![v].read = entry]
                  ELSE [login EXCEPT ![v].at = "refused"]
      /\ UNCHANGED <<asked, redisVars, tableVars>>

\* Mutant of Del: the key is left to its expiry.
DelNothing(v) ==
  /\ LoginStep(v, "del", "consume")
  /\ UNCHANGED <<redisVars, tableVars>>

\* DEL otp:<request_id>.
Del(v) ==
  /\ LoginStep(v, "del", "consume")
  /\ otp' = [otp EXCEPT ![login[v].ask] = None]
  /\ UNCHANGED <<rate, expiring, session, tableVars>>

\* Mutant of Consume: it consumes whatever the phone has been sent.
ConsumeAll(v) ==
  /\ LoginStep(v, "consume", "upsert")
  /\ LET used == {x \in rows : x.phone = login[v].read.phone}
     IN  rows' = (rows \ used) \cup {[x EXCEPT !.consumed = TRUE] : x \in used}
  /\ UNCHANGED <<users, redisVars>>

\* UPDATE otp_codes SET consumed = TRUE, for every row of this phone and code.
Consume(v) ==
  /\ LoginStep(v, "consume", "upsert")
  /\ LET used == {x \in rows : x.phone = login[v].read.phone /\ x.code = login[v].read.code}
     IN  rows' = (rows \ used) \cup {[x EXCEPT !.consumed = TRUE] : x \in used}
  /\ UNCHANGED <<users, redisVars>>

\* Mutant of Upsert: the user is left to be created with the first job.
UpsertLater(v) ==
  /\ LoginStep(v, "upsert", "setex")
  /\ UNCHANGED <<rows, users, redisVars>>

\* INSERT INTO users ... ON CONFLICT DO UPDATE.
Upsert(v) ==
  /\ LoginStep(v, "upsert", "setex")
  /\ users' = users \cup {login[v].read.phone}
  /\ UNCHANGED <<rows, redisVars>>

\* Mutant of SetSession: the SETEX is not awaited, nor its failure noticed.
SetSessionOrNot(v, end) ==
  /\ LoginStep(v, "setex", end)
  /\ session' \in {session, session \cup {login[v].read.phone}}
  /\ UNCHANGED <<rate, expiring, otp, tableVars>>

\* SETEX session:<user.id>; then the client gets the token.
SetSession(v, end) ==
  /\ LoginStep(v, "setex", end)
  /\ session' = session \cup {login[v].read.phone}
  /\ UNCHANGED <<rate, expiring, otp, tableVars>>

LoginFails(v) ==
  \/ /\ \E s \in {"get", "del", "consume", "upsert", "setex"} : LoginStep(v, s, "error")
     /\ UNCHANGED <<redisVars, tableVars>>
  \/ SetSession(v, "error")
-----------------------------------------------------------------------------
(* Redis *)

\* The sixty seconds of a counter with an expiry are over.
RateExpires(p) ==
  /\ p \in expiring
  /\ rate' = [rate EXCEPT ![p] = 0]
  /\ expiring' = expiring \ {p}
  /\ UNCHANGED <<otp, session, tableVars, asked, login>>

\* redis-cache evicts keys (allkeys-lru), with and without an expiry, and loses
\* them all in a restart, which is many of these steps.
RateEvicted(p) ==
  /\ rate[p] > 0
  /\ rate' = [rate EXCEPT ![p] = 0]
  /\ expiring' = expiring \ {p}
  /\ UNCHANGED <<otp, session, tableVars, asked, login>>

\* An OTP or a session expires or is evicted.
OtpLost(a) ==
  /\ otp[a] # None
  /\ otp' = [otp EXCEPT ![a] = None]
  /\ UNCHANGED <<rate, expiring, session, tableVars, asked, login>>

SessionLost(p) ==
  /\ p \in session
  /\ session' = session \ {p}
  /\ UNCHANGED <<rate, expiring, otp, tableVars, asked, login>>
-----------------------------------------------------------------------------
RequestOtp(a) == Incr(a) \/ Expire(a) \/ InsertCode(a) \/ SetOtp(a, "sent")

VerifyOtp(v) == Get(v) \/ Del(v) \/ Consume(v) \/ Upsert(v) \/ SetSession(v, "loggedIn")

Next ==
  \/ \E a \in Asks : Ask(a) \/ RequestOtp(a) \/ IncrUnanswered(a) \/ AskFails(a) \/ OtpLost(a)
  \/ \E v \in Logins : Present(v) \/ VerifyOtp(v) \/ LoginFails(v)
  \/ \E p \in Phones : RateExpires(p) \/ RateEvicted(p) \/ SessionLost(p)

Spec == Init /\ [][Next]_vars

\* The handlers run on, and what has an expiry expires.
FairSpec ==
  /\ Spec
  /\ \A a \in Asks : WF_vars(RequestOtp(a))
  /\ \A v \in Logins : WF_vars(VerifyOtp(v))
  /\ \A p \in Phones : WF_vars(RateExpires(p))
-----------------------------------------------------------------------------
(* Correctness *)

Consumed == {"upsert", "setex", "loggedIn"}

(***************************************************************************)
(* An OTP that one verification has deleted is gone for all later ones:    *)
(* nothing stores it again, though asks and verifications interleave and   *)
(* commands are repeated.                                                  *)
(***************************************************************************)
OtpGone ==
  \A v \in Logins : login[v].at \in {"consume"} \cup Consumed => otp[login[v].ask] = None

(***************************************************************************)
(* The table agrees with what has been verified, although the OTP lives in *)
(* Redis: the row of a verified OTP is there and consumed, and a consumed  *)
(* row has the phone and the code of an OTP that was verified.             *)
(***************************************************************************)
ConsumedRows ==
  /\ \A v \in Logins : login[v].at \in Consumed =>
       \E x \in rows : x.id = login[v].ask /\ x.consumed
  /\ \A x \in rows : x.consumed =>
       \E v \in Logins : login[v].at \in Consumed \cup {"error"}
                         /\ login[v].read = [phone |-> x.phone, code |-> x.code]

(***************************************************************************)
(* A session belongs to a user with a row, who has presented the code of   *)
(* an OTP that was sent to the user's own phone.                           *)
(***************************************************************************)
SessionsAreEarned ==
  \A p \in session :
    /\ p \in users
    /\ \E v \in Logins :
         /\ login[v].at \in {"loggedIn", "error"}
         /\ asked[login[v].ask].phone = p /\ asked[login[v].ask].code = login[v].code

(***************************************************************************)
(* "Consume the OTP" (auth.service.ts): an OTP opens one session and no    *)
(* second one.                                                             *)
(***************************************************************************)
OtpOpensOneSession ==
  \A v, w \in Logins :
    login[v].at = "loggedIn" /\ login[w].at = "loggedIn" /\ login[v].ask = login[w].ask
      => v = w

(***************************************************************************)
(* "Rate limit: 3 OTPs per phone per minute" (auth.service.ts): a phone    *)
(* that has been refused can ask again when the minute is over.            *)
(***************************************************************************)
RefusalEnds ==
  \A p \in Phones : (rate[p] > Limit) ~> (rate[p] = 0)
=============================================================================
