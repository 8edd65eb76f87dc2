------------------------------- MODULE Access -------------------------------
(***************************************************************************)
(* JwtAuthMiddleware in front of every route (app.module.ts), over the     *)
(* sessions that Auth keeps: a request passes if its route is public, if   *)
(* it bears the token of the load tests, or if it bears a token of ours    *)
(* and the key session:<sub> of its user exists at that moment.  The token *)
(* names the user, not the login: whichever login stored the key.          *)
(*                                                                         *)
(* A token is the login that it was signed for.  Token and session live 24 *)
(* hours, and the token is signed before the session is stored: a session  *)
(* that goes while a token of its user is valid has not expired, but has   *)
(* been evicted or lost with redis-session.                                *)
(***************************************************************************)
EXTENDS Auth

CONSTANTS
  Calls,         \* requests: a finite number of them
  Benchmark      \* the user that the token of the load tests stands for

ASSUME AccessAssumption == Benchmark \notin Phones \cup {None}

VARIABLES
  call,     \* call[c]: control point, the token and the user that it passes as
  expired,  \* the tokens whose 24 hours are over
  lost      \* the phones whose session went before a token did (history)

accessVars == <<vars, call, expired, lost>>

CallPoints == {"idle", "get", "next", "unauthorized", "error"}

AccessTypeOK ==
  /\ TypeOK
  /\ call \in [Calls -> [at : CallPoints, token : Logins \cup {None},
                         user : Phones \cup {None, Benchmark}]]
  /\ expired \in SUBSET Logins
  /\ lost \in SUBSET Phones

AccessInit ==
  /\ Init
  /\ call = [c \in Calls |-> [at |-> "idle", token |-> None, user |-> None]]
  /\ expired = {} /\ lost = {}

\* The routes that need no token (PUBLIC_PREFIXES).
PublicRoutes == {"auth", "health", "calculate-price", "nearby", "webhook", "metrics"}

Use(c, from, to) ==
  /\ call[c].at = from
  /\ call' = [call EXCEPT ![c] = to]
  /\ UNCHANGED <<vars, expired, lost>>

Public(c) ==
  \E route \in PublicRoutes :
    Use(c, "idle", [at |-> "next", token |-> None, user |-> None])

\* No token, or one that jwt.verify does not accept.
NoToken(c) == Use(c, "idle", [at |-> "unauthorized", token |-> None, user |-> None])

BenchmarkToken(c) == Use(c, "idle", [at |-> "next", token |-> None, user |-> Benchmark])

\* A token that was given out is verified with the secret it was signed with:
\* the cached secret comes from an environment that does not change.
Valid(v) == login[v].at = "loggedIn" /\ v \notin expired

\* jwt.verify accepts the token of login v.
Verify(c) ==
  \E v \in Logins :
    /\ Valid(v)
    /\ Use(c, "idle", [at |-> "get", token |-> v, user |-> None])

\* GET session:<sub>: one round trip, after which the request goes on or not.
GetSession(c) ==
  LET phone == login[call[c].token].read.phone
  IN  Use(c, "get", IF phone \in session
                    THEN [call[c] EXCEPT !.at = "next", !.user = phone]
                    ELSE [call[c] EXCEPT !.at = "unauthorized"])

\* The GET rejects: the request ends with an error, and has not passed.
GetFails(c) == Use(c, "get", [call[c] EXCEPT !.at = "error"])

AuthStep ==
  /\ Next
  /\ lost' = lost \cup {login[v].read.phone : v \in {w \in Logins \ expired :
                          login[w].at = "loggedIn" /\ login[w].read.phone \in session \ session'}}
  /\ UNCHANGED <<call, expired>>

TokenExpires(v) ==
  /\ login[v].at = "loggedIn"
  /\ expired' = expired \cup {v}
  /\ UNCHANGED <<vars, call, lost>>

AccessNext ==
  \/ AuthStep
  \/ \E v \in Logins : TokenExpires(v)
  \/ \E c \in Calls :
       \/ Public(c) \/ NoToken(c) \/ BenchmarkToken(c)
       \/ Verify(c) \/ GetSession(c) \/ GetFails(c)

AccessSpec == AccessInit /\ [][AccessNext]_accessVars
-----------------------------------------------------------------------------
(* Correctness *)

(***************************************************************************)
(* Whoever has logged in is let in: a token that is valid to its end is    *)
(* refused only if redis-session has lost the session before its time,     *)
(* because the session is stored before the token is given out, and no     *)
(* other login of the user, or its failure, takes it away.  And whom a     *)
(* token lets in as a user has shown the code that was sent to that user.  *)
(***************************************************************************)
TokensAreHonoured ==
  \A c \in Calls :
    call[c].token # None =>
      LET v == call[c].token
          p == login[v].read.phone
      IN  /\ call[c].at = "unauthorized" => p \in lost \/ v \in expired
          /\ call[c].at = "next" =>
               /\ call[c].user = p /\ p \in users
               /\ asked[login[v].ask].phone = p /\ asked[login[v].ask].code = login[v].code
=============================================================================
