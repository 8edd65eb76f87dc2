----------------------------- MODULE AuthProofs -----------------------------
(***************************************************************************)
(* Proofs about Auth and Access: for any phones, codes, requests and limit,*)
(* an OTP that has been deleted does not come back, the table agrees with  *)
(* what was verified, a session is earned by a code that was sent to its   *)
(* user, and a valid token is honoured unless Redis has lost its session.  *)
(***************************************************************************)
EXTENDS Access, TLAPS

-----------------------------------------------------------------------------
(* The inductive invariant *)

\* The row that request a has inserted.
HasRow(a) ==
  \E x \in rows : x.id = a /\ x.phone = asked[a].phone /\ x.code = asked[a].code

(***************************************************************************)
(* What an ask has stored is what it has drawn, and is stored once.        *)
(***************************************************************************)
Stored(a) ==
  /\ asked[a].at # "idle" => asked[a].phone \in Phones
  /\ asked[a].at \in {"setex", "sent"} => asked[a].code \in Codes /\ HasRow(a)
  /\ otp[a] # None =>
       /\ asked[a].at \in {"sent", "error"}
       /\ otp[a] = [phone |-> asked[a].phone, code |-> asked[a].code]

AskInv == \A a \in Asks : Stored(a)

Reading == {"del", "consume"} \cup Consumed

\* Verification v has read the OTP of the ask that it names, and has its code.
Shown(v) ==
  /\ login[v].at # "idle"
  /\ login[v].read = [phone |-> asked[login[v].ask].phone, code |-> asked[login[v].ask].code]
  /\ login[v].code = asked[login[v].ask].code

(***************************************************************************)
(* A verification names an ask that is over, and has read what that stored.*)
(***************************************************************************)
Presented(v) ==
  /\ login[v].at # "idle" => login[v].ask \in Asks /\ asked[login[v].ask].at = "sent"
  /\ login[v].at \in Reading => login[v].read # None
  /\ login[v].read # None => Shown(v)

LoginInv == \A v \in Logins : Presented(v)

\* Who gets a session has a row.
UserInv ==
  \A v \in Logins : login[v].at \in {"setex", "loggedIn"} => login[v].read.phone \in users

AuthInv == TypeOK /\ AskInv /\ LoginInv

\* What the assumptions say of the constants.
LEMMA Constants ==
  /\ None \notin Phones /\ None \notin Codes /\ None \notin Asks
  /\ Limit \in Nat /\ MaxRate \in Nat
  BY AuthAssumption

\* The request and the verification of a step that has read an OTP.
LEMMA ReadType ==
  ASSUME AuthInv, NEW v \in Logins, login[v].at \in Reading
  PROVE  /\ login[v].ask \in Asks /\ asked[login[v].ask].at = "sent"
         /\ login[v].read.phone \in Phones /\ login[v].read.code \in Codes
         /\ login[v].read.phone = asked[login[v].ask].phone
         /\ login[v].read.code = asked[login[v].ask].code
         /\ login[v].code = asked[login[v].ask].code
         /\ login[v].read = [phone |-> login[v].read.phone, code |-> login[v].read.code]
<1>1. login[v].at # "idle" /\ login[v].read # None
  BY DEF AuthInv, LoginInv, Presented, Reading, Consumed
<1>2. Shown(v) /\ login[v].ask \in Asks /\ asked[login[v].ask].at = "sent"
  BY <1>1 DEF AuthInv, LoginInv, Presented
<1>3. asked[login[v].ask].phone \in Phones /\ asked[login[v].ask].code \in Codes
  BY <1>2 DEF AuthInv, AskInv, Stored
<1>. QED BY <1>2, <1>3 DEF Shown

-----------------------------------------------------------------------------
(* What a step leaves as it is *)

\* An ask keeps its phone and, once drawn, its code; an ask that is over stays.
AskKept(a) ==
  /\ asked[a].at # "idle" => asked'[a].phone = asked[a].phone /\ asked'[a].at # "idle"
  /\ asked[a].at = "sent" => asked'[a] = asked[a]
  /\ asked[a].at = "error" => asked'[a] = asked[a]

\* A verification that is over stays as it is, and one that has read keeps it.
LoginKept(v) ==
  /\ login[v].at # "idle" => login'[v].ask = login[v].ask /\ login'[v].code = login[v].code
  /\ login[v].at \in Reading => login'[v].read = login[v].read
  /\ login[v].at \in {"loggedIn", "refused", "error"} => login'[v] = login[v]
  /\ login[v].at \in Consumed => login'[v].at \in Consumed \cup {"error"}

\* An ask that a step does not move, of whose row and key nothing is taken, keeps its part.
LEMMA AsksAreKept ==
  ASSUME AuthInv, Next
  PROVE  \A b \in Asks : AskKept(b)
<1>. USE DEF AuthInv, TypeOK, AskPoints, AskKept
<1>1. ASSUME NEW a \in Asks, Ask(a) PROVE \A b \in Asks : AskKept(b)
  BY <1>1 DEF Ask
<1>2. ASSUME NEW a \in Asks, Incr(a) PROVE \A b \in Asks : AskKept(b)
  BY <1>2 DEF Incr, AskStep
<1>3. ASSUME NEW a \in Asks, Expire(a) PROVE \A b \in Asks : AskKept(b)
  BY <1>3 DEF Expire, AskStep
<1>4. ASSUME NEW a \in Asks, InsertCode(a) PROVE \A b \in Asks : AskKept(b)
  BY <1>4 DEF InsertCode
<1>5. ASSUME NEW a \in Asks, SetOtp(a, "sent") \/ AskFails(a) PROVE \A b \in Asks : AskKept(b)
  BY <1>5 DEF SetOtp, AskFails, AskStep
<1>6. ASSUME NEW a \in Asks, IncrUnanswered(a) \/ OtpLost(a) PROVE \A b \in Asks : AskKept(b)
  BY <1>6 DEF IncrUnanswered, OtpLost
<1>7. ASSUME NEW v \in Logins, Present(v) \/ VerifyOtp(v) \/ LoginFails(v)
      PROVE  \A b \in Asks : AskKept(b)
  BY <1>7 DEF Present, VerifyOtp, Get, Del, Consume, Upsert, SetSession, LoginFails, LoginStep
<1>8. ASSUME NEW p \in Phones, RateExpires(p) \/ RateEvicted(p) \/ SessionLost(p)
      PROVE  \A b \in Asks : AskKept(b)
  BY <1>8 DEF RateExpires, RateEvicted, SessionLost
<1>. QED BY <1>1, <1>2, <1>3, <1>4, <1>5, <1>6, <1>7, <1>8 DEF Next, RequestOtp

\* A verification that a step does not move keeps its part.
LEMMA LoginsAreKept ==
  ASSUME AuthInv, Next
  PROVE  \A w \in Logins : LoginKept(w)
<1>. USE DEF AuthInv, TypeOK, LoginPoints, LoginKept, Reading, Consumed
<1>1. ASSUME NEW v \in Logins, Present(v) PROVE \A w \in Logins : LoginKept(w)
  BY <1>1 DEF Present
<1>2. ASSUME NEW v \in Logins, Get(v) PROVE \A w \in Logins : LoginKept(w)
  BY <1>2 DEF Get
<1>3. ASSUME NEW v \in Logins, Del(v) \/ Consume(v) \/ Upsert(v) PROVE \A w \in Logins : LoginKept(w)
  BY <1>3 DEF Del, Consume, Upsert, LoginStep
<1>4. ASSUME NEW v \in Logins, SetSession(v, "loggedIn") \/ LoginFails(v)
      PROVE  \A w \in Logins : LoginKept(w)
  BY <1>4 DEF SetSession, LoginFails, LoginStep
<1>5. ASSUME NEW a \in Asks, Ask(a) \/ RequestOtp(a) \/ IncrUnanswered(a) \/ AskFails(a) \/ OtpLost(a)
      PROVE  \A w \in Logins : LoginKept(w)
  BY <1>5 DEF Ask, RequestOtp, Incr, Expire, InsertCode, SetOtp, IncrUnanswered, AskFails,
              AskStep, OtpLost
<1>6. ASSUME NEW p \in Phones, RateExpires(p) \/ RateEvicted(p) \/ SessionLost(p)
      PROVE  \A w \in Logins : LoginKept(w)
  BY <1>6 DEF RateExpires, RateEvicted, SessionLost
<1>. QED BY <1>1, <1>2, <1>3, <1>4, <1>5, <1>6 DEF Next, VerifyOtp

\* A verification changes by a step of its own.
LEMMA LoginsMove ==
  ASSUME AuthInv, Next, NEW w \in Logins
  PROVE  login'[w] = login[w] \/ Present(w) \/ VerifyOtp(w) \/ LoginFails(w)
<1>. USE DEF AuthInv, TypeOK
<1>1. ASSUME NEW v \in Logins, Present(v) \/ VerifyOtp(v) \/ LoginFails(v), v # w
      PROVE  login'[w] = login[w]
  BY <1>1 DEF Present, VerifyOtp, Get, Del, Consume, Upsert, SetSession, LoginFails, LoginStep
<1>2. ASSUME NEW a \in Asks, Ask(a) \/ RequestOtp(a) \/ IncrUnanswered(a) \/ AskFails(a) \/ OtpLost(a)
      PROVE  login' = login
  BY <1>2 DEF Ask, RequestOtp, Incr, Expire, InsertCode, SetOtp, IncrUnanswered, AskFails,
              AskStep, OtpLost
<1>3. ASSUME NEW p \in Phones, RateExpires(p) \/ RateEvicted(p) \/ SessionLost(p)
      PROVE  login' = login
  BY <1>3 DEF RateExpires, RateEvicted, SessionLost
<1>. QED BY <1>1, <1>2, <1>3 DEF Next

\* Rows are inserted and consumed, and by nothing else.
LEMMA RowsMove ==
  ASSUME Next
  PROVE  \/ rows' = rows
         \/ \E a \in Asks : InsertCode(a)
         \/ \E v \in Logins : Consume(v)
  BY DEF Next, RequestOtp, VerifyOtp, Ask, Incr, IncrUnanswered, Expire, SetOtp, AskFails, OtpLost,
         Present, Get, Del, Upsert, SetSession, LoginFails, RateExpires, RateEvicted, SessionLost,
         redisVars, tableVars

-----------------------------------------------------------------------------
(* Types, and what asks and verifications have in hand *)

\* The initial state: nothing has been asked.
LEMMA AuthInit == Init => AuthInv
  BY Constants DEF Init, AuthInv, TypeOK, AskInv, LoginInv, Stored, Presented, AskPoints,
                   LoginPoints, Reading, Consumed

AskType   == [at : AskPoints, phone : Phones \cup {None}, code : Codes \cup {None}]
LoginType == [at : LoginPoints, ask : Asks \cup {None}, code : Codes \cup {None},
              read : Entry \cup {None}]

\* A step that moves an ask keeps its type.
LEMMA AskMoves ==
  ASSUME AuthInv, NEW a \in Asks, NEW from, NEW to \in AskPoints, AskStep(a, from, to)
  PROVE  asked' \in [Asks -> AskType] /\ login' = login
<1>1. asked \in [Asks -> AskType]
  BY DEF AuthInv, TypeOK, AskType
<1>2. asked' = [asked EXCEPT ![a].at = to] /\ login' = login
  BY DEF AskStep
<1>. QED BY <1>1, <1>2 DEF AskType

\* A step that moves a verification keeps its type.
LEMMA LoginMoves ==
  ASSUME AuthInv, NEW v \in Logins, NEW from, NEW to \in LoginPoints, LoginStep(v, from, to)
  PROVE  login' \in [Logins -> LoginType] /\ asked' = asked
<1>1. login \in [Logins -> LoginType]
  BY DEF AuthInv, TypeOK, LoginType
<1>2. login' = [login EXCEPT ![v].at = to] /\ asked' = asked
  BY DEF LoginStep
<1>. QED BY <1>1, <1>2 DEF LoginType

\* A row that is marked is a row.
LEMMA MarkType ==
  ASSUME NEW x \in OtpRow
  PROVE  [x EXCEPT !.consumed = TRUE] \in OtpRow
  BY DEF OtpRow

\* Every step keeps the types.
LEMMA AuthTypeStep == AuthInv /\ Next => TypeOK'
<1>. SUFFICES ASSUME AuthInv, Next
              PROVE  TypeOK'
  OBVIOUS
<1>. USE Constants
<1>0. TypeOK /\ asked \in [Asks -> AskType] /\ login \in [Logins -> LoginType]
  BY DEF AuthInv, TypeOK, AskType, LoginType
<1>1. ASSUME NEW a \in Asks, Ask(a) PROVE TypeOK'
  <2>1. PICK p \in Phones : asked' = [asked EXCEPT ![a].at = "incr", ![a].phone = p]
    BY <1>1 DEF Ask
  <2>2. [asked[a] EXCEPT !.at = "incr", !.phone = p] \in AskType
    BY <1>0 DEF AskType, AskPoints
  <2>3. asked' = [asked EXCEPT ![a] = [asked[a] EXCEPT !.at = "incr", !.phone = p]]
    BY <1>0, <2>1
  <2>4. asked' \in [Asks -> AskType]
    BY <1>0, <2>2, <2>3
  <2>. QED BY <1>0, <1>1, <2>4 DEF TypeOK, AskType, Ask, redisVars, tableVars
<1>2. ASSUME NEW a \in Asks, Incr(a) PROVE TypeOK'
  <2>1. asked[a].phone \in Phones
    BY <1>2 DEF Incr, AskStep, AuthInv, AskInv, Stored
  <2>2. rate' \in [Phones -> Nat]
    BY <1>0, <1>2, <2>1 DEF Incr, TypeOK
  <2>3. asked' \in [Asks -> AskType] /\ login' = login
    BY <1>2, AskMoves DEF Incr, AskPoints
  <2>. QED BY <1>0, <1>2, <2>2, <2>3 DEF Incr, TypeOK, AskType, tableVars
<1>3. ASSUME NEW a \in Asks, IncrUnanswered(a) PROVE TypeOK'
  <2>1. asked[a].phone \in Phones
    BY <1>3 DEF IncrUnanswered, AuthInv, AskInv, Stored
  <2>2. rate' \in [Phones -> Nat]
    BY <1>0, <1>3, <2>1 DEF IncrUnanswered, TypeOK
  <2>. QED BY <1>0, <1>3, <2>2 DEF IncrUnanswered, TypeOK, tableVars
<1>4. ASSUME NEW a \in Asks, Expire(a) PROVE TypeOK'
  <2>1. asked[a].phone \in Phones
    BY <1>4 DEF Expire, AskStep, AuthInv, AskInv, Stored
  <2>2. expiring' \in SUBSET Phones
    BY <1>0, <1>4, <2>1 DEF Expire, TypeOK
  <2>3. asked' \in [Asks -> AskType] /\ login' = login
    BY <1>4, AskMoves DEF Expire, AskPoints
  <2>. QED BY <1>0, <1>4, <2>2, <2>3 DEF Expire, TypeOK, AskType, tableVars
<1>5. ASSUME NEW a \in Asks, InsertCode(a) PROVE TypeOK'
  <2>1. asked[a].phone \in Phones
    BY <1>5 DEF InsertCode, AuthInv, AskInv, Stored
  <2>2. PICK k \in Codes :
          /\ asked' = [asked EXCEPT ![a].at = "setex", ![a].code = k]
          /\ rows' = rows \cup
               {[id |-> a, phone |-> asked[a].phone, code |-> k, consumed |-> FALSE]}
    BY <1>5 DEF InsertCode
  <2>3. [id |-> a, phone |-> asked[a].phone, code |-> k, consumed |-> FALSE] \in OtpRow
    BY <2>1, Zenon DEF OtpRow
  <2>4. rows' \in SUBSET OtpRow
    BY <1>0, <2>2, <2>3 DEF TypeOK
  <2>5. [asked[a] EXCEPT !.at = "setex", !.code = k] \in AskType
    BY <1>0 DEF AskType, AskPoints
  <2>6. asked' = [asked EXCEPT ![a] = [asked[a] EXCEPT !.at = "setex", !.code = k]]
    BY <1>0, <2>2
  <2>7. asked' \in [Asks -> AskType]
    BY <1>0, <2>5, <2>6
  <2>. QED BY <1>0, <1>5, <2>4, <2>7 DEF InsertCode, TypeOK, AskType, redisVars
<1>6. ASSUME NEW a \in Asks, NEW end \in {"sent", "error"}, SetOtp(a, end) PROVE TypeOK'
  <2>1. asked[a].phone \in Phones /\ asked[a].code \in Codes
    BY <1>6 DEF SetOtp, AskStep, AuthInv, AskInv, Stored
  <2>2. otp' \in [Asks -> Entry \cup {None}]
    BY <1>0, <1>6, <2>1 DEF SetOtp, TypeOK, Entry
  <2>3. end \in AskPoints /\ AskStep(a, "setex", end)
    BY <1>6 DEF SetOtp, AskPoints
  <2>4. asked' \in [Asks -> AskType] /\ login' = login
    BY <2>3, AskMoves
  <2>. QED BY <1>0, <1>6, <2>2, <2>4 DEF SetOtp, TypeOK, AskType, tableVars
<1>7. ASSUME NEW a \in Asks, AskFails(a) PROVE TypeOK'
  <2>1. CASE SetOtp(a, "error")
    BY <1>6, <2>1
  <2>2. CASE ~ SetOtp(a, "error")
    <3>1. \E s \in {"incr", "expire", "insert", "setex"} : AskStep(a, s, "error")
      BY <1>7, <2>2 DEF AskFails
    <3>2. asked' \in [Asks -> AskType] /\ login' = login
      BY <3>1, AskMoves DEF AskPoints
    <3>. QED BY <1>0, <1>7, <2>2, <3>2 DEF AskFails, TypeOK, AskType, redisVars, tableVars
  <2>. QED BY <2>1, <2>2
<1>8. ASSUME NEW a \in Asks, OtpLost(a) PROVE TypeOK'
  BY <1>0, <1>8 DEF OtpLost, TypeOK, tableVars
<1>9. ASSUME NEW v \in Logins, Present(v) PROVE TypeOK'
  <2>1. PICK a \in Asks, k \in Codes :
          login' = [login EXCEPT ![v].at = "get", ![v].ask = a, ![v].code = k]
    BY <1>9 DEF Present
  <2>2. [login[v] EXCEPT !.at = "get", !.ask = a, !.code = k] \in LoginType
    BY <1>0 DEF LoginType, LoginPoints
  <2>3. login' = [login EXCEPT ![v] = [login[v] EXCEPT !.at = "get", !.ask = a, !.code = k]]
    BY <1>0, <2>1
  <2>4. login' \in [Logins -> LoginType]
    BY <1>0, <2>2, <2>3
  <2>. QED BY <1>0, <1>9, <2>4 DEF Present, TypeOK, LoginType, redisVars, tableVars
<1>10. ASSUME NEW v \in Logins, Get(v) PROVE TypeOK'
  <2>1. login[v].ask \in Asks
    BY <1>10 DEF Get, AuthInv, LoginInv, Presented
  <2>2. otp[login[v].ask] \in Entry \cup {None}
    BY <1>0, <2>1 DEF TypeOK
  <2>3. login' \in [Logins -> LoginType]
    BY <1>0, <1>10, <2>2 DEF Get, LoginType, LoginPoints
  <2>. QED BY <1>0, <1>10, <2>3 DEF Get, TypeOK, LoginType, redisVars, tableVars
<1>11. ASSUME NEW v \in Logins, Del(v) PROVE TypeOK'
  <2>1. login' \in [Logins -> LoginType] /\ asked' = asked
    BY <1>11, LoginMoves DEF Del, LoginPoints
  <2>. QED BY <1>0, <1>11, <2>1 DEF Del, TypeOK, LoginType, tableVars
<1>12. ASSUME NEW v \in Logins, Consume(v) PROVE TypeOK'
  <2>1. login' \in [Logins -> LoginType] /\ asked' = asked
    BY <1>12, LoginMoves DEF Consume, LoginPoints
  <2>2. \A x \in rows : [x EXCEPT !.consumed = TRUE] \in OtpRow
    BY <1>0, MarkType DEF TypeOK
  <2>3. rows' \in SUBSET OtpRow
    BY <1>0, <1>12, <2>2 DEF Consume, TypeOK
  <2>. QED BY <1>0, <1>12, <2>1, <2>3 DEF Consume, TypeOK, LoginType, redisVars
<1>13. ASSUME NEW v \in Logins, Upsert(v) PROVE TypeOK'
  <2>1. login[v].at \in Reading
    BY <1>13 DEF Upsert, LoginStep, Reading, Consumed
  <2>2. login[v].read.phone \in Phones
    BY <2>1, ReadType
  <2>3. login' \in [Logins -> LoginType] /\ asked' = asked
    BY <1>13, LoginMoves DEF Upsert, LoginPoints
  <2>. QED BY <1>0, <1>13, <2>2, <2>3 DEF Upsert, TypeOK, LoginType, redisVars
<1>14. ASSUME NEW v \in Logins, NEW end \in {"loggedIn", "error"}, SetSession(v, end) PROVE TypeOK'
  <2>1. login[v].at \in Reading
    BY <1>14 DEF SetSession, LoginStep, Reading, Consumed
  <2>2. login[v].read.phone \in Phones
    BY <2>1, ReadType
  <2>3. end \in LoginPoints /\ LoginStep(v, "setex", end)
    BY <1>14 DEF SetSession, LoginPoints
  <2>4. login' \in [Logins -> LoginType] /\ asked' = asked
    BY <2>3, LoginMoves
  <2>. QED BY <1>0, <1>14, <2>2, <2>4 DEF SetSession, TypeOK, LoginType, tableVars
<1>15. ASSUME NEW v \in Logins, LoginFails(v) PROVE TypeOK'
  <2>1. CASE SetSession(v, "error")
    BY <1>14, <2>1
  <2>2. CASE ~ SetSession(v, "error")
    <3>1. \E s \in {"get", "del", "consume", "upsert", "setex"} : LoginStep(v, s, "error")
      BY <1>15, <2>2 DEF LoginFails
    <3>2. login' \in [Logins -> LoginType] /\ asked' = asked
      BY <3>1, LoginMoves DEF LoginPoints
    <3>. QED BY <1>0, <1>15, <2>2, <3>2 DEF LoginFails, TypeOK, LoginType, redisVars, tableVars
  <2>. QED BY <2>1, <2>2
<1>16. ASSUME NEW p \in Phones, RateExpires(p) \/ RateEvicted(p) \/ SessionLost(p) PROVE TypeOK'
  BY <1>0, <1>16 DEF RateExpires, RateEvicted, SessionLost, TypeOK, tableVars
<1>. QED BY <1>1, <1>2, <1>3, <1>4, <1>5, <1>6, <1>7, <1>8, <1>9, <1>10, <1>11, <1>12, <1>13,
            <1>14, <1>15, <1>16 DEF Next, RequestOtp, VerifyOtp

\* A row stays, but for its mark.
LEMMA RowsAreKept ==
  ASSUME AuthInv, Next, NEW x \in rows
  PROVE  \E y \in rows' : /\ y.id = x.id /\ y.phone = x.phone /\ y.code = x.code
                          /\ x.consumed => y.consumed
<1>1. CASE \E v \in Logins : Consume(v)
  <2>1. PICK v \in Logins : Consume(v)
    BY <1>1
  <2>. DEFINE used == {r \in rows : r.phone = login[v].read.phone /\ r.code = login[v].read.code}
  <2>2. rows' = (rows \ used) \cup {[r EXCEPT !.consumed = TRUE] : r \in used}
    BY <2>1 DEF Consume
  <2>3. x \in [id : Asks, phone : Phones, code : Codes, consumed : BOOLEAN]
    BY DEF AuthInv, TypeOK, OtpRow
  <2>4. CASE x \in used
    <3>. DEFINE y == [x EXCEPT !.consumed = TRUE]
    <3>1. y \in rows'
      BY <2>2, <2>4
    <3>2. y.id = x.id /\ y.phone = x.phone /\ y.code = x.code /\ y.consumed
      BY <2>3
    <3>. QED BY <3>1, <3>2
  <2>5. CASE x \notin used
    BY <2>2, <2>5
  <2>. QED BY <2>4, <2>5
<1>2. CASE ~ \E v \in Logins : Consume(v)
  <2>1. x \in rows'
    BY <1>2 DEF Next, RequestOtp, VerifyOtp, Ask, Incr, IncrUnanswered, Expire, InsertCode, SetOtp,
                AskFails, OtpLost, Present, Get, Del, Upsert, SetSession, LoginFails,
                RateExpires, RateEvicted, SessionLost, redisVars, tableVars
  <2>. QED BY <2>1
<1>. QED BY <1>1, <1>2

\* The row of an ask that does not change stays.
LEMMA RowKept ==
  ASSUME AuthInv, Next, NEW b \in Asks, HasRow(b), asked'[b] = asked[b]
  PROVE  HasRow(b)'
<1>1. PICK x \in rows : x.id = b /\ x.phone = asked[b].phone /\ x.code = asked[b].code
  BY DEF HasRow
<1>2. PICK y \in rows' : y.id = x.id /\ y.phone = x.phone /\ y.code = x.code
  BY RowsAreKept
<1>. QED BY <1>1, <1>2 DEF HasRow

\* What an ask has stored, in a step that concerns it at most by losing its key.
LEMMA AskQuiet ==
  ASSUME AuthInv, Next, NEW b \in Asks, asked'[b] = asked[b], otp'[b] \in {otp[b], None}
  PROVE  Stored(b)'
<1>1. Stored(b)
  BY DEF AuthInv, AskInv
<1>2. HasRow(b) => HasRow(b)'
  BY RowKept
<1>. QED BY <1>1, <1>2 DEF Stored

\* Every step keeps what asks have stored.
LEMMA AskInvStep == AuthInv /\ Next => AskInv'
<1>. SUFFICES ASSUME AuthInv, Next, NEW b \in Asks
              PROVE  Stored(b)'
  BY DEF AskInv
<1>0. /\ asked \in [Asks -> AskType] /\ otp \in [Asks -> Entry \cup {None}]
      /\ Stored(b)
  BY DEF AuthInv, TypeOK, AskType, AskInv
<1>1. ASSUME NEW a \in Asks, Ask(a) PROVE Stored(b)'
  <2>1. CASE a = b
    BY <1>0, <1>1, <2>1 DEF Ask, Stored, AskType, redisVars
  <2>2. CASE a # b
    BY <1>0, <1>1, <2>2, AskQuiet DEF Ask, redisVars
  <2>. QED BY <2>1, <2>2
<1>2. ASSUME NEW a \in Asks, Incr(a) \/ Expire(a) PROVE Stored(b)'
  <2>1. CASE a = b
    BY <1>0, <1>2, <2>1 DEF Incr, Expire, AskStep, Stored, AskType
  <2>2. CASE a # b
    BY <1>0, <1>2, <2>2, AskQuiet DEF Incr, Expire, AskStep
  <2>. QED BY <2>1, <2>2
<1>3. ASSUME NEW a \in Asks, InsertCode(a) PROVE Stored(b)'
  <2>1. CASE a = b
    <3>1. PICK k \in Codes :
            /\ asked' = [asked EXCEPT ![a].at = "setex", ![a].code = k]
            /\ rows' = rows \cup
                 {[id |-> a, phone |-> asked[a].phone, code |-> k, consumed |-> FALSE]}
      BY <1>3 DEF InsertCode
    <3>2. asked'[b].at = "setex" /\ asked'[b].phone = asked[b].phone /\ asked'[b].code = k
      BY <1>0, <2>1, <3>1 DEF AskType
    <3>3. HasRow(b)'
      <4>. DEFINE x == [id |-> a, phone |-> asked[a].phone, code |-> k, consumed |-> FALSE]
      <4>1. x \in rows'
        BY <3>1
      <4>2. x.id = b /\ x.phone = asked'[b].phone /\ x.code = asked'[b].code
        BY <2>1, <3>2
      <4>. HIDE DEF x
      <4>. QED BY <4>1, <4>2 DEF HasRow
    <3>4. otp'[b] = otp[b] /\ asked[b].at = "insert"
      BY <1>3, <2>1 DEF InsertCode, redisVars
    <3>. QED BY <1>0, <3>2, <3>3, <3>4 DEF Stored
  <2>2. CASE a # b
    BY <1>0, <1>3, <2>2, AskQuiet DEF InsertCode, redisVars
  <2>. QED BY <2>1, <2>2
<1>4. ASSUME NEW a \in Asks, NEW end \in {"sent", "error"}, SetOtp(a, end) PROVE Stored(b)'
  <2>1. CASE a = b
    <3>1. /\ asked[b].at = "setex" /\ asked'[b].at = end
          /\ asked'[b].phone = asked[b].phone /\ asked'[b].code = asked[b].code
          /\ otp'[b] = [phone |-> asked[b].phone, code |-> asked[b].code]
          /\ rows' = rows
      BY <1>0, <1>4, <2>1 DEF SetOtp, AskStep, AskType, tableVars
    <3>2. HasRow(b)'
      BY <1>0, <3>1 DEF Stored, HasRow
    <3>. QED BY <1>0, <3>1, <3>2 DEF Stored
  <2>2. CASE a # b
    BY <1>0, <1>4, <2>2, AskQuiet DEF SetOtp, AskStep
  <2>. QED BY <2>1, <2>2
<1>5. ASSUME NEW a \in Asks, AskFails(a), ~ SetOtp(a, "error") PROVE Stored(b)'
  <2>1. CASE a = b
    BY <1>0, <1>5, <2>1 DEF AskFails, AskStep, Stored, AskType, redisVars
  <2>2. CASE a # b
    BY <1>0, <1>5, <2>2, AskQuiet DEF AskFails, AskStep, redisVars
  <2>. QED BY <2>1, <2>2
<1>6. ASSUME NEW a \in Asks, IncrUnanswered(a) \/ OtpLost(a) PROVE Stored(b)'
  BY <1>0, <1>6, AskQuiet DEF IncrUnanswered, OtpLost
<1>7. ASSUME NEW v \in Logins, Present(v) \/ VerifyOtp(v) \/ LoginFails(v) PROVE Stored(b)'
  BY <1>0, <1>7, AskQuiet DEF Present, VerifyOtp, Get, Del, Consume, Upsert, SetSession, LoginFails,
                              LoginStep, redisVars
<1>8. ASSUME NEW p \in Phones, RateExpires(p) \/ RateEvicted(p) \/ SessionLost(p) PROVE Stored(b)'
  BY <1>0, <1>8, AskQuiet DEF RateExpires, RateEvicted, SessionLost
<1>. QED BY <1>1, <1>2, <1>3, <1>4, <1>5, <1>6, <1>7, <1>8 DEF Next, RequestOtp, AskFails

\* A verification that a step does not concern keeps what it has.
LEMMA LoginQuiet ==
  ASSUME AuthInv, Next, NEW w \in Logins, login'[w] = login[w]
  PROVE  Presented(w)'
<1>1. Presented(w)
  BY DEF AuthInv, LoginInv
<1>2. CASE login[w].at = "idle"
  BY <1>1, <1>2 DEF Presented, Shown, Reading, Consumed
<1>3. CASE login[w].at # "idle"
  <2>1. login[w].ask \in Asks /\ asked[login[w].ask].at = "sent"
    BY <1>1, <1>3 DEF Presented
  <2>2. asked'[login[w].ask] = asked[login[w].ask]
    BY <2>1, AsksAreKept DEF AskKept
  <2>. QED BY <1>1, <2>1, <2>2 DEF Presented, Shown
<1>. QED BY <1>2, <1>3

\* Every step keeps what verifications have read.
LEMMA LoginInvStep == AuthInv /\ Next => LoginInv'
<1>. SUFFICES ASSUME AuthInv, Next, NEW w \in Logins
              PROVE  Presented(w)'
  BY DEF LoginInv
<1>0. login \in [Logins -> LoginType] /\ Presented(w)
  BY DEF AuthInv, TypeOK, LoginType, LoginInv
<1>1. ASSUME NEW v \in Logins, Present(v) PROVE Presented(w)'
  <2>1. CASE v = w
    <3>1. PICK a \in Asks, k \in Codes :
            /\ asked[a].at = "sent"
            /\ login' = [login EXCEPT ![v].at = "get", ![v].ask = a, ![v].code = k]
      BY <1>1 DEF Present
    <3>2. login'[w].at = "get" /\ login'[w].ask = a /\ login'[w].read = login[w].read
      BY <1>0, <2>1, <3>1 DEF LoginType
    <3>3. login[w].at = "idle" /\ asked' = asked
      BY <1>1, <2>1 DEF Present
    <3>4. login[w].read = None
      BY <1>0, <3>3 DEF Presented, Shown
    <3>. QED BY <3>1, <3>2, <3>3, <3>4 DEF Presented, Reading, Consumed
  <2>2. CASE v # w
    BY <1>0, <1>1, <2>2, LoginQuiet DEF Present
  <2>. QED BY <2>1, <2>2
<1>2. ASSUME NEW v \in Logins, Get(v) PROVE Presented(w)'
  <2>1. CASE v = w
    <3>. DEFINE entry == otp[login[w].ask]
    <3>1. login[w].at = "get" /\ asked' = asked /\ login[w].ask \in Asks
            /\ asked[login[w].ask].at = "sent"
      BY <1>0, <1>2, <2>1 DEF Get, Presented
    <3>2. entry # None =>
            entry = [phone |-> asked[login[w].ask].phone, code |-> asked[login[w].ask].code]
      BY <3>1 DEF AuthInv, AskInv, Stored
    <3>3. CASE entry # None /\ entry.code = login[w].code
      <4>1. login' = [login EXCEPT ![w].at = "del", ![w].read = entry]
        BY <1>2, <2>1, <3>3 DEF Get
      <4>2. login'[w].at = "del" /\ login'[w].read = entry /\ login'[w].ask = login[w].ask
              /\ login'[w].code = login[w].code
        BY <1>0, <4>1 DEF LoginType
      <4>3. login[w].code = asked[login[w].ask].code
        BY <3>2, <3>3
      <4>. HIDE DEF entry
      <4>. QED BY <3>1, <3>2, <3>3, <4>2, <4>3 DEF Presented, Shown
    <3>4. CASE ~ (entry # None /\ entry.code = login[w].code)
      <4>1. login' = [login EXCEPT ![w].at = "refused"]
        BY <1>2, <2>1, <3>4 DEF Get
      <4>2. login'[w].at = "refused" /\ login'[w].read = login[w].read
              /\ login'[w].ask = login[w].ask /\ login'[w].code = login[w].code
        BY <1>0, <4>1 DEF LoginType
      <4>. QED BY <1>0, <3>1, <4>2 DEF Presented, Shown, Reading, Consumed
    <3>. QED BY <3>3, <3>4
  <2>2. CASE v # w
    BY <1>0, <1>2, <2>2, LoginQuiet DEF Get
  <2>. QED BY <2>1, <2>2
<1>3. ASSUME NEW v \in Logins, NEW from \in LoginPoints \ {"idle"}, NEW to \in LoginPoints \ {"idle"},
             LoginStep(v, from, to), to \in Reading => from \in Reading
      PROVE  Presented(w)'
  <2>1. CASE v = w
    <3>1. login[w].at = from /\ login'[w].at = to /\ login'[w].read = login[w].read /\ asked' = asked
            /\ login'[w].ask = login[w].ask /\ login'[w].code = login[w].code
      BY <1>0, <1>3, <2>1 DEF LoginStep, LoginType
    <3>. QED BY <1>0, <1>3, <3>1 DEF Presented, Shown
  <2>2. CASE v # w
    BY <1>0, <1>3, <2>2, LoginQuiet DEF LoginStep
  <2>. QED BY <2>1, <2>2
<1>4. ASSUME NEW v \in Logins, Del(v) \/ Consume(v) \/ Upsert(v) \/ SetSession(v, "loggedIn")
      PROVE  Presented(w)'
  BY <1>3, <1>4 DEF Del, Consume, Upsert, SetSession, LoginPoints, Reading, Consumed
<1>5. ASSUME NEW v \in Logins, LoginFails(v) PROVE Presented(w)'
  BY <1>3, <1>5 DEF LoginFails, SetSession, LoginPoints, Reading, Consumed
<1>6. ASSUME login' = login PROVE Presented(w)'
  BY <1>6, LoginQuiet
<1>7. ASSUME NEW a \in Asks, Ask(a) \/ RequestOtp(a) \/ IncrUnanswered(a) \/ AskFails(a) \/ OtpLost(a)
      PROVE  Presented(w)'
  <2>1. login' = login
    BY <1>7 DEF Ask, RequestOtp, Incr, Expire, InsertCode, SetOtp, IncrUnanswered, AskFails,
                AskStep, OtpLost
  <2>. QED BY <1>6, <2>1
<1>8. ASSUME NEW p \in Phones, RateExpires(p) \/ RateEvicted(p) \/ SessionLost(p) PROVE Presented(w)'
  BY <1>6, <1>8 DEF RateExpires, RateEvicted, SessionLost
<1>. QED BY <1>1, <1>2, <1>4, <1>5, <1>7, <1>8 DEF Next, VerifyOtp

\* Every step of Auth keeps its invariant.
LEMMA AuthInvStep == AuthInv /\ Next => AuthInv'
  BY AuthTypeStep, AskInvStep, LoginInvStep DEF AuthInv

-----------------------------------------------------------------------------
(* What has been verified *)

\* Every step keeps deleted OTPs deleted.
LEMMA OtpGoneStep == AuthInv /\ OtpGone /\ Next => OtpGone'
<1>. SUFFICES ASSUME AuthInv, OtpGone, Next,
                     NEW w \in Logins, login'[w].at \in {"consume"} \cup Consumed
              PROVE  otp'[login'[w].ask] = None
  BY DEF OtpGone
<1>0. login \in [Logins -> LoginType] /\ otp \in [Asks -> Entry \cup {None}]
  BY DEF AuthInv, TypeOK, LoginType
<1>1. login[w].at # "idle"
  <2>1. CASE login'[w] = login[w]
    BY <2>1 DEF Consumed
  <2>2. CASE Present(w)
    <3>1. login'[w].at = "get"
      BY <1>0, <2>2 DEF Present, LoginType
    <3>. QED BY <3>1 DEF Consumed
  <2>3. CASE VerifyOtp(w) \/ LoginFails(w)
    BY <2>3 DEF VerifyOtp, Get, Del, Consume, Upsert, SetSession, LoginFails, LoginStep
  <2>. QED BY <2>1, <2>2, <2>3, LoginsMove
<1>2. login'[w].ask = login[w].ask /\ login[w].ask \in Asks /\ asked[login[w].ask].at = "sent"
  BY <1>1, LoginsAreKept DEF LoginKept, AuthInv, LoginInv, Presented
<1>3. CASE login[w].at \in {"consume"} \cup Consumed
  <2>1. otp[login[w].ask] = None
    BY <1>3 DEF OtpGone
  <2>2. otp'[login[w].ask] = None
    BY <1>0, <1>2, <2>1
       DEF Next, RequestOtp, VerifyOtp, Ask, Incr, IncrUnanswered, Expire, InsertCode, SetOtp,
           AskFails, AskStep, OtpLost, Present, Get, Del, Consume, Upsert, SetSession,
           LoginFails, LoginStep, RateExpires, RateEvicted, SessionLost, redisVars
  <2>. QED BY <1>2, <2>2
<1>4. CASE login[w].at \notin {"consume"} \cup Consumed
  <2>1. Del(w)
    <3>1. login'[w] # login[w] /\ ~ Present(w)
      BY <1>1, <1>4 DEF Present
    <3>2. CASE Get(w)
      BY <1>0, <1>4, <3>2 DEF Get, LoginType, Consumed
    <3>3. CASE Consume(w) \/ Upsert(w) \/ SetSession(w, "loggedIn")
      BY <1>4, <3>3 DEF Consume, Upsert, SetSession, LoginStep, Consumed
    <3>4. CASE LoginFails(w)
      <4>1. login'[w].at = "error"
        BY <1>0, <3>4 DEF LoginFails, SetSession, LoginStep, LoginType
      <4>. QED BY <4>1 DEF Consumed
    <3>. QED BY <3>1, <3>2, <3>3, <3>4, LoginsMove DEF VerifyOtp
  <2>. QED BY <1>0, <1>2, <2>1 DEF Del
<1>. QED BY <1>3, <1>4

\* The row of a verified OTP, and whom a consumed row is owed to.
Verified(v) == login[v].at \in Consumed => \E x \in rows : x.id = login[v].ask /\ x.consumed
Owed(x) ==
  \E v \in Logins : /\ login[v].at \in Consumed \cup {"error"}
                    /\ login[v].read = [phone |-> x.phone, code |-> x.code]

\* A consumed row stays owed.
LEMMA OwedKept ==
  ASSUME AuthInv, Next, NEW x, Owed(x)
  PROVE  Owed(x)'
<1>1. PICK v \in Logins : /\ login[v].at \in Consumed \cup {"error"}
                          /\ login[v].read = [phone |-> x.phone, code |-> x.code]
  BY DEF Owed
<1>2. login'[v].at \in Consumed \cup {"error"} /\ login'[v].read = login[v].read
  BY <1>1, LoginsAreKept DEF LoginKept, Reading
<1>. QED BY <1>1, <1>2 DEF Owed

\* Every step keeps table and verifications in agreement.
LEMMA ConsumedStep == AuthInv /\ ConsumedRows /\ Next => ConsumedRows'
<1>. SUFFICES ASSUME AuthInv, ConsumedRows, Next
              PROVE  ConsumedRows'
  OBVIOUS
<1>0. login \in [Logins -> LoginType] /\ rows \in SUBSET OtpRow
  BY DEF AuthInv, TypeOK, LoginType
<1>1. (\A v \in Logins : Verified(v)) /\ (\A x \in rows : x.consumed => Owed(x))
  BY DEF ConsumedRows, Verified, Owed
<1>2. CASE \E v \in Logins : Consume(v)
  <2>1. PICK v \in Logins : Consume(v)
    BY <1>2
  <2>. DEFINE used == {r \in rows : r.phone = login[v].read.phone /\ r.code = login[v].read.code}
  <2>2. rows' = (rows \ used) \cup {[r EXCEPT !.consumed = TRUE] : r \in used}
    BY <2>1 DEF Consume
  <2>3. login[v].at = "consume" /\ login' = [login EXCEPT ![v].at = "upsert"]
    BY <2>1 DEF Consume, LoginStep
  <2>4. login'[v].at = "upsert" /\ login'[v].read = login[v].read /\ login'[v].ask = login[v].ask
    BY <1>0, <2>3 DEF LoginType
  <2>5. \A r \in rows : /\ [r EXCEPT !.consumed = TRUE].id = r.id
                        /\ [r EXCEPT !.consumed = TRUE].phone = r.phone
                        /\ [r EXCEPT !.consumed = TRUE].code = r.code
                        /\ [r EXCEPT !.consumed = TRUE].consumed
    BY <1>0 DEF OtpRow
  <2>6. login[v].read = [phone |-> login[v].read.phone, code |-> login[v].read.code]
    BY <2>3, ReadType DEF Reading
  <2>7. \A x \in rows' : x.consumed => Owed(x)'
    <3>. SUFFICES ASSUME NEW x \in rows', x.consumed
                  PROVE  Owed(x)'
      OBVIOUS
    <3>1. CASE x \in rows \ used
      BY <1>1, <3>1, OwedKept
    <3>2. CASE x \notin rows \ used
      <4>1. PICK r \in used : x = [r EXCEPT !.consumed = TRUE]
        BY <2>2, <3>2
      <4>2. x.phone = login[v].read.phone /\ x.code = login[v].read.code
        BY <2>5, <4>1
      <4>. QED BY <2>4, <2>6, <4>2 DEF Owed, Consumed
    <3>. QED BY <3>1, <3>2
  <2>8. \A w \in Logins : Verified(w)'
    <3>. SUFFICES ASSUME NEW w \in Logins, login'[w].at \in Consumed
                  PROVE  \E x \in rows' : x.id = login'[w].ask /\ x.consumed
      BY DEF Verified
    <3>1. CASE w = v
      <4>1. login[v].ask \in Asks /\ asked[login[v].ask].at = "sent"
              /\ login[v].read.phone = asked[login[v].ask].phone
              /\ login[v].read.code = asked[login[v].ask].code
        BY <2>3, ReadType DEF Reading
      <4>2. PICK r \in rows : r.id = login[v].ask /\ r.phone = asked[login[v].ask].phone
                                /\ r.code = asked[login[v].ask].code
        BY <4>1 DEF AuthInv, AskInv, Stored, HasRow
      <4>3. r \in used
        BY <4>1, <4>2
      <4>4. [r EXCEPT !.consumed = TRUE] \in rows'
        BY <2>2, <4>3
      <4>. QED BY <2>4, <2>5, <3>1, <4>2, <4>4
    <3>2. CASE w # v
      <4>1. login'[w] = login[w]
        BY <1>0, <2>3, <3>2
      <4>2. PICK x \in rows : x.id = login[w].ask /\ x.consumed
        BY <1>1, <4>1 DEF Verified
      <4>. QED BY <4>1, <4>2, RowsAreKept
    <3>. QED BY <3>1, <3>2
  <2>. QED BY <2>7, <2>8 DEF ConsumedRows, Verified, Owed
<1>3. CASE ~ \E v \in Logins : Consume(v)
  <2>1. \A x \in rows' : x.consumed => x \in rows
    <3>1. ASSUME NEW a \in Asks, InsertCode(a), NEW x \in rows', x.consumed
          PROVE  x \in rows
      <4>1. PICK k \in Codes : rows' = rows \cup
              {[id |-> a, phone |-> asked[a].phone, code |-> k, consumed |-> FALSE]}
        BY <3>1 DEF InsertCode
      <4>. QED BY <3>1, <4>1
    <3>. QED BY <1>3, <3>1, RowsMove
  <2>2. \A x \in rows' : x.consumed => Owed(x)'
    BY <1>1, <2>1, OwedKept
  <2>3. \A w \in Logins : login'[w].at \in Consumed => login[w].at \in Consumed
    <3>. SUFFICES ASSUME NEW w \in Logins, login'[w].at \in Consumed, login[w].at \notin Consumed
                  PROVE  FALSE
      OBVIOUS
    <3>1. CASE Present(w) \/ Get(w) \/ Del(w)
      BY <1>0, <3>1 DEF Present, Get, Del, LoginStep, LoginType, Consumed
    <3>2. CASE Upsert(w) \/ SetSession(w, "loggedIn")
      BY <3>2 DEF Upsert, SetSession, LoginStep, Consumed
    <3>3. CASE LoginFails(w)
      <4>1. login'[w].at = "error"
        BY <1>0, <3>3 DEF LoginFails, SetSession, LoginStep, LoginType
      <4>. QED BY <4>1 DEF Consumed
    <3>. QED BY <1>3, <3>1, <3>2, <3>3, LoginsMove DEF VerifyOtp
  <2>4. \A w \in Logins : Verified(w)'
    <3>. SUFFICES ASSUME NEW w \in Logins, login'[w].at \in Consumed
                  PROVE  \E x \in rows' : x.id = login'[w].ask /\ x.consumed
      BY DEF Verified
    <3>1. login[w].at \in Consumed
      BY <2>3
    <3>2. PICK x \in rows : x.id = login[w].ask /\ x.consumed
      BY <1>1, <3>1 DEF Verified
    <3>3. login'[w].ask = login[w].ask
      BY <3>1, LoginsAreKept DEF LoginKept, Consumed
    <3>. QED BY <3>2, <3>3, RowsAreKept
  <2>. QED BY <2>2, <2>4 DEF ConsumedRows, Verified, Owed
<1>. QED BY <1>2, <1>3

-----------------------------------------------------------------------------
(* Sessions *)

\* A user who has a session, and has earned it.
Earned(p) ==
  /\ p \in users
  /\ \E v \in Logins :
       /\ login[v].at \in {"loggedIn", "error"}
       /\ asked[login[v].ask].phone = p /\ asked[login[v].ask].code = login[v].code

\* Users stay, and a session is the doing of a verification.
LEMMA SessionsMove ==
  ASSUME Next
  PROVE  /\ users \subseteq users'
         /\ \/ session' \subseteq session
            \/ \E v \in Logins, end \in {"loggedIn", "error"} : SetSession(v, end)
  BY DEF Next, RequestOtp, VerifyOtp, Ask, Incr, IncrUnanswered, Expire, InsertCode, SetOtp, AskFails,
         OtpLost, Present, Get, Del, Consume, Upsert, SetSession, LoginFails, RateExpires,
         RateEvicted, SessionLost, redisVars, tableVars

\* Every step keeps the rows of those who are about to get a session.
LEMMA UserStep == AuthInv /\ UserInv /\ Next => UserInv'
<1>. SUFFICES ASSUME AuthInv, UserInv, Next,
                     NEW w \in Logins, login'[w].at \in {"setex", "loggedIn"}
              PROVE  login'[w].read.phone \in users'
  BY DEF UserInv
<1>0. login \in [Logins -> LoginType]
  BY DEF AuthInv, TypeOK, LoginType
<1>1. CASE login[w].at \in {"setex", "loggedIn"}
  BY <1>1, LoginsAreKept, SessionsMove DEF LoginKept, Reading, Consumed, UserInv
<1>2. CASE login[w].at \notin {"setex", "loggedIn"}
  <2>1. CASE Present(w) \/ Get(w) \/ Del(w) \/ Consume(w)
    BY <1>0, <2>1 DEF Present, Get, Del, Consume, LoginStep, LoginType
  <2>2. CASE Upsert(w)
    BY <1>0, <2>2 DEF Upsert, LoginStep, LoginType
  <2>3. CASE SetSession(w, "loggedIn")
    BY <1>2, <2>3 DEF SetSession, LoginStep
  <2>4. CASE LoginFails(w)
    BY <1>0, <2>4 DEF LoginFails, SetSession, LoginStep, LoginType
  <2>. QED BY <1>2, <2>1, <2>2, <2>3, <2>4, LoginsMove DEF VerifyOtp
<1>. QED BY <1>1, <1>2

\* Who has earned a session has earned it for good.
LEMMA EarnedKept ==
  ASSUME AuthInv, Next, NEW p, Earned(p)
  PROVE  Earned(p)'
<1>1. PICK v \in Logins :
        /\ login[v].at \in {"loggedIn", "error"}
        /\ asked[login[v].ask].phone = p /\ asked[login[v].ask].code = login[v].code
  BY DEF Earned
<1>2. login'[v] = login[v]
  BY <1>1, LoginsAreKept DEF LoginKept
<1>3. login[v].ask \in Asks /\ asked[login[v].ask].at = "sent"
  BY <1>1 DEF AuthInv, LoginInv, Presented
<1>4. asked'[login[v].ask] = asked[login[v].ask]
  BY <1>3, AsksAreKept DEF AskKept
<1>5. p \in users'
  BY SessionsMove DEF Earned
<1>. QED BY <1>1, <1>2, <1>4, <1>5 DEF Earned

\* Every step keeps sessions earned.
LEMMA SessionStep == AuthInv /\ UserInv /\ SessionsAreEarned /\ Next => SessionsAreEarned'
<1>. SUFFICES ASSUME AuthInv, UserInv, SessionsAreEarned, Next, NEW p \in session'
              PROVE  Earned(p)'
  BY DEF SessionsAreEarned, Earned
<1>1. CASE p \in session
  BY <1>1, EarnedKept DEF SessionsAreEarned, Earned
<1>2. CASE p \notin session
  <2>1. PICK v \in Logins, end \in {"loggedIn", "error"} : SetSession(v, end)
    BY <1>2, SessionsMove
  <2>2. p = login[v].read.phone /\ login[v].at = "setex"
          /\ login' = [login EXCEPT ![v].at = end] /\ asked' = asked
    BY <1>2, <2>1 DEF SetSession, LoginStep
  <2>3. login \in [Logins -> LoginType]
    BY DEF AuthInv, TypeOK, LoginType
  <2>4. login'[v].at = end /\ login'[v].ask = login[v].ask /\ login'[v].code = login[v].code
    BY <2>2, <2>3 DEF LoginType
  <2>5. asked[login[v].ask].phone = p /\ login[v].code = asked[login[v].ask].code
    BY <2>2, ReadType DEF Reading, Consumed
  <2>6. p \in users'
    BY <2>2, SessionsMove DEF UserInv
  <2>. QED BY <2>2, <2>4, <2>5, <2>6 DEF Earned
<1>. QED BY <1>1, <1>2

-----------------------------------------------------------------------------
(* The middleware *)

\* A token whose session has not been lost has its session.
Alive(v) ==
  v \notin expired /\ login[v].at = "loggedIn" => login[v].read.phone \in session \cup lost

\* A call that has got past jwt.verify, and what became of it.
Passed(c) ==
  call[c].at = "get" \/ call[c].token # None =>
    LET v == call[c].token
    IN  /\ v \in Logins /\ login[v].at = "loggedIn"
        /\ call[c].at = "unauthorized" => login[v].read.phone \in lost \/ v \in expired
        /\ call[c].at = "next" => call[c].user = login[v].read.phone

TokenInv == (\A v \in Logins : Alive(v)) /\ (\A c \in Calls : Passed(c))

CallType == [at : CallPoints, token : Logins \cup {None}, user : Phones \cup {None, Benchmark}]

AccessInv ==
  /\ AuthInv /\ OtpGone /\ ConsumedRows /\ UserInv /\ SessionsAreEarned
  /\ call \in [Calls -> CallType] /\ expired \in SUBSET Logins /\ lost \in SUBSET Phones
  /\ TokenInv

\* The initial state: nobody has a token.
LEMMA AccessStarts == AccessInit => AccessInv
<1>. SUFFICES ASSUME AccessInit
              PROVE  AccessInv
  OBVIOUS
<1>1. AuthInv
  BY AuthInit DEF AccessInit
<1>2. OtpGone /\ UserInv /\ SessionsAreEarned /\ ConsumedRows
  BY DEF AccessInit, Init, OtpGone, Consumed, UserInv, SessionsAreEarned, ConsumedRows
<1>3. call \in [Calls -> CallType] /\ expired \in SUBSET Logins /\ lost \in SUBSET Phones
  BY DEF AccessInit, CallType, CallPoints
<1>4. TokenInv
  BY DEF AccessInit, Init, TokenInv, Alive, Passed
<1>. QED BY <1>1, <1>2, <1>3, <1>4 DEF AccessInv

\* A step of the services.
LEMMA AuthStepKeeps == AccessInv /\ AuthStep => AccessInv'
<1>. SUFFICES ASSUME AccessInv, AuthStep
              PROVE  AccessInv'
  OBVIOUS
<1>. DEFINE gone == {login[v].read.phone : v \in {w \in Logins \ expired :
                       login[w].at = "loggedIn" /\ login[w].read.phone \in session \ session'}}
<1>0. Next /\ lost' = lost \cup gone /\ call' = call /\ expired' = expired
  BY DEF AuthStep
<1>1. AuthInv'
  BY <1>0, AuthInvStep DEF AccessInv
<1>2. OtpGone' /\ ConsumedRows' /\ UserInv' /\ SessionsAreEarned'
  BY <1>0, OtpGoneStep, ConsumedStep, UserStep, SessionStep DEF AccessInv
<1>3. lost' \in SUBSET Phones
  BY <1>0 DEF AccessInv, AuthInv, TypeOK
<1>4. ASSUME NEW v \in Logins PROVE Alive(v)'
  <2>. SUFFICES ASSUME v \notin expired, login'[v].at = "loggedIn"
                PROVE  login'[v].read.phone \in session' \cup lost'
    BY <1>0 DEF Alive
  <2>1. CASE login[v].at = "loggedIn"
    <3>1. login'[v] = login[v]
      BY <1>0, <2>1, LoginsAreKept DEF AccessInv, LoginKept
    <3>2. login[v].read.phone \in session \cup lost
      BY <2>1 DEF AccessInv, TokenInv, Alive
    <3>3. login[v].read.phone \in session \ session' => login[v].read.phone \in gone
      BY <2>1
    <3>. QED BY <1>0, <3>1, <3>2, <3>3
  <2>2. CASE login[v].at # "loggedIn"
    <3>0. login \in [Logins -> LoginType] /\ AuthInv
      BY DEF AccessInv, AuthInv, TypeOK, LoginType
    <3>1. CASE Present(v) \/ Get(v) \/ Del(v) \/ Consume(v) \/ Upsert(v) \/ LoginFails(v)
      BY <3>0, <3>1 DEF Present, Get, Del, Consume, Upsert, LoginFails, SetSession, LoginStep, LoginType
    <3>2. CASE SetSession(v, "loggedIn")
      BY <3>0, <3>2 DEF SetSession, LoginStep, LoginType
    <3>. QED BY <1>0, <2>2, <3>0, <3>1, <3>2, LoginsMove DEF VerifyOtp
  <2>. QED BY <2>1, <2>2
<1>5. ASSUME NEW c \in Calls PROVE Passed(c)'
  <2>. SUFFICES ASSUME call[c].at = "get" \/ call[c].token # None
                PROVE  LET v == call[c].token
                       IN  /\ v \in Logins /\ login'[v].at = "loggedIn"
                           /\ call[c].at = "unauthorized" =>
                                login'[v].read.phone \in lost' \/ v \in expired
                           /\ call[c].at = "next" => call[c].user = login'[v].read.phone
    BY <1>0 DEF Passed
  <2>1. Passed(c)
    BY DEF AccessInv, TokenInv
  <2>2. call[c].token \in Logins /\ login[call[c].token].at = "loggedIn"
    BY <2>1 DEF Passed
  <2>3. login'[call[c].token] = login[call[c].token]
    BY <1>0, <2>2, LoginsAreKept DEF AccessInv, LoginKept
  <2>. QED BY <1>0, <2>1, <2>3 DEF Passed
<1>. QED BY <1>0, <1>1, <1>2, <1>3, <1>4, <1>5 DEF AccessInv, TokenInv

\* What Auth keeps is kept while none of its variables changes.
LEMMA AuthQuiet ==
  ASSUME AuthInv, OtpGone, ConsumedRows, UserInv, SessionsAreEarned, UNCHANGED vars
  PROVE  AuthInv' /\ OtpGone' /\ ConsumedRows' /\ UserInv' /\ SessionsAreEarned'
  BY DEF vars, AuthInv, TypeOK, AskInv, Stored, HasRow, LoginInv, Presented, Shown, OtpGone,
         ConsumedRows, UserInv, SessionsAreEarned

\* A step of the middleware.
LEMMA UseKeeps ==
  ASSUME AccessInv, NEW c \in Calls, NEW from, NEW to \in CallType, Use(c, from, to),
         to.at = "get" \/ to.token # None =>
           /\ to.token \in Logins /\ login[to.token].at = "loggedIn"
           /\ to.at = "unauthorized" =>
                login[to.token].read.phone \in lost \/ to.token \in expired
           /\ to.at = "next" => to.user = login[to.token].read.phone
  PROVE  AccessInv'
<1>1. UNCHANGED <<vars, expired, lost>> /\ call' = [call EXCEPT ![c] = to]
  BY DEF Use
<1>2. AuthInv' /\ OtpGone' /\ ConsumedRows' /\ UserInv' /\ SessionsAreEarned'
  BY <1>1, AuthQuiet DEF AccessInv
<1>3. call' \in [Calls -> CallType]
  BY <1>1 DEF AccessInv
<1>4. UNCHANGED <<login, session, expired, lost>>
  BY <1>1 DEF vars
<1>5. \A v \in Logins : Alive(v)'
  BY <1>4 DEF AccessInv, TokenInv, Alive
<1>6. ASSUME NEW d \in Calls PROVE Passed(d)'
  <2>1. CASE d = c
    BY <1>1, <1>4, <2>1 DEF AccessInv, Passed
  <2>2. CASE d # c
    BY <1>1, <1>4, <2>2 DEF AccessInv, TokenInv, Passed
  <2>. QED BY <2>1, <2>2
<1>. QED BY <1>1, <1>2, <1>3, <1>4, <1>5, <1>6 DEF AccessInv, TokenInv

\* Every step keeps the invariant.
LEMMA AccessStep == AccessInv /\ [AccessNext]_accessVars => AccessInv'
<1>. SUFFICES ASSUME AccessInv, [AccessNext]_accessVars
              PROVE  AccessInv'
  OBVIOUS
<1>1. CASE AuthStep
  BY <1>1, AuthStepKeeps
<1>2. ASSUME NEW v \in Logins, TokenExpires(v) PROVE AccessInv'
  <2>1. UNCHANGED <<vars, call, lost>> /\ expired' = expired \cup {v}
    BY <1>2 DEF TokenExpires
  <2>2. AuthInv' /\ OtpGone' /\ ConsumedRows' /\ UserInv' /\ SessionsAreEarned'
    BY <2>1, AuthQuiet DEF AccessInv
  <2>3. UNCHANGED <<login, session, call, lost>>
    BY <2>1 DEF vars
  <2>4. \A w \in Logins : Alive(w)'
    BY <2>1, <2>3 DEF AccessInv, TokenInv, Alive
  <2>5. \A c \in Calls : Passed(c)'
    BY <2>1, <2>3 DEF AccessInv, TokenInv, Passed
  <2>. QED BY <2>1, <2>2, <2>3, <2>4, <2>5 DEF AccessInv, TokenInv
<1>3. ASSUME NEW c \in Calls, Public(c) \/ NoToken(c) \/ BenchmarkToken(c) PROVE AccessInv'
  <2>1. PICK to \in CallType : Use(c, "idle", to) /\ to.token = None /\ to.at # "get"
    BY <1>3 DEF Public, NoToken, BenchmarkToken, CallType, CallPoints
  <2>. QED BY <2>1, UseKeeps
<1>4. ASSUME NEW c \in Calls, Verify(c) PROVE AccessInv'
  <2>1. PICK v \in Logins : Valid(v) /\ Use(c, "idle", [at |-> "get", token |-> v, user |-> None])
    BY <1>4 DEF Verify
  <2>. DEFINE to == [at |-> "get", token |-> v, user |-> None]
  <2>2. to \in CallType /\ to.at = "get" /\ to.token = v /\ login[v].at = "loggedIn"
    BY <2>1 DEF CallType, CallPoints, Valid
  <2>3. Use(c, "idle", to)
    BY <2>1
  <2>. HIDE DEF to
  <2>. QED BY <2>2, <2>3, UseKeeps
<1>5. ASSUME NEW c \in Calls, GetSession(c) PROVE AccessInv'
  <2>. DEFINE v == call[c].token
              phone == login[v].read.phone
  <2>1. call[c].at = "get" /\ call[c] \in CallType
    BY <1>5 DEF GetSession, Use, AccessInv
  <2>2. v \in Logins /\ login[v].at = "loggedIn"
    BY <2>1 DEF AccessInv, TokenInv, Passed
  <2>3. CASE phone \in session
    <3>. DEFINE to == [call[c] EXCEPT !.at = "next", !.user = phone]
    <3>1. phone \in Phones
      BY <2>3 DEF AccessInv, AuthInv, TypeOK
    <3>2. to \in CallType /\ to.at = "next" /\ to.token = v /\ to.user = phone
      BY <2>1, <3>1 DEF CallType, CallPoints
    <3>3. Use(c, "get", to)
      BY <1>5, <2>3 DEF GetSession
    <3>. HIDE DEF to
    <3>. QED BY <2>2, <3>2, <3>3, UseKeeps
  <2>4. CASE phone \notin session
    <3>. DEFINE to == [call[c] EXCEPT !.at = "unauthorized"]
    <3>1. phone \in lost \/ v \in expired
      BY <2>2, <2>4 DEF AccessInv, TokenInv, Alive
    <3>2. to \in CallType /\ to.at = "unauthorized" /\ to.token = v
      BY <2>1 DEF CallType, CallPoints
    <3>3. Use(c, "get", to)
      BY <1>5, <2>4 DEF GetSession
    <3>. HIDE DEF to
    <3>. QED BY <2>2, <3>1, <3>2, <3>3, UseKeeps
  <2>. QED BY <2>3, <2>4
<1>6. ASSUME NEW c \in Calls, GetFails(c) PROVE AccessInv'
  <2>. DEFINE to == [call[c] EXCEPT !.at = "error"]
  <2>1. call[c].at = "get" /\ call[c] \in CallType /\ Use(c, "get", to)
    BY <1>6 DEF GetFails, Use, AccessInv
  <2>2. call[c].token \in Logins /\ login[call[c].token].at = "loggedIn"
    BY <2>1 DEF AccessInv, TokenInv, Passed
  <2>3. to \in CallType /\ to.at = "error" /\ to.token = call[c].token
    BY <2>1 DEF CallType, CallPoints
  <2>. HIDE DEF to
  <2>. QED BY <2>1, <2>2, <2>3, UseKeeps
<1>7. CASE UNCHANGED accessVars
  <2>1. UNCHANGED <<vars, call, expired, lost>>
    BY <1>7 DEF accessVars
  <2>2. AuthInv' /\ OtpGone' /\ ConsumedRows' /\ UserInv' /\ SessionsAreEarned'
    BY <2>1, AuthQuiet DEF AccessInv
  <2>3. UNCHANGED <<login, session>>
    BY <2>1 DEF vars
  <2>. QED BY <2>1, <2>2, <2>3 DEF AccessInv, TokenInv, Alive, Passed
<1>. QED BY <1>1, <1>2, <1>3, <1>4, <1>5, <1>6, <1>7 DEF AccessNext

\* JwtAuthMiddleware and AuthService together keep the invariant, whatever expires,
\* is evicted or fails.
THEOREM AccessInvariance == AccessSpec => []AccessInv
<1>1. AccessInv /\ [AccessNext]_accessVars => AccessInv'
  BY AccessStep
<1>. QED BY <1>1, AccessStarts, PTL DEF AccessSpec

(***************************************************************************)
(* Every variable of Auth and of the middleware keeps its type.            *)
(***************************************************************************)
THEOREM AccessTypeCorrect == AccessSpec => []AccessTypeOK
<1>1. AccessInv => AccessTypeOK
  BY DEF AccessInv, AuthInv, AccessTypeOK, CallType
<1>. QED BY <1>1, AccessInvariance, PTL

(***************************************************************************)
(* An OTP that verifyOtp has deleted is never stored again.                *)
(***************************************************************************)
THEOREM DeletedOtpIsGone == AccessSpec => []OtpGone
<1>1. AccessInv => OtpGone
  BY DEF AccessInv
<1>. QED BY <1>1, AccessInvariance, PTL

(***************************************************************************)
(* otp_codes agrees with what verifyOtp has verified by the keys of Redis. *)
(***************************************************************************)
THEOREM TableAgrees == AccessSpec => []ConsumedRows
<1>1. AccessInv => ConsumedRows
  BY DEF AccessInv
<1>. QED BY <1>1, AccessInvariance, PTL

(***************************************************************************)
(* A session belongs to a user with a row who has shown the code that was  *)
(* sent to the user's phone (verifyOtp).                                   *)
(***************************************************************************)
THEOREM SessionsEarned == AccessSpec => []SessionsAreEarned
<1>1. AccessInv => SessionsAreEarned
  BY DEF AccessInv
<1>. QED BY <1>1, AccessInvariance, PTL

(***************************************************************************)
(* A token that is valid to its end is refused by the middleware only when *)
(* redis-session has lost the session, and passes as none but the user who *)
(* has shown the code (JwtAuthMiddleware.use).                             *)
(***************************************************************************)
THEOREM ValidTokensAreHonoured == AccessSpec => []TokensAreHonoured
<1>1. AccessInv => TokensAreHonoured
  <2>. SUFFICES ASSUME AccessInv, NEW c \in Calls, call[c].token # None
                PROVE  LET v == call[c].token
                           p == login[v].read.phone
                       IN  /\ call[c].at = "unauthorized" => p \in lost \/ v \in expired
                           /\ call[c].at = "next" =>
                                /\ call[c].user = p /\ p \in users
                                /\ asked[login[v].ask].phone = p
                                /\ asked[login[v].ask].code = login[v].code
    BY DEF TokensAreHonoured
  <2>1. Passed(c) /\ AuthInv
    BY DEF AccessInv, TokenInv
  <2>2. call[c].token \in Logins /\ login[call[c].token].at = "loggedIn"
    BY <2>1 DEF Passed
  <2>3. login[call[c].token].read.phone \in users
    BY <2>2 DEF AccessInv, UserInv
  <2>. QED BY <2>1, <2>2, <2>3, ReadType DEF Passed, Reading, Consumed
<1>. QED BY <1>1, AccessInvariance, PTL
=============================================================================
