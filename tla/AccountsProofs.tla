----------------------------- MODULE AccountsProofs ----------------------------
(* Proofs about accounts, sessions and mailed links, for any numbers of them   *)
(* and of overlapping calls.                                                   *)
EXTENDS Accounts, TLAPS

--------------------------------------------------------------------------------
\* The invariants that the proofs rest on.

Sending == {"mint", "mail"}
Linking == {"get", "burn", "mark"}

Mailed(t) == \E e \in Emails : t \in inbox[e]

\* What a handler at each step has read and been given.
Shape(h) == LET c == call[h] IN
  /\ pc[h] = "insert" =>
       c.op = "register" /\ c.login \in Logins /\ c.email \in Emails /\ c.pass \in Passwords
  /\ pc[h] \in Sending \cup {"profile"} =>
       /\ c.op \in {"register", "resend"}
       /\ c.id \in Ids /\ c.email \in Emails /\ creds[c.id].email = c.email
  /\ pc[h] = "mail" => c.token \in Tokens /\ owner[c.token] = c.id
  /\ pc[h] = "find" => c.op = "login" \/ (c.op = "resend" /\ c.login = None /\ c.email \in Emails)
  /\ pc[h] = "open" =>
       c.op = "login" /\ c.id \in Ids /\ creds[c.id].verified /\ creds[c.id].pass = c.pass
  /\ pc[h] = "delete" => c.op = "logout" /\ c.token \in Minted
  /\ pc[h] = "resolve" => c.op = "use" /\ c.token \in Tokens
  /\ pc[h] \in Linking => c.op = "verify" /\ c.token \in Tokens /\ Mailed(c.token)
  /\ pc[h] \in {"burn", "mark"} => c.id \in Ids /\ owner[c.token] = c.id
  /\ pc[h] = "done" /\ c.op = "login" /\ c.reply \in {"ok", "unverified"} =>
       c.id \in Ids /\ Exists(c.id) /\ creds[c.id].pass = c.pass
Shapes == \A h \in Handlers : Shape(h)

\* A row is written whole, and what is no row is not verified.
Rows == \A i \in Ids : Exists(i) => creds[i].login \in Logins /\ creds[i].email \in Emails

\* A token serves the account it was minted for and no other.
Owned == \A t \in Tokens : links[t] \in {None, owner[t]} /\ sessions[t] \in {None, owner[t]}

\* A link is mailed to the address of the account it was minted for.
Addressed == \A e \in Emails : \A t \in inbox[e] :
  owner[t] \in Ids /\ Exists(owner[t]) /\ creds[owner[t]].email = e

\* A session is of an account that was verified.
SessionsVerified == \A t \in Tokens : sessions[t] # None => creds[sessions[t]].verified

\* What was revoked had been minted.
RevokedMinted == revoked \subseteq Minted

\* A link that is mailed or about to be is good, or spent on its account.
Spent(t) == creds[owner[t]].verified \/ \E h \in Handlers : pc[h] = "mark" /\ call[h].token = t
Issued(t) == Mailed(t) \/ \E h \in Handlers : pc[h] = "mail" /\ call[h].token = t
LinksGood == env \cap {"failure", "expiry"} = {} =>
  \A t \in Tokens : Issued(t) => links[t] # None \/ Spent(t)

\* Register goes on to the mail, and to its ok, only past the handoff.
ProfileSeeded == "profiles_failure" \notin env => \A h \in Handlers :
  call[h].op = "register" /\ (pc[h] \in Sending \/ Answered(h, "register", {"ok"})) =>
    call[h].id \in profiles

AccountsInv ==
  /\ TypeOK /\ Shapes /\ Rows /\ Owned /\ Addressed /\ SessionsVerified /\ VerifiedByMail
  /\ RevokedMinted /\ LogoutRevokes /\ LinksGood /\ ProfileSeeded

--------------------------------------------------------------------------------
\* What every step keeps.

Moves(h) == Begin(h) \/ Step(h) \/ MailLost(h) \/ Fail(h)

\* The other handlers stand still.
Alone(h) == \A k \in Handlers \ {h} : pc'[k] = pc[k] /\ call'[k] = call[k]

\* A row keeps its login, email and password and stays verified.
RowsGrow == \A i \in Ids : Exists(i) =>
  /\ creds'[i].login = creds[i].login /\ creds'[i].email = creds[i].email
  /\ creds'[i].pass = creds[i].pass /\ (creds[i].verified => creds'[i].verified)

\* A minted token keeps its owner, an address the links mailed to it.
TokensKept == \A t \in Minted : owner'[t] = owner[t]
InboxGrows == \A e \in Emails : inbox[e] \subseteq inbox'[e]

LEMMA StartMoves ==
  ASSUME NEW h \in Handlers, Begin(h)
  PROVE  \E step \in {"insert", "find", "done", "delete", "get", "resolve"} :
           \E c : Start(h, step, c)
<1>1. CASE \E l \in Logins, e \in Emails, p \in Passwords : Register(h, l, e, p)
  BY <1>1 DEF Register
<1>2. CASE \E l \in Logins \cup {None}, e \in Emails \cup {None}, p \in Passwords : Login(h, l, e, p)
  BY <1>2 DEF Login
<1>3. CASE \E t \in Minted \cup {None} : Logout(h, t)
  BY <1>3 DEF Logout
<1>4. CASE \E t \in Tokens : VerifyEmail(h, t) \/ UseSession(h, t)
  BY <1>4 DEF VerifyEmail, UseSession
<1>5. CASE \E e \in Emails : ResendVerification(h, e)
  BY <1>5 DEF ResendVerification
<1> QED BY <1>1, <1>2, <1>3, <1>4, <1>5 DEF Begin

LEMMA MovesAlone ==
  ASSUME TypeOK, NEW h \in Handlers, Moves(h)
  PROVE  Alone(h)
<1> USE DEF TypeOK, Alone, Reply, Goto
<1>1. CASE Begin(h)
  BY <1>1, StartMoves DEF Start
<1>2. CASE InsertCredential(h)
  BY <1>2 DEF InsertCredential
<1>3. CASE CreateProfile(h)
  BY <1>3 DEF CreateProfile
<1>4. CASE CreateVerifyToken(h)
  BY <1>4 DEF CreateVerifyToken
<1>5. CASE SendVerification(h) \/ MailLost(h)
  BY <1>5 DEF SendVerification, MailLost
<1>6. CASE FindCredential(h)
  BY <1>6 DEF FindCredential
<1>7. CASE FindByEmail(h)
  BY <1>7 DEF FindByEmail
<1>8. CASE CreateSession(h)
  BY <1>8 DEF CreateSession
<1>9. CASE DeleteSession(h) \/ BurnVerifyToken(h) \/ MarkEmailVerified(h)
  BY <1>9 DEF DeleteSession, BurnVerifyToken, MarkEmailVerified
<1>10. CASE GetVerifyToken(h) \/ ResolveSession(h)
  BY <1>10 DEF GetVerifyToken, ResolveSession
<1>11. CASE Return(h) \/ Fail(h)
  BY <1>11 DEF Return, Fail
<1> QED BY <1>1, <1>2, <1>3, <1>4, <1>5, <1>6, <1>7, <1>8, <1>9, <1>10, <1>11 DEF Moves, Step

\* Every other action of a handler leaves rows, tokens and mail alone.
Quiet(h) == \/ Begin(h) \/ FindCredential(h) \/ FindByEmail(h) \/ GetVerifyToken(h)
            \/ ResolveSession(h) \/ Return(h) \/ MailLost(h) \/ Fail(h)

LEMMA QuietKeeps ==
  ASSUME NEW h \in Handlers, Quiet(h)
  PROVE  UNCHANGED <<creds, profiles, sessions, links, owner, inbox, revoked>>
<1> USE DEF rows, keys
<1>1. CASE Begin(h)
  BY <1>1, StartMoves DEF Start
<1>2. CASE FindCredential(h) \/ FindByEmail(h) \/ GetVerifyToken(h) \/ ResolveSession(h)
  BY <1>2 DEF FindCredential, FindByEmail, GetVerifyToken, ResolveSession
<1>3. CASE Return(h) \/ MailLost(h) \/ Fail(h)
  BY <1>3 DEF Return, MailLost, Fail
<1> QED BY <1>1, <1>2, <1>3 DEF Quiet

\* The actions that write: the rest of Moves.
LEMMA MovesCases ==
  ASSUME NEW h \in Handlers, Moves(h)
  PROVE  \/ Quiet(h) \/ InsertCredential(h) \/ CreateProfile(h) \/ CreateVerifyToken(h)
         \/ SendVerification(h) \/ CreateSession(h) \/ DeleteSession(h)
         \/ BurnVerifyToken(h) \/ MarkEmailVerified(h)
BY DEF Moves, Step, Quiet

LEMMA StepsKeep ==
  ASSUME TypeOK, Next
  PROVE  RowsGrow /\ TokensKept /\ InboxGrows /\ profiles \subseteq profiles' /\ env' = env
<1> USE DEF TypeOK, RowsGrow, TokensKept, InboxGrows, Exists, Minted, Fresh, rows, keys
<1>1. env' = env
  BY DEF Next
<1>2. CASE \E t \in Tokens : ExpireSession(t) \/ ExpireLink(t)
  BY <1>1, <1>2 DEF ExpireSession, ExpireLink
<1>3. ASSUME NEW h \in Handlers, Moves(h)
      PROVE  RowsGrow /\ TokensKept /\ InboxGrows /\ profiles \subseteq profiles'
  <2>1. CASE Quiet(h)
    BY <2>1, QuietKeeps
  <2>2. CASE InsertCredential(h)
    BY <2>2 DEF InsertCredential
  <2>3. CASE CreateProfile(h)
    BY <2>3 DEF CreateProfile
  <2>4. CASE CreateVerifyToken(h)
    BY <2>4 DEF CreateVerifyToken
  <2>5. CASE SendVerification(h)
    BY <2>5 DEF SendVerification
  <2>6. CASE CreateSession(h)
    BY <2>6 DEF CreateSession
  <2>7. CASE DeleteSession(h) \/ BurnVerifyToken(h)
    BY <2>7 DEF DeleteSession, BurnVerifyToken
  <2>8. CASE MarkEmailVerified(h)
    BY <2>8 DEF MarkEmailVerified, CredRow
  <2> QED BY <1>3, <2>1, <2>2, <2>3, <2>4, <2>5, <2>6, <2>7, <2>8, MovesCases
<1> QED BY <1>1, <1>2, <1>3 DEF Next, Moves

--------------------------------------------------------------------------------
\* The invariant, conjunct by conjunct.

LEMMA NewCallType ==
  ASSUME NEW op \in Ops, NEW l \in Logins \cup {None}, NEW e \in Emails \cup {None},
         NEW p \in Passwords \cup {None}, NEW t \in Tokens \cup {None}
  PROVE  NewCall(op, l, e, p, t) \in CallRecord
BY DEF NewCall, CallRecord, Replies

\* How a call begins: with its arguments, at a step that fits them.
BeginsWell(h, step, c) ==
  /\ Start(h, step, c) /\ step \in Steps /\ c \in CallRecord
  /\ \/ /\ step = "insert" /\ c.op = "register"
        /\ c.login \in Logins /\ c.email \in Emails /\ c.pass \in Passwords
     \/ step = "find" /\ c.op = "login"
     \/ step = "find" /\ c.op = "resend" /\ c.login = None /\ c.email \in Emails
     \/ step = "done" /\ c.op = "logout"
     \/ step = "delete" /\ c.op = "logout" /\ c.token \in Minted
     \/ step = "get" /\ c.op = "verify" /\ c.token \in Tokens /\ Mailed(c.token)
     \/ step = "resolve" /\ c.op = "use" /\ c.token \in Tokens

LEMMA BeginCases ==
  ASSUME NEW h \in Handlers, Begin(h)
  PROVE  \E step, c : BeginsWell(h, step, c)
<1>1. ASSUME NEW l \in Logins, NEW e \in Emails, NEW p \in Passwords, Register(h, l, e, p)
      PROVE  BeginsWell(h, "insert", NewCall("register", l, e, p, None))
  BY <1>1, NewCallType DEF Register, BeginsWell, NewCall, Ops, Steps
<1>2. ASSUME NEW l \in Logins \cup {None}, NEW e \in Emails \cup {None}, NEW p \in Passwords,
             Login(h, l, e, p)
      PROVE  BeginsWell(h, "find", NewCall("login", l, e, p, None))
  BY <1>2, NewCallType DEF Login, BeginsWell, NewCall, Ops, Steps
<1>3. ASSUME NEW t \in Minted \cup {None}, Logout(h, t)
      PROVE  \E step, c : BeginsWell(h, step, c)
  <2> DEFINE c == NewCall("logout", None, None, None, t)
             d == [c EXCEPT !.reply = "no_session"]
  <2>1. c \in CallRecord /\ c.op = "logout" /\ c.token = t
    BY NewCallType DEF NewCall, Ops, Minted
  <2>2. d \in CallRecord /\ d.op = "logout"
    BY <2>1 DEF CallRecord, Replies
  <2>3. IF t = None THEN Start(h, "done", d) ELSE Start(h, "delete", c)
    BY <1>3 DEF Logout
  <2> HIDE DEF c, d
  <2> QED BY <2>1, <2>2, <2>3 DEF BeginsWell, Steps
<1>4. ASSUME NEW t \in Tokens, VerifyEmail(h, t)
      PROVE  BeginsWell(h, "get", NewCall("verify", None, None, None, t))
  BY <1>4, NewCallType DEF VerifyEmail, BeginsWell, NewCall, Ops, Steps, Mailed
<1>5. ASSUME NEW t \in Tokens, UseSession(h, t)
      PROVE  BeginsWell(h, "resolve", NewCall("use", None, None, None, t))
  BY <1>5, NewCallType DEF UseSession, BeginsWell, NewCall, Ops, Steps
<1>6. ASSUME NEW e \in Emails, ResendVerification(h, e)
      PROVE  BeginsWell(h, "find", NewCall("resend", None, e, None, None))
  BY <1>6, NewCallType DEF ResendVerification, BeginsWell, NewCall, Ops, Steps
<1> QED BY <1>1, <1>2, <1>3, <1>4, <1>5, <1>6 DEF Begin

LEMMA TypeStep ==
  ASSUME TypeOK, Shapes, Next
  PROVE  TypeOK'
<1> USE DEF rows, keys
<1>1. env' = env
  BY DEF Next
<1>2. CASE \E t \in Tokens : ExpireSession(t) \/ ExpireLink(t)
  BY <1>1, <1>2 DEF ExpireSession, ExpireLink, TypeOK
<1>3. ASSUME NEW h \in Handlers, Moves(h)
      PROVE  TypeOK'
  <2> DEFINE c == call[h]
  <2>0. c \in CallRecord /\ Shape(h) /\ pc[h] \in Steps
    BY DEF TypeOK, Shapes
  <2> DEFINE Moved == pc' \in [Handlers -> Steps] /\ call' \in [Handlers -> CallRecord]
  <2>1. ASSUME NEW r \in Replies, Reply(h, r)
        PROVE  Moved
    <3> DEFINE d == [c EXCEPT !.reply = r]
    <3>1. d \in CallRecord
      BY <2>0 DEF CallRecord
    <3>2. call' = [call EXCEPT ![h] = d] /\ pc' = [pc EXCEPT ![h] = "done"]
      BY <2>1 DEF Reply, Goto, TypeOK
    <3> HIDE DEF d
    <3> QED BY <3>1, <3>2 DEF TypeOK, Steps
  <2>2. ASSUME NEW step \in Steps, Goto(h, step), NEW i \in Ids,
                call' = [call EXCEPT ![h].id = i]
         PROVE  Moved
    <3> DEFINE d == [c EXCEPT !.id = i]
    <3>1. d \in CallRecord
      BY <2>0 DEF CallRecord
    <3>2. call' = [call EXCEPT ![h] = d]
      BY <2>2 DEF TypeOK
    <3> HIDE DEF d
    <3> QED BY <2>2, <3>1, <3>2 DEF Goto, TypeOK
  <2>3. ASSUME NEW step \in Steps, Goto(h, step), NEW i \in Ids, NEW r \in Replies,
                call' = [call EXCEPT ![h].id = i, ![h].reply = r]
         PROVE  Moved
    <3> DEFINE d == [c EXCEPT !.id = i, !.reply = r]
    <3>1. d \in CallRecord
      BY <2>0 DEF CallRecord
    <3>2. call' = [call EXCEPT ![h] = d]
      BY <2>3 DEF TypeOK
    <3> HIDE DEF d
    <3> QED BY <2>3, <3>1, <3>2 DEF Goto, TypeOK
  <2>4. ASSUME NEW step \in Steps, Goto(h, step), NEW t \in Tokens,
                \/ call' = [call EXCEPT ![h].token = t]
                \/ call' = [call EXCEPT ![h].token = t, ![h].reply = "ok"]
         PROVE  Moved
    <3>1. call[h] \in CallRecord
      BY DEF TypeOK
    <3>2. CASE call' = [call EXCEPT ![h].token = t]
      <4> DEFINE d == [c EXCEPT !.token = t]
      <4>1. d \in CallRecord
        BY <2>0 DEF CallRecord
      <4>2. call' = [call EXCEPT ![h] = d]
        BY <3>2 DEF TypeOK
      <4> HIDE DEF d
      <4> QED BY <2>4, <4>1, <4>2 DEF Goto, TypeOK
    <3>3. CASE call' = [call EXCEPT ![h].token = t, ![h].reply = "ok"]
      <4> DEFINE d == [c EXCEPT !.token = t, !.reply = "ok"]
      <4>1. d \in CallRecord
        BY <2>0 DEF CallRecord, Replies
      <4>2. call' = [call EXCEPT ![h] = d]
        BY <3>3 DEF TypeOK
      <4> HIDE DEF d
      <4> QED BY <2>4, <4>1, <4>2 DEF Goto, TypeOK
    <3> QED BY <2>4, <3>2, <3>3
  <2> HIDE DEF Moved
  <2>5. CASE Begin(h)
    <3>1. PICK step, d : BeginsWell(h, step, d)
      BY <2>5, BeginCases
    <3> QED BY <1>1, <3>1 DEF BeginsWell, Start, Goto, TypeOK
  <2>6. CASE InsertCredential(h)
    <3>1. CASE Reply(h, "taken") /\ UNCHANGED creds
      <4>1. Moved
        BY <2>1, <3>1 DEF Replies
      <4> QED BY <1>1, <2>6, <3>1, <4>1 DEF InsertCredential, TypeOK, Moved
    <3>2. CASE ~ Taken(c.login, c.email)
      <4>1. PICK i \in Ids :
              /\ creds' = [creds EXCEPT ![i] = [login |-> c.login, email |-> c.email,
                                               pass |-> c.pass, verified |-> FALSE]]
              /\ Goto(h, "profile") /\ call' = [call EXCEPT ![h].id = i]
        BY <2>6, <3>2 DEF InsertCredential
      <4>2. creds' \in [Ids -> CredRow]
        BY <2>0, <4>1 DEF TypeOK, CredRow, CallRecord
      <4>3. Moved
        BY <2>2, <4>1 DEF Steps
      <4> QED BY <1>1, <2>6, <4>2, <4>3 DEF InsertCredential, TypeOK, Moved
    <3> QED BY <2>6, <3>1, <3>2 DEF InsertCredential
  <2>7. CASE CreateProfile(h)
    BY <1>1, <2>0, <2>7 DEF CreateProfile, Goto, TypeOK, Steps, Shape
  <2>8. CASE CreateVerifyToken(h)
    <3>1. Moved
      BY <2>4, <2>8 DEF CreateVerifyToken, Steps, Fresh
    <3> QED BY <1>1, <2>0, <2>8, <3>1 DEF CreateVerifyToken, TypeOK, Moved, Shape, Sending, Fresh
  <2>9. CASE SendVerification(h) \/ MailLost(h)
    <3>1. Moved
      BY <2>1, <2>9 DEF SendVerification, MailLost, Replies
    <3>2. inbox' \in [Emails -> SUBSET Tokens]
      BY <2>0, <2>9 DEF SendVerification, MailLost, TypeOK, Shape
    <3> QED BY <1>1, <2>9, <3>1, <3>2 DEF SendVerification, MailLost, TypeOK, Moved
  <2>10. CASE FindCredential(h)
    <3>1. ASSUME NEW i \in Ids PROVE Refusal(i, c) \in Replies
      BY DEF Refusal, Replies
    <3>2. ASSUME Reply(h, "bad_creds") PROVE Moved
      BY <2>1, <2>10, <3>2 DEF Replies
    <3>3. ASSUME NEW i \in Ids, NEW step \in Steps, Goto(h, step),
                 call' = [call EXCEPT ![h].id = i, ![h].reply = Refusal(i, c)]
          PROVE  Moved
      <4> DEFINE r == Refusal(i, c)
      <4>1. r \in Replies /\ call' = [call EXCEPT ![h].id = i, ![h].reply = r]
        BY <3>1, <3>3
      <4> HIDE DEF r
      <4> QED BY <2>3, <3>3, <4>1
    <3>4. ASSUME NEW i \in Ids,
                 call' = [call EXCEPT ![h].id = i, ![h].reply = Refusal(i, c)],
                 Goto(h, IF Refusal(i, c) = "none" THEN "open" ELSE "done")
          PROVE  Moved
      BY <3>3, <3>4 DEF Steps
    <3>5. Moved
      BY <2>10, <3>2, <3>4 DEF FindCredential, Matches
    <3> QED BY <1>1, <2>10, <3>5 DEF FindCredential, TypeOK, Moved
  <2>11. CASE FindByEmail(h)
    <3>1. Moved
      BY <2>1, <2>2, <2>11 DEF FindByEmail, Steps, Replies, Matches
    <3> QED BY <1>1, <2>11, <3>1 DEF FindByEmail, TypeOK, Moved
  <2>12. CASE CreateSession(h)
    <3>1. Moved
      BY <2>4, <2>12 DEF CreateSession, Steps, Fresh
    <3> QED BY <1>1, <2>0, <2>12, <3>1 DEF CreateSession, TypeOK, Moved, Shape, Fresh
  <2>13. CASE DeleteSession(h)
    <3>1. Moved
      BY <2>1, <2>13 DEF DeleteSession, Replies
    <3> QED BY <1>1, <2>0, <2>13, <3>1 DEF DeleteSession, TypeOK, Moved, Shape, Minted
  <2>14. CASE BurnVerifyToken(h)
    BY <1>1, <2>14 DEF BurnVerifyToken, Goto, TypeOK, Steps
  <2>15. CASE MarkEmailVerified(h)
    <3>1. Moved
      BY <2>1, <2>15 DEF MarkEmailVerified, Replies
    <3>2. creds' \in [Ids -> CredRow]
      BY <2>15 DEF MarkEmailVerified, TypeOK, CredRow
    <3> QED BY <1>1, <2>15, <3>1, <3>2 DEF MarkEmailVerified, TypeOK, Moved
  <2>16. CASE GetVerifyToken(h)
    <3>1. links[call[h].token] \in Ids \cup {None}
      BY <2>0, <2>16 DEF GetVerifyToken, TypeOK, Shape, Linking
    <3>2. Moved
      BY <2>1, <2>2, <2>16, <3>1 DEF GetVerifyToken, Steps, Replies
    <3> QED BY <1>1, <2>16, <3>2 DEF GetVerifyToken, TypeOK, Moved
  <2>17. CASE ResolveSession(h)
    <3>1. sessions[call[h].token] \in Ids \cup {None}
      BY <2>0, <2>17 DEF ResolveSession, TypeOK, Shape
    <3>2. Moved
      BY <2>1, <2>3, <2>17, <3>1 DEF ResolveSession, Steps, Replies
    <3> QED BY <1>1, <2>17, <3>2 DEF ResolveSession, TypeOK, Moved
  <2>18. CASE Fail(h)
    <3>1. Moved
      BY <2>1, <2>18 DEF Fail, Replies
    <3> QED BY <1>1, <2>18, <3>1 DEF Fail, TypeOK, Moved
  <2>19. CASE Return(h)
    <3>1. IdleCall \in CallRecord
      BY DEF IdleCall, NewCall, CallRecord, Replies
    <3> QED BY <1>1, <2>19, <3>1 DEF Return, Goto, TypeOK, Steps
  <2> QED BY <1>3, <2>5, <2>6, <2>7, <2>8, <2>9, <2>10, <2>11, <2>12, <2>13, <2>14, <2>15,
             <2>16, <2>17, <2>18, <2>19 DEF Moves, Step
<1> QED BY <1>2, <1>3 DEF Next, Moves

\* A handler that stands still keeps its shape.
LEMMA ShapeKept ==
  ASSUME TypeOK, TypeOK', RowsGrow, TokensKept, InboxGrows,
         NEW k \in Handlers, Shape(k), pc'[k] = pc[k], call'[k] = call[k]
  PROVE  Shape(k)'
<1>1. \A i \in Ids : creds[i].verified \/ creds[i].email \in Emails => Exists(i)
  BY AccountsAssumption DEF Exists, NoRow
<1>2. \A i \in Ids : Exists(i) =>
        /\ creds'[i].verified \in BOOLEAN /\ (creds[i].verified => creds'[i].verified)
        /\ creds'[i].email = creds[i].email /\ creds'[i].pass = creds[i].pass
        /\ creds'[i].login = creds[i].login
  BY DEF TypeOK, RowsGrow, CredRow
<1>3. \A i \in Ids : Exists(i) => Exists(i)'
  BY <1>2 DEF Exists, NoRow, TypeOK, CredRow, RowsGrow
<1>4. \A t \in Tokens : Mailed(t) => Mailed(t)'
  BY DEF Mailed, InboxGrows
<1>5. Minted \subseteq Minted'
  BY DEF TokensKept, Minted, Fresh
<1>6. \A t \in Tokens : owner[t] \in Ids => owner'[t] = owner[t]
  BY AccountsAssumption DEF TokensKept, Minted, Fresh
<1> QED BY <1>1, <1>2, <1>3, <1>4, <1>5, <1>6 DEF Shape, Sending, Linking

\* A reply that leaves the call's arguments alone.
LEMMA ReplyShape ==
  ASSUME TypeOK, NEW h \in Handlers, NEW r \in Replies, Reply(h, r),
         call[h].op = "login" => r \notin {"ok", "unverified"}
  PROVE  Shape(h)'
<1> DEFINE d == [call[h] EXCEPT !.reply = r]
<1>1. d.op = call[h].op /\ d.reply = r
  BY DEF TypeOK, CallRecord
<1>2. pc'[h] = "done" /\ call'[h] = d
  BY DEF Reply, Goto, TypeOK
<1> HIDE DEF d
<1> QED BY <1>1, <1>2 DEF Shape, Sending, Linking

LEMMA ShapeMoved ==
  ASSUME TypeOK, TypeOK', Shapes, Rows, Owned, Addressed, NEW h \in Handlers, Moves(h),
         RowsGrow, TokensKept, InboxGrows
  PROVE  Shape(h)'
<1> DEFINE c == call[h]
<1>0. Shape(h) /\ c \in CallRecord /\ pc[h] \in Steps
  BY DEF Shapes, TypeOK
<1>1. CASE Begin(h)
  <2>1. PICK step, d : BeginsWell(h, step, d)
    BY <1>1, BeginCases
  <2>2. pc'[h] = step /\ call'[h] = d
    BY <2>1 DEF BeginsWell, Start, Goto, TypeOK
  <2>3. inbox' = inbox /\ Minted' = Minted
    BY <1>1, QuietKeeps DEF Quiet, Minted, Fresh
  <2> QED BY <2>1, <2>2, <2>3 DEF BeginsWell, Shape, Sending, Linking, Mailed
<1>2. CASE InsertCredential(h)
  <2>1. CASE Taken(c.login, c.email)
    BY <1>0, <1>2, <2>1, ReplyShape DEF InsertCredential, Replies
  <2>2. CASE ~ Taken(c.login, c.email)
    <3>1. PICK i \in Ids :
            /\ creds' = [creds EXCEPT ![i] = [login |-> c.login, email |-> c.email,
                                             pass |-> c.pass, verified |-> FALSE]]
            /\ Goto(h, "profile") /\ call' = [call EXCEPT ![h].id = i]
      BY <1>2, <2>2 DEF InsertCredential
    <3>2. c.op = "register" /\ c.email \in Emails
      BY <1>0, <1>2 DEF InsertCredential, Shape
    <3>3. creds'[i].email = c.email
      BY <3>1 DEF TypeOK
    <3>4. pc'[h] = "profile" /\ call'[h] = [c EXCEPT !.id = i]
      BY <3>1 DEF TypeOK, Goto
    <3>5. call'[h].op = c.op /\ call'[h].email = c.email /\ call'[h].id = i
      BY <1>0, <3>4 DEF CallRecord
    <3> QED BY <3>2, <3>3, <3>4, <3>5 DEF Shape, Sending, Linking
  <2> QED BY <2>1, <2>2
<1>3. CASE CreateProfile(h)
  <2>1. pc'[h] = "mint" /\ call'[h] = c /\ creds' = creds
    BY <1>3 DEF CreateProfile, Goto, TypeOK
  <2>2. pc[h] = "profile"
    BY <1>3 DEF CreateProfile
  <2> QED BY <1>0, <2>1, <2>2 DEF Shape, Sending, Linking
<1>4. CASE CreateVerifyToken(h)
  <2>1. PICK t \in Fresh : owner' = [owner EXCEPT ![t] = c.id] /\ call' = [call EXCEPT ![h].token = t]
    BY <1>4 DEF CreateVerifyToken
  <2>2. pc[h] = "mint" /\ pc'[h] = "mail" /\ creds' = creds
    BY <1>4 DEF CreateVerifyToken, Goto, TypeOK, rows
  <2>3. t \in Tokens /\ owner'[t] = c.id
    BY <2>1 DEF Fresh, TypeOK
  <2>4. call'[h] = [c EXCEPT !.token = t]
    BY <2>1 DEF TypeOK
  <2>5. /\ call'[h].op = c.op /\ call'[h].email = c.email /\ call'[h].id = c.id
        /\ call'[h].token = t
    BY <1>0, <2>4 DEF CallRecord
  <2> QED BY <1>0, <2>2, <2>3, <2>5 DEF Shape, Sending, Linking
<1>5. CASE SendVerification(h) \/ MailLost(h)
  <2>1. Reply(h, "ok") /\ pc[h] \in Sending
    BY <1>5 DEF SendVerification, MailLost, Sending
  <2>2. c.op # "login"
    BY <1>0, <2>1 DEF Shape
  <2> QED BY <2>1, <2>2, ReplyShape DEF Replies
<1>6. CASE FindCredential(h)
  <2>1. CASE Reply(h, "bad_creds")
    BY <2>1, ReplyShape DEF Replies
  <2>2. ASSUME NEW i \in Matches(c), call' = [call EXCEPT ![h].id = i, ![h].reply = Refusal(i, c)],
               Goto(h, IF Refusal(i, c) = "none" THEN "open" ELSE "done")
        PROVE  Shape(h)'
    <3> DEFINE r == Refusal(i, c)
               d == [c EXCEPT !.id = i, !.reply = r]
    <3>1. call'[h] = d
      BY <2>2 DEF TypeOK
    <3>2. d.op = c.op /\ d.id = i /\ d.pass = c.pass /\ d.reply = r
      BY <1>0 DEF CallRecord
    <3>3. pc'[h] = (IF r = "none" THEN "open" ELSE "done")
      BY <2>2 DEF Goto, TypeOK
    <3>4. i \in Ids /\ Exists(i)
      BY DEF Matches, Match
    <3>5. r \in {"none", "ok", "unverified"} => creds[i].pass = c.pass
      BY DEF Refusal
    <3>6. r = "none" => creds[i].verified
      BY DEF Refusal
    <3>7. creds' = creds /\ c.op = "login" /\ Exists(i)' = Exists(i)
      BY <1>6 DEF FindCredential, rows, Exists
    <3> HIDE DEF r, d
    <3>8. CASE r = "none"
      BY <3>1, <3>2, <3>3, <3>4, <3>5, <3>6, <3>7, <3>8 DEF Shape, Sending, Linking
    <3>9. CASE r # "none"
      BY <3>1, <3>2, <3>3, <3>4, <3>5, <3>7, <3>9 DEF Shape, Sending, Linking, Exists
    <3> QED BY <3>8, <3>9
  <2> QED BY <1>6, <2>1, <2>2 DEF FindCredential
<1>7. CASE FindByEmail(h)
  <2>1. c.op = "resend" /\ pc[h] = "find"
    BY <1>7 DEF FindByEmail
  <2>2. CASE Reply(h, "ok")
    BY <2>1, <2>2, ReplyShape DEF Replies
  <2>3. ASSUME NEW i \in Matches(c), call' = [call EXCEPT ![h].id = i], Goto(h, "mint")
        PROVE  Shape(h)'
    <3>1. pc'[h] = "mint" /\ call'[h] = [c EXCEPT !.id = i]
      BY <2>3 DEF Goto, TypeOK
    <3>2. call'[h].op = c.op /\ call'[h].id = i /\ call'[h].email = c.email
      BY <1>0, <3>1 DEF CallRecord
    <3>3. c.login = None /\ c.email \in Emails
      BY <1>0, <2>1 DEF Shape
    <3>4. i \in Ids /\ creds[i].email = c.email
      BY <3>3, AccountsAssumption DEF Matches, Match, Rows
    <3>5. creds' = creds
      BY <1>7 DEF FindByEmail, rows
    <3> QED BY <2>1, <3>1, <3>2, <3>3, <3>4, <3>5 DEF Shape, Sending, Linking
  <2> QED BY <1>7, <2>2, <2>3 DEF FindByEmail
<1>8. CASE CreateSession(h)
  <2>1. pc[h] = "open" /\ creds' = creds /\ pc'[h] = "done"
    BY <1>8 DEF CreateSession, Goto, TypeOK, rows
  <2>2. PICK t \in Fresh : call' = [call EXCEPT ![h].token = t, ![h].reply = "ok"]
    BY <1>8 DEF CreateSession
  <2>3. call'[h] = [c EXCEPT !.token = t, !.reply = "ok"]
    BY <2>2 DEF TypeOK
  <2>4. call'[h].op = c.op /\ call'[h].id = c.id /\ call'[h].pass = c.pass
    BY <1>0, <2>3 DEF CallRecord
  <2>5. c.id \in Ids /\ creds[c.id].verified /\ creds[c.id].pass = c.pass
    BY <1>0, <2>1 DEF Shape
  <2>6. creds'[c.id] # NoRow
    BY <2>1, <2>5 DEF NoRow
  <2> QED BY <2>1, <2>4, <2>5, <2>6 DEF Shape, Sending, Linking, Exists
<1>9. CASE DeleteSession(h)
  <2>1. pc[h] = "delete" /\ Reply(h, "ok")
    BY <1>9 DEF DeleteSession
  <2> QED BY <1>0, <2>1, ReplyShape DEF Shape, Replies
<1>10. CASE GetVerifyToken(h)
  <2>1. pc[h] = "get" /\ c.op = "verify" /\ c.token \in Tokens /\ Mailed(c.token)
    BY <1>0, <1>10 DEF GetVerifyToken, Shape, Linking
  <2>2. CASE links[c.token] = None
    BY <1>10, <2>1, <2>2, ReplyShape DEF GetVerifyToken, Replies
  <2>3. CASE links[c.token] # None
    <3>1. pc'[h] = "burn" /\ call'[h] = [c EXCEPT !.id = links[c.token]] /\ owner' = owner
      BY <1>10, <2>3 DEF GetVerifyToken, Goto, TypeOK, keys
    <3>2. /\ call'[h].op = c.op /\ call'[h].token = c.token
          /\ call'[h].id = links[c.token]
      BY <1>0, <3>1 DEF CallRecord
    <3>3. links[c.token] = owner[c.token] /\ links[c.token] \in Ids
      BY <2>1, <2>3 DEF Owned, TypeOK
    <3>4. \E e \in Emails : c.token \in inbox'[e]
      BY <2>1 DEF Mailed, InboxGrows
    <3>5. call'[h].token \in Tokens /\ Mailed(call[h].token)'
      BY <2>1, <3>2, <3>4 DEF Mailed
    <3> QED BY <2>1, <3>1, <3>2, <3>3, <3>5 DEF Shape, Sending, Linking
  <2> QED BY <2>2, <2>3
<1>11. CASE BurnVerifyToken(h)
  <2>1. pc[h] = "burn" /\ pc'[h] = "mark" /\ call'[h] = c /\ owner' = owner /\ inbox' = inbox
    BY <1>11 DEF BurnVerifyToken, Goto, TypeOK
  <2> QED BY <1>0, <2>1 DEF Shape, Sending, Linking, Mailed
<1>12. CASE MarkEmailVerified(h)
  <2>1. c.op = "verify" /\ Reply(h, "ok")
    BY <1>0, <1>12 DEF MarkEmailVerified, Shape, Linking
  <2> QED BY <2>1, ReplyShape DEF Replies
<1>13. CASE ResolveSession(h)
  <2>1. c.op = "use"
    BY <1>0, <1>13 DEF ResolveSession, Shape
  <2>2. CASE Reply(h, "no_session")
    BY <2>2, ReplyShape DEF Replies
  <2>3. ASSUME call' = [call EXCEPT ![h].id = sessions[c.token], ![h].reply = "ok"], Goto(h, "done")
        PROVE  Shape(h)'
    <3>1. pc'[h] = "done" /\ call'[h] = [c EXCEPT !.id = sessions[c.token], !.reply = "ok"]
      BY <2>3 DEF Goto, TypeOK
    <3>2. call'[h].op = c.op
      BY <1>0, <3>1 DEF CallRecord
    <3> QED BY <2>1, <3>1, <3>2 DEF Shape, Sending, Linking
  <2> QED BY <1>13, <2>2, <2>3 DEF ResolveSession
<1>14. CASE Fail(h)
  BY <1>14, ReplyShape DEF Fail, Replies
<1>15. CASE Return(h)
  <2>1. pc'[h] = "idle"
    BY <1>15 DEF Return, Goto, TypeOK
  <2> QED BY <2>1 DEF Shape, Sending, Linking
<1> QED BY <1>1, <1>2, <1>3, <1>4, <1>5, <1>6, <1>7, <1>8, <1>9, <1>10, <1>11, <1>12, <1>13,
           <1>14, <1>15 DEF Moves, Step

LEMMA ShapeStep ==
  ASSUME TypeOK, TypeOK', Shapes, Rows, Owned, Addressed, Next
  PROVE  Shapes'
<1> SUFFICES ASSUME NEW k \in Handlers
             PROVE  Shape(k)'
  BY DEF Shapes
<1>1. RowsGrow /\ TokensKept /\ InboxGrows
  BY StepsKeep
<1>2. Shape(k)
  BY DEF Shapes
<1>3. CASE pc'[k] = pc[k] /\ call'[k] = call[k]
  BY <1>1, <1>2, <1>3, ShapeKept
<1>4. ASSUME NEW t \in Tokens, ExpireSession(t) \/ ExpireLink(t)
      PROVE  Shape(k)'
  BY <1>3, <1>4 DEF ExpireSession, ExpireLink
<1>5. ASSUME NEW h \in Handlers, Moves(h)
      PROVE  Shape(k)'
  <2>1. CASE k = h
    BY <1>1, <1>5, <2>1, ShapeMoved
  <2>2. CASE k # h
    BY <1>3, <1>5, <2>2, MovesAlone DEF Alone
  <2> QED BY <2>1, <2>2
<1> QED BY <1>4, <1>5 DEF Next, Moves

LEMMA RowsStep ==
  ASSUME TypeOK, Shapes, Rows, Addressed, Next
  PROVE  Rows'
<1> USE DEF rows, keys
<1>1. CASE creds' = creds
  BY <1>1 DEF Rows, Exists
<1>2. ASSUME NEW h \in Handlers, Moves(h)
      PROVE  Rows'
  <2>0. Shape(h) /\ call[h] \in CallRecord
    BY DEF Shapes, TypeOK
  <2>1. CASE InsertCredential(h)
    BY <1>1, <2>0, <2>1 DEF InsertCredential, Shape, Rows, Exists, TypeOK
  <2>2. CASE MarkEmailVerified(h)
    <3>2. \A i \in Ids : creds'[i].login = creds[i].login /\ creds'[i].email = creds[i].email
      BY <2>2 DEF MarkEmailVerified, TypeOK, CredRow
    <3>3. \A i \in Ids : i # call[h].id => creds'[i] = creds[i]
      BY <2>2 DEF MarkEmailVerified, TypeOK
    <3>4. Exists(call[h].id)
      BY <2>0, <2>2 DEF MarkEmailVerified, Shape, Linking, Mailed, Addressed
    <3> QED BY <3>2, <3>3, <3>4 DEF Rows, Exists
  <2>3. CASE ~ InsertCredential(h) /\ ~ MarkEmailVerified(h)
    BY <1>1, <1>2, <2>3, MovesCases, QuietKeeps DEF CreateProfile, CreateVerifyToken,
       SendVerification, CreateSession, DeleteSession, BurnVerifyToken
  <2> QED BY <2>1, <2>2, <2>3
<1>3. CASE \E t \in Tokens : ExpireSession(t) \/ ExpireLink(t)
  BY <1>1, <1>3 DEF ExpireSession, ExpireLink
<1> QED BY <1>2, <1>3 DEF Next, Moves

\* The actions that write a key of Valkey, and all others.
LEMMA KeyCases ==
  ASSUME Next
  PROVE  \/ \E h \in Handlers : \/ CreateVerifyToken(h) \/ CreateSession(h)
                              \/ DeleteSession(h) \/ BurnVerifyToken(h)
         \/ \E t \in Tokens : ExpireSession(t) \/ ExpireLink(t)
         \/ UNCHANGED <<sessions, links, owner, revoked>>
<1>1. ASSUME NEW h \in Handlers, Moves(h)
      PROVE  \/ CreateVerifyToken(h) \/ CreateSession(h) \/ DeleteSession(h) \/ BurnVerifyToken(h)
             \/ UNCHANGED <<sessions, links, owner, revoked>>
  BY <1>1, MovesCases, QuietKeeps
     DEF InsertCredential, CreateProfile, SendVerification, MarkEmailVerified, keys
<1> QED BY <1>1 DEF Next, Moves

LEMMA OwnedStep ==
  ASSUME TypeOK, Owned, Next
  PROVE  Owned'
<1> USE DEF TypeOK, Owned
<1>1. ASSUME NEW h \in Handlers, CreateVerifyToken(h) \/ CreateSession(h)
      PROVE  Owned'
  <2>1. CASE CreateVerifyToken(h)
    BY <2>1 DEF CreateVerifyToken, Fresh
  <2>2. CASE CreateSession(h)
    BY <2>2 DEF CreateSession, Fresh
  <2> QED BY <1>1, <2>1, <2>2
<1>2. ASSUME NEW h \in Handlers, DeleteSession(h) \/ BurnVerifyToken(h)
      PROVE  Owned'
  BY <1>2 DEF DeleteSession, BurnVerifyToken
<1>3. ASSUME NEW t \in Tokens, ExpireSession(t) \/ ExpireLink(t)
      PROVE  Owned'
  BY <1>3 DEF ExpireSession, ExpireLink
<1> QED BY <1>1, <1>2, <1>3, KeyCases

\* The owner of a row is not lost: what is verified or has an address exists, and
\* what exists stays.
LEMMA RowsStay ==
  ASSUME TypeOK, TypeOK', RowsGrow, NEW i \in Ids
  PROVE  /\ creds[i].verified => Exists(i)
         /\ Exists(i) => Exists(i)'
BY DEF TypeOK, RowsGrow, CredRow, Exists, NoRow

LEMMA AddressedStep ==
  ASSUME TypeOK, TypeOK', Shapes, Addressed, Next
  PROVE  Addressed'
<1> SUFFICES ASSUME NEW e \in Emails, NEW t \in inbox'[e]
             PROVE  owner'[t] \in Ids /\ Exists(owner[t])' /\ creds'[owner'[t]].email = e
  BY DEF Addressed
<1>1. RowsGrow /\ TokensKept
  BY StepsKeep
<1>2. CASE owner[t] \in Ids /\ Exists(owner[t]) /\ creds[owner[t]].email = e /\ t \in Tokens
  <2>1. owner'[t] = owner[t]
    BY <1>1, <1>2, AccountsAssumption DEF TokensKept, Minted, Fresh
  <2> QED BY <1>1, <1>2, <2>1, RowsStay DEF RowsGrow, Exists
<1>3. CASE t \in inbox[e]
  BY <1>2, <1>3 DEF Addressed, TypeOK
<1>4. CASE t \notin inbox[e]
  <2>1. PICK h \in Handlers : SendVerification(h)
    <3>1. inbox' # inbox
      BY <1>4
    <3>2. \A h \in Handlers : Moves(h) => SendVerification(h)
      BY <3>1, MovesCases, QuietKeeps DEF InsertCredential, CreateProfile, CreateVerifyToken,
         CreateSession, DeleteSession, BurnVerifyToken, MarkEmailVerified
    <3> QED BY <3>1, <3>2 DEF Next, Moves, ExpireSession, ExpireLink
  <2>2. pc[h] = "mail" /\ e = call[h].email /\ t = call[h].token
    BY <1>4, <2>1 DEF SendVerification, TypeOK
  <2>3. t \in Tokens /\ owner[t] = call[h].id /\ call[h].id \in Ids /\ creds[call[h].id].email = e
    BY <2>2 DEF Shapes, Shape, Sending
  <2>4. Exists(owner[t])
    BY <2>3, AccountsAssumption DEF Exists, NoRow
  <2> QED BY <1>2, <2>3, <2>4
<1> QED BY <1>3, <1>4

LEMMA SessionsStep ==
  ASSUME TypeOK, TypeOK', Shapes, SessionsVerified, Next
  PROVE  SessionsVerified'
<1> SUFFICES ASSUME NEW t \in Tokens, sessions'[t] # None
             PROVE  creds'[sessions'[t]].verified
  BY DEF SessionsVerified
<1>1. RowsGrow
  BY StepsKeep
<1>2. CASE sessions'[t] = sessions[t]
  <2>1. sessions[t] \in Ids /\ creds[sessions[t]].verified
    BY <1>2 DEF TypeOK, SessionsVerified
  <2> QED BY <1>1, <1>2, <2>1, RowsStay DEF RowsGrow
<1>3. ASSUME NEW h \in Handlers, CreateSession(h), sessions'[t] # sessions[t]
      PROVE  creds'[sessions'[t]].verified
  <2>1. sessions'[t] = call[h].id /\ pc[h] = "open" /\ creds' = creds
    BY <1>3 DEF CreateSession, TypeOK, rows
  <2> QED BY <2>1 DEF Shapes, Shape
<1>4. ASSUME NEW h \in Handlers, CreateVerifyToken(h) \/ DeleteSession(h) \/ BurnVerifyToken(h)
      PROVE  sessions'[t] = sessions[t]
  BY <1>4 DEF CreateVerifyToken, DeleteSession, BurnVerifyToken, TypeOK
<1>5. ASSUME NEW s \in Tokens, ExpireSession(s) \/ ExpireLink(s)
      PROVE  sessions'[t] = sessions[t]
  BY <1>5 DEF ExpireSession, ExpireLink, TypeOK
<1> QED BY <1>2, <1>3, <1>4, <1>5, KeyCases

LEMMA VerifiedStep ==
  ASSUME TypeOK, TypeOK', Shapes, Rows, Addressed, VerifiedByMail, Next
  PROVE  VerifiedByMail'
<1> SUFFICES ASSUME NEW i \in Ids, creds'[i].verified
             PROVE  \E t \in inbox'[creds'[i].email] : owner'[t] = i
  BY DEF VerifiedByMail
<1>1. RowsGrow /\ TokensKept /\ InboxGrows
  BY StepsKeep
<1>2. ASSUME NEW e \in Emails, NEW t \in inbox[e], owner[t] = i
      PROVE  \E s \in inbox'[creds'[i].email] : owner'[s] = i
  <2>1. t \in Tokens /\ Exists(i) /\ creds[i].email = e
    BY <1>2 DEF Addressed, TypeOK
  <2>2. creds'[i].email = e /\ t \in inbox'[e]
    BY <1>1, <2>1 DEF RowsGrow, InboxGrows
  <2>3. owner'[t] = i
    BY <1>1, <1>2, <2>1, AccountsAssumption DEF TokensKept, Minted, Fresh
  <2> QED BY <2>2, <2>3
<1>3. CASE creds[i].verified
  <2>1. PICK t \in inbox[creds[i].email] : owner[t] = i
    BY <1>3 DEF VerifiedByMail
  <2>2. creds[i].email \in Emails
    BY <1>1, <1>3, RowsStay DEF Rows
  <2> QED BY <1>2, <2>1, <2>2
<1>4. CASE ~ creds[i].verified
  <2>1. PICK h \in Handlers : MarkEmailVerified(h)
    <3>1. creds' # creds
      BY <1>4
    <3>2. \A h \in Handlers : Moves(h) => InsertCredential(h) \/ MarkEmailVerified(h)
      BY <3>1, MovesCases, QuietKeeps DEF CreateProfile, CreateVerifyToken, SendVerification,
         CreateSession, DeleteSession, BurnVerifyToken, rows
    <3>3. ASSUME NEW h \in Handlers, InsertCredential(h)
          PROVE  FALSE
      BY <1>4, <3>1, <3>3 DEF InsertCredential, TypeOK
    <3> QED BY <3>1, <3>2, <3>3 DEF Next, Moves, ExpireSession, ExpireLink, rows
  <2>2. pc[h] = "mark" /\ call[h].id = i
    BY <1>4, <2>1 DEF MarkEmailVerified, TypeOK
  <2>3. PICK e \in Emails : call[h].token \in inbox[e]
    BY <2>2 DEF Shapes, Shape, Linking, Mailed
  <2>4. owner[call[h].token] = i
    BY <2>2 DEF Shapes, Shape
  <2> QED BY <1>2, <2>3, <2>4
<1> QED BY <1>3, <1>4

LEMMA RevokedStep ==
  ASSUME TypeOK, Shapes, RevokedMinted, LogoutRevokes, Next
  PROVE  RevokedMinted' /\ LogoutRevokes'
<1> USE DEF TypeOK, RevokedMinted, LogoutRevokes
<1>0. Minted \subseteq Minted'
  BY StepsKeep DEF TokensKept, Minted, Fresh
<1>1. CASE UNCHANGED <<sessions, links, owner, revoked>>
  BY <1>0, <1>1
<1>2. ASSUME NEW h \in Handlers, CreateVerifyToken(h) \/ BurnVerifyToken(h)
      PROVE  RevokedMinted' /\ LogoutRevokes'
  BY <1>0, <1>2 DEF CreateVerifyToken, BurnVerifyToken
<1>3. ASSUME NEW h \in Handlers, CreateSession(h)
      PROVE  RevokedMinted' /\ LogoutRevokes'
  <2>1. PICK t \in Fresh : sessions' = [sessions EXCEPT ![t] = call[h].id]
    BY <1>3 DEF CreateSession
  <2>2. t \notin revoked /\ revoked' = revoked
    BY <1>3 DEF CreateSession, Minted
  <2> QED BY <1>0, <2>1, <2>2
<1>4. ASSUME NEW h \in Handlers, DeleteSession(h)
      PROVE  RevokedMinted' /\ LogoutRevokes'
  <2>1. call[h].token \in Minted
    BY <1>4 DEF DeleteSession, Shapes, Shape
  <2> QED BY <1>0, <1>4, <2>1 DEF DeleteSession, Minted
<1>5. ASSUME NEW t \in Tokens, ExpireSession(t) \/ ExpireLink(t)
      PROVE  RevokedMinted' /\ LogoutRevokes'
  BY <1>0, <1>5 DEF ExpireSession, ExpireLink
<1> QED BY <1>1, <1>2, <1>3, <1>4, <1>5, KeyCases

\* A token that becomes issued has just been minted.
LEMMA IssuedStep ==
  ASSUME TypeOK, TypeOK', Shapes, Next, NEW t \in Tokens, Issued(t)'
  PROVE  Issued(t) \/ links'[t] # None
<1>1. CASE Mailed(t)' /\ ~ Mailed(t)
  <2>1. PICK h \in Handlers : SendVerification(h)
    <3>1. inbox' # inbox
      BY <1>1 DEF Mailed
    <3>2. \A h \in Handlers : Moves(h) => SendVerification(h)
      BY <3>1, MovesCases, QuietKeeps DEF InsertCredential, CreateProfile, CreateVerifyToken,
         CreateSession, DeleteSession, BurnVerifyToken, MarkEmailVerified
    <3> QED BY <3>1, <3>2 DEF Next, Moves, ExpireSession, ExpireLink
  <2>2. pc[h] = "mail" /\ t = call[h].token
    BY <1>1, <2>1 DEF SendVerification, TypeOK, Mailed
  <2> QED BY <2>2 DEF Issued
<1>2. ASSUME NEW k \in Handlers, pc'[k] = "mail", call'[k].token = t
      PROVE  Issued(t) \/ links'[t] # None
  <2>1. CASE pc'[k] = pc[k] /\ call'[k] = call[k]
    BY <1>2, <2>1 DEF Issued
  <2>2. ASSUME NEW s \in Tokens, ExpireSession(s) \/ ExpireLink(s)
        PROVE  pc'[k] = pc[k] /\ call'[k] = call[k]
    BY <2>2 DEF ExpireSession, ExpireLink
  <2>3. ASSUME NEW h \in Handlers, Moves(h), k # h
        PROVE  pc'[k] = pc[k] /\ call'[k] = call[k]
    BY <2>3, MovesAlone DEF Alone
  <2>4. CASE Moves(k)
    <3>1. CreateVerifyToken(k)
      <4>1. CASE Begin(k)
        BY <1>2, <4>1, StartMoves DEF Start, Goto, TypeOK
      <4>2. ASSUME NEW step \in Steps, Goto(k, step), step # "mail"
            PROVE  FALSE
        BY <1>2, <4>2 DEF Goto, TypeOK
      <4>3. ASSUME NEW r, Reply(k, r)
            PROVE  FALSE
        BY <4>2, <4>3 DEF Reply, Steps
      <4> QED BY <2>4, <4>1, <4>2, <4>3 DEF Moves, Step, InsertCredential, CreateProfile,
             SendVerification, FindCredential, FindByEmail, CreateSession, DeleteSession,
             GetVerifyToken, BurnVerifyToken, MarkEmailVerified, ResolveSession, Return,
             MailLost, Fail, Steps
    <3>2. PICK s \in Fresh : /\ links' = [links EXCEPT ![s] = call[k].id]
                            /\ call' = [call EXCEPT ![k].token = s]
      BY <3>1 DEF CreateVerifyToken
    <3>3. pc[k] = "mint" /\ call[k] \in CallRecord
      BY <3>1 DEF CreateVerifyToken, TypeOK
    <3>4. call[k].id \in Ids
      BY <3>3 DEF Shapes, Shape, Sending
    <3>5. t = s
      BY <1>2, <3>2, <3>3 DEF TypeOK, CallRecord
    <3> QED BY <3>2, <3>4, <3>5, AccountsAssumption DEF TypeOK
  <2> QED BY <2>1, <2>2, <2>3, <2>4 DEF Next, Moves
<1> QED BY <1>1, <1>2 DEF Issued

LEMMA LinksStep ==
  ASSUME TypeOK, TypeOK', Shapes, Addressed, LinksGood, Next
  PROVE  LinksGood'
<1> SUFFICES ASSUME env \cap {"failure", "expiry"} = {}, NEW t \in Tokens, Issued(t)',
                    links'[t] = None
             PROVE  Spent(t)'
  BY StepsKeep DEF LinksGood
<1>0. RowsGrow /\ TokensKept /\ "failure" \notin env /\ "expiry" \notin env
  BY StepsKeep
<1>1. Issued(t)
  BY IssuedStep
<1>2. owner[t] \in Ids /\ Exists(owner[t])
  <2>1. CASE Mailed(t)
    BY <2>1 DEF Mailed, Addressed
  <2>2. ASSUME NEW h \in Handlers, pc[h] = "mail", call[h].token = t
        PROVE  owner[t] \in Ids /\ Exists(owner[t])
    <3>1. owner[t] \in Ids /\ creds[owner[t]].email \in Emails
      BY <2>2 DEF Shapes, Shape, Sending
    <3> QED BY <3>1, AccountsAssumption DEF Exists, NoRow
  <2> QED BY <1>1, <2>1, <2>2 DEF Issued
<1>3. owner'[t] = owner[t]
  BY <1>0, <1>2, AccountsAssumption DEF TokensKept, Minted, Fresh
<1>4. CASE creds[owner[t]].verified
  BY <1>0, <1>2, <1>3, <1>4 DEF RowsGrow, Spent
<1>5. ASSUME NEW k \in Handlers, pc[k] = "mark", call[k].token = t
      PROVE  Spent(t)'
  <2>1. CASE pc'[k] = pc[k] /\ call'[k] = call[k]
    BY <1>5, <2>1 DEF Spent
  <2>2. CASE MarkEmailVerified(k)
    <3>1. call[k].id = owner[t]
      BY <1>5 DEF Shapes, Shape
    <3>2. creds'[owner[t]].verified
      BY <1>2, <2>2, <3>1 DEF MarkEmailVerified, TypeOK, CredRow
    <3> QED BY <1>3, <3>2 DEF Spent
  <2>3. ASSUME Moves(k)
        PROVE  MarkEmailVerified(k)
    BY <1>0, <1>5, <2>3, StartMoves DEF Moves, Start, Step, InsertCredential, CreateProfile,
       CreateVerifyToken, SendVerification, FindCredential, FindByEmail, CreateSession,
       DeleteSession, GetVerifyToken, BurnVerifyToken, ResolveSession, Return, MailLost, Fail
  <2>4. ASSUME NEW h \in Handlers, Moves(h), h # k
        PROVE  pc'[k] = pc[k] /\ call'[k] = call[k]
    BY <2>4, MovesAlone DEF Alone
  <2> QED BY <1>0, <2>1, <2>2, <2>3, <2>4 DEF Next, Moves, ExpireSession, ExpireLink
<1>6. CASE links[t] # None
  <2>1. ASSUME NEW h \in Handlers, BurnVerifyToken(h)
        PROVE  Spent(t)'
    <3>1. pc'[h] = "mark" /\ call' = call /\ t = call[h].token
      BY <1>6, <2>1 DEF BurnVerifyToken, Goto, TypeOK
    <3> QED BY <3>1 DEF Spent
  <2>2. ASSUME NEW h \in Handlers, CreateVerifyToken(h) \/ CreateSession(h) \/ DeleteSession(h)
        PROVE  links'[t] = links[t] \/ owner[t] = None
    BY <2>2 DEF CreateVerifyToken, CreateSession, DeleteSession, TypeOK, Fresh
  <2> QED BY <1>0, <1>2, <1>6, <2>1, <2>2, KeyCases, AccountsAssumption DEF ExpireSession, ExpireLink
<1> QED BY <1>1, <1>4, <1>5, <1>6 DEF LinksGood, Spent

LEMMA ProfileStep ==
  ASSUME TypeOK, TypeOK', Shapes, ProfileSeeded, Next
  PROVE  ProfileSeeded'
<1> DEFINE Past(h) == /\ call[h].op = "register"
                      /\ pc[h] \in Sending \/ Answered(h, "register", {"ok"})
<1> SUFFICES ASSUME "profiles_failure" \notin env, NEW k \in Handlers, Past(k)'
             PROVE  call'[k].id \in profiles'
  BY StepsKeep DEF ProfileSeeded
<1>0. /\ profiles \subseteq profiles' /\ call[k] \in CallRecord
      /\ (Past(k) => call[k].id \in profiles)
  BY StepsKeep DEF ProfileSeeded, TypeOK
<1>1. CASE pc'[k] = pc[k] /\ call'[k] = call[k]
  BY <1>0, <1>1 DEF Answered
<1>2. ASSUME Past(k), call'[k].id = call[k].id
      PROVE  call'[k].id \in profiles'
  BY <1>0, <1>2
<1>3. CASE Moves(k)
  <2>1. CASE Begin(k)
    <3>1. PICK step, d : BeginsWell(k, step, d)
      BY <2>1, BeginCases
    <3>2. pc'[k] = step /\ call'[k] = d
      BY <3>1 DEF BeginsWell, Start, Goto, TypeOK
    <3> QED BY <3>1, <3>2 DEF BeginsWell, Sending, Answered
  <2>2. CASE InsertCredential(k)
    <3>1. CASE Reply(k, "taken")
      <4>1. pc'[k] = "done" /\ call'[k].reply = "taken"
        BY <1>0, <3>1 DEF Reply, Goto, TypeOK, CallRecord
      <4> QED BY <4>1 DEF Sending, Answered
    <3>2. CASE Goto(k, "profile")
      BY <3>2 DEF Goto, TypeOK, Sending, Answered
    <3> QED BY <2>2, <3>1, <3>2 DEF InsertCredential
  <2>3. CASE CreateProfile(k)
    BY <2>3 DEF CreateProfile, TypeOK
  <2>4. CASE CreateVerifyToken(k)
    <3>1. PICK t \in Fresh : call' = [call EXCEPT ![k].token = t]
      BY <2>4 DEF CreateVerifyToken
    <3>2. call'[k].op = call[k].op /\ call'[k].id = call[k].id
      BY <1>0, <3>1 DEF TypeOK, CallRecord
    <3>3. pc[k] = "mint"
      BY <2>4 DEF CreateVerifyToken
    <3> QED BY <1>2, <3>2, <3>3 DEF Sending
  <2>5. CASE SendVerification(k) \/ MailLost(k)
    <3>1. Reply(k, "ok") /\ pc[k] \in Sending
      BY <2>5 DEF SendVerification, MailLost, Sending
    <3>2. call'[k].op = call[k].op /\ call'[k].id = call[k].id
      BY <1>0, <3>1 DEF Reply, TypeOK, CallRecord
    <3> QED BY <1>2, <3>1, <3>2
  <2>6. ASSUME call'[k].op # "register" \/ pc'[k] \notin Sending \cup {"done"}
        PROVE  FALSE
    BY <2>6 DEF Answered
  <2>7. CASE FindCredential(k)
    <3>1. call[k].op = "login"
      BY <2>7 DEF FindCredential
    <3>2. call'[k].op = call[k].op
      <4>1. ASSUME NEW r, Reply(k, r)
            PROVE  call'[k].op = call[k].op
        BY <1>0, <4>1 DEF Reply, TypeOK, CallRecord
      <4>2. ASSUME NEW i \in Matches(call[k]),
                   call' = [call EXCEPT ![k].id = i, ![k].reply = Refusal(i, call[k])]
            PROVE  call'[k].op = call[k].op
        BY <1>0, <4>2 DEF TypeOK, CallRecord
      <4> QED BY <2>7, <4>1, <4>2 DEF FindCredential
    <3> QED BY <2>6, <3>1, <3>2
  <2>8. CASE FindByEmail(k)
    <3>1. call[k].op = "resend"
      BY <2>8 DEF FindByEmail
    <3>2. call'[k].op = call[k].op
      <4>1. ASSUME NEW r, Reply(k, r)
            PROVE  call'[k].op = call[k].op
        BY <1>0, <4>1 DEF Reply, TypeOK, CallRecord
      <4>2. ASSUME NEW i, call' = [call EXCEPT ![k].id = i]
            PROVE  call'[k].op = call[k].op
        BY <1>0, <4>2 DEF TypeOK, CallRecord
      <4> QED BY <2>8, <4>1, <4>2 DEF FindByEmail
    <3> QED BY <2>6, <3>1, <3>2
  <2>9. CASE CreateSession(k)
    <3>1. call[k].op = "login"
      BY <2>9 DEF CreateSession, Shapes, Shape
    <3>2. PICK t \in Fresh : call' = [call EXCEPT ![k].token = t, ![k].reply = "ok"]
      BY <2>9 DEF CreateSession
    <3>3. call'[k].op = call[k].op
      BY <1>0, <3>2 DEF TypeOK, CallRecord
    <3> QED BY <2>6, <3>1, <3>3
  <2>10. CASE DeleteSession(k) \/ MarkEmailVerified(k)
    <3>1. call[k].op # "register" /\ Reply(k, "ok")
      BY <2>10 DEF DeleteSession, MarkEmailVerified, Shapes, Shape, Linking
    <3>2. call'[k].op = call[k].op
      BY <1>0, <3>1 DEF Reply, TypeOK, CallRecord
    <3> QED BY <2>6, <3>1, <3>2
  <2>11. CASE GetVerifyToken(k)
    <3>1. call[k].op = "verify"
      BY <2>11 DEF GetVerifyToken, Shapes, Shape, Linking
    <3>2. call'[k].op = call[k].op
      BY <1>0, <2>11 DEF GetVerifyToken, Reply, TypeOK, CallRecord
    <3> QED BY <2>6, <3>1, <3>2
  <2>12. CASE BurnVerifyToken(k)
    BY <2>6, <2>12 DEF BurnVerifyToken, Goto, TypeOK, Sending
  <2>13. CASE ResolveSession(k)
    <3>1. call[k].op = "use"
      BY <2>13 DEF ResolveSession, Shapes, Shape
    <3>2. call'[k].op = call[k].op
      BY <1>0, <2>13 DEF ResolveSession, Reply, TypeOK, CallRecord
    <3> QED BY <2>6, <3>1, <3>2
  <2>14. CASE Fail(k)
    <3>1. pc'[k] = "done" /\ call'[k].reply = "error"
      BY <1>0, <2>14 DEF Fail, Reply, Goto, TypeOK, CallRecord
    <3> QED BY <3>1 DEF Answered, Sending
  <2>15. CASE Return(k)
    BY <2>6, <2>15 DEF Return, Goto, TypeOK, Sending
  <2> QED BY <1>3, <2>1, <2>2, <2>3, <2>4, <2>5, <2>7, <2>8, <2>9, <2>10, <2>11, <2>12, <2>13,
             <2>14, <2>15 DEF Moves, Step
<1>4. ASSUME NEW h \in Handlers, Moves(h), h # k
      PROVE  pc'[k] = pc[k] /\ call'[k] = call[k]
  BY <1>4, MovesAlone DEF Alone
<1> QED BY <1>1, <1>3, <1>4 DEF Next, Moves, ExpireSession, ExpireLink

--------------------------------------------------------------------------------
\* The theorems.

LEMMA AccountsInit ==
  ASSUME Init
  PROVE  AccountsInv
<1> USE DEF Init
<1>1. \A i \in Ids : creds[i] = NoRow
  OBVIOUS
<1>2. \A h \in Handlers : pc[h] = "idle" /\ call[h] = IdleCall
  OBVIOUS
<1>3. TypeOK
  <2>1. IdleCall \in CallRecord
    BY DEF IdleCall, NewCall, CallRecord, Replies
  <2>2. NoRow \in CredRow
    BY DEF NoRow, CredRow
  <2> QED BY <2>1, <2>2, AccountsAssumption DEF TypeOK, Steps
<1>4. Shapes
  BY <1>2 DEF Shapes, Shape, Sending, Linking
<1>5. Rows
  BY <1>1 DEF Rows, Exists
<1>6. Owned /\ Addressed /\ SessionsVerified
  BY DEF Owned, Addressed, SessionsVerified
<1>7. VerifiedByMail
  BY <1>1 DEF VerifiedByMail, NoRow
<1>8. RevokedMinted /\ LogoutRevokes
  BY DEF RevokedMinted, LogoutRevokes
<1>9. LinksGood
  BY <1>2 DEF LinksGood, Issued, Mailed
<1>10. ProfileSeeded
  BY <1>2 DEF ProfileSeeded, Sending, Answered
<1> QED BY <1>3, <1>4, <1>5, <1>6, <1>7, <1>8, <1>9, <1>10 DEF AccountsInv

LEMMA AccountsStep ==
  ASSUME AccountsInv, [Next]_vars
  PROVE  AccountsInv'
<1> USE DEF AccountsInv
<1>1. CASE Next
  <2>1. TypeOK'
    BY <1>1, TypeStep
  <2>2. Shapes' /\ Rows' /\ Owned' /\ Addressed'
    BY <1>1, <2>1, ShapeStep, RowsStep, OwnedStep, AddressedStep
  <2>3. SessionsVerified' /\ VerifiedByMail'
    BY <1>1, <2>1, SessionsStep, VerifiedStep
  <2>4. RevokedMinted' /\ LogoutRevokes'
    BY <1>1, RevokedStep
  <2>5. LinksGood' /\ ProfileSeeded'
    BY <1>1, <2>1, LinksStep, ProfileStep
  <2> QED BY <2>1, <2>2, <2>3, <2>4, <2>5
<1>2. CASE UNCHANGED vars
  <2> USE <1>2 DEF vars, rows, keys
  <2>1. TypeOK' /\ Owned' /\ RevokedMinted' /\ LogoutRevokes'
    BY DEF TypeOK, Owned, RevokedMinted, LogoutRevokes, Minted, Fresh
  <2>2. Shapes' /\ Rows'
    BY DEF Shapes, Shape, Rows, Exists, Minted, Fresh, Mailed
  <2>3. Addressed' /\ SessionsVerified' /\ VerifiedByMail'
    BY DEF Addressed, SessionsVerified, VerifiedByMail, Exists
  <2>4. LinksGood' /\ ProfileSeeded'
    BY DEF LinksGood, Issued, Spent, Mailed, ProfileSeeded, Answered
  <2> QED BY <2>1, <2>2, <2>3, <2>4
<1> QED BY <1>1, <1>2

LEMMA AccountsInvariant == Spec => []AccountsInv
BY AccountsInit, AccountsStep, PTL DEF Spec

\* The type invariant of the auth handlers and of the keys and rows they share.
THEOREM AccountsTypes == Spec => []TypeOK
BY AccountsInvariant, PTL DEF AccountsInv

\* Login (auth_server.go) opens a session only for an account that is verified and
\* whose password the caller gave, however it overlaps with other calls.
THEOREM LoginIsProven == Spec => []LoginProven
<1>1. AccountsInv => LoginProven
  BY DEF AccountsInv, Shapes, Shape, Answered, SessionsVerified, LoginProven
<1> QED BY <1>1, AccountsInvariant, PTL

\* VerifyEmail and ResendVerification mark an account only by a link that was minted
\* for it and mailed to its own address.
THEOREM VerificationIsByMail == Spec => []VerifiedByMail
BY AccountsInvariant, PTL DEF AccountsInv

\* Logout: a session whose deletion it confirmed is not accepted again by any service.
THEOREM LogoutIsFinal == Spec => []LogoutRevokes
BY AccountsInvariant, PTL DEF AccountsInv

\* VerifyEmail's GET, DEL and UPDATE: unless something fails or lapses, a mailed link
\* is gone only if its account is verified or about to be.
THEOREM LinksAreSpentWell == Spec => []LinkSpent
<1>1. AccountsInv => LinkSpent
  <2> SUFFICES ASSUME AccountsInv, env \cap {"failure", "expiry"} = {}, NEW e \in Emails,
                      NEW t \in inbox[e], links[t] = None
               PROVE  Spent(t)
    BY DEF LinkSpent, Spent
  <2>1. t \in Tokens /\ Issued(t)
    BY DEF AccountsInv, TypeOK, Issued, Mailed
  <2> QED BY <2>1 DEF AccountsInv, LinksGood
<1> QED BY <1>1, AccountsInvariant, PTL

\* Register's handoff to the Profiles service: its ok means that the profile exists,
\* unless Profiles refused the row.
THEOREM RegisterSeedsProfile == Spec => []RegisteredHasProfile
<1>1. AccountsInv => RegisteredHasProfile
  BY DEF AccountsInv, ProfileSeeded, RegisteredHasProfile, Answered
<1> QED BY <1>1, AccountsInvariant, PTL

================================================================================
