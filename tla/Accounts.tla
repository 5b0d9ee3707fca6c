-------------------------------- MODULE Accounts -------------------------------
(***************************************************************************)
(* Accounts and sessions: auth.credentials in Postgres, session:{token}    *)
(* and verify:{token} in Valkey, the profile rows that Register seeds in   *)
(* the Profiles service, and the session check every other service makes.  *)
(*                                                                         *)
(* Each store call or RPC of a handler is one action.  A password stands   *)
(* for itself and its hash (Verify is exact), a login or an email for its  *)
(* trimmed, case-folded form, and a token is fresh whenever it is minted.  *)
(* Only those who read an address see the links mailed to it.              *)
(***************************************************************************)
EXTENDS Integers, FiniteSets

CONSTANTS Ids,        \* user ids; bounds the number of accounts
          Logins, Emails, Passwords,
          Tokens,     \* session and verification tokens; bounds their number
          Handlers,   \* calls the services may serve at the same time
          None,
          Envs        \* environments to consider: sets of Happenings

\* failure: a call may fail at any command.  profiles_failure: the store of the
\* Profiles service may refuse the row.  expiry: a session or a verification token
\* may lapse.
Happenings == {"failure", "profiles_failure", "expiry"}

ASSUME AccountsAssumption ==
  /\ None \notin Ids \cup Logins \cup Emails \cup Passwords \cup Tokens
  /\ Envs \subseteq SUBSET Happenings

VARIABLES creds,     \* rows of auth.credentials, by user id
          profiles,  \* user ids that have a row in profiles.profiles
          sessions,  \* session:{token}: the user id, or None
          links,     \* verify:{token}: the user id, or None
          inbox,     \* the tokens mailed to an address
          owner,     \* whom a token was minted for, None while it is fresh
          pc, call,  \* a handler's next command; its arguments, locals and reply
          revoked,   \* history: tokens a Logout has confirmed deleted
          env        \* what may happen, chosen at the start and never changed

rows  == <<creds, profiles>>
keys  == <<sessions, links, owner>>
vars  == <<rows, keys, inbox, pc, call, revoked, env>>

NoRow == [login |-> None, email |-> None, pass |-> None, verified |-> FALSE]
NewCall(op, l, e, p, t) == [op |-> op, login |-> l, email |-> e, pass |-> p, token |-> t,
                            id |-> None, reply |-> "none"]
IdleCall == NewCall("none", None, None, None, None)

Steps   == {"idle", "insert", "profile", "mint", "mail", "find", "open", "delete",
            "get", "burn", "mark", "resolve", "done"}
Ops     == {"register", "login", "logout", "verify", "resend", "use"}
Replies == {"none", "ok", "taken", "bad_creds", "unverified", "no_session", "bad_token", "error"}

Exists(i) == creds[i] # NoRow
Taken(l, e) == \E i \in Ids : Exists(i) /\ (creds[i].login = l \/ creds[i].email = e)
Fresh  == {t \in Tokens : owner[t] = None}
Minted == Tokens \ Fresh

\* The bounds: a call starts only when the ids and tokens it may need are left.
InFlight(ops) == {h \in Handlers : call[h].op \in ops}
IdLeft    == Cardinality({i \in Ids : ~Exists(i)}) > Cardinality(InFlight({"register"}))
TokenLeft == Cardinality(Fresh) > Cardinality(InFlight({"register", "login", "resend"}))

Init ==
  /\ creds = [i \in Ids |-> NoRow] /\ profiles = {}
  /\ sessions = [t \in Tokens |-> None]
  /\ links = [t \in Tokens |-> None]
  /\ inbox = [e \in Emails |-> {}]
  /\ owner = [t \in Tokens |-> None]
  /\ pc = [h \in Handlers |-> "idle"] /\ call = [h \in Handlers |-> IdleCall]
  /\ revoked = {} /\ env \in Envs

--------------------------------------------------------------------------------
Goto(h, step) == pc' = [pc EXCEPT ![h] = step]

Reply(h, r) == Goto(h, "done") /\ call' = [call EXCEPT ![h].reply = r]

Start(h, step, c) ==
  /\ pc[h] = "idle"
  /\ Goto(h, step)
  /\ call' = [call EXCEPT ![h] = c]
  /\ UNCHANGED <<rows, keys, inbox, revoked>>

Register(h, l, e, p) == IdLeft /\ TokenLeft /\ Start(h, "insert", NewCall("register", l, e, p, None))

\* By login, by email, or by both.
Login(h, l, e, p) ==
  /\ {l, e} # {None} /\ TokenLeft
  /\ Start(h, "find", NewCall("login", l, e, p, None))

\* An empty token is answered at once.
Logout(h, t) ==
  LET c == NewCall("logout", None, None, None, t) IN
  IF t = None THEN Start(h, "done", [c EXCEPT !.reply = "no_session"]) ELSE Start(h, "delete", c)

\* A token is too long to guess: the link comes from somebody's mail.
VerifyEmail(h, t) ==
  /\ \E e \in Emails : t \in inbox[e]
  /\ Start(h, "get", NewCall("verify", None, None, None, t))

ResendVerification(h, e) == TokenLeft /\ Start(h, "find", NewCall("resend", None, e, None, None))

\* A call of Profiles or Map with this session token.
UseSession(h, t) == t \in Minted /\ Start(h, "resolve", NewCall("use", None, None, None, t))

--------------------------------------------------------------------------------
\* Register.  Mutant of InsertCredential: no confirmation is asked for.
InsertVerified(h) ==
  LET c == call[h] IN
  /\ pc[h] = "insert"
  /\ IF Taken(c.login, c.email) THEN Reply(h, "taken") /\ UNCHANGED creds
     ELSE \E i \in Ids :
       /\ ~Exists(i)
       /\ creds' = [creds EXCEPT ![i] = [login |-> c.login, email |-> c.email, pass |-> c.pass, verified |-> TRUE]]
       /\ Goto(h, "profile")
       /\ call' = [call EXCEPT ![h].id = i]
  /\ UNCHANGED <<profiles, keys, inbox, revoked>>

InsertCredential(h) ==
  LET c == call[h] IN
  /\ pc[h] = "insert"
  /\ IF Taken(c.login, c.email) THEN Reply(h, "taken") /\ UNCHANGED creds
     ELSE \E i \in Ids :
       /\ ~Exists(i)
       /\ creds' = [creds EXCEPT ![i] = [login |-> c.login, email |-> c.email, pass |-> c.pass, verified |-> FALSE]]
       /\ Goto(h, "profile")
       /\ call' = [call EXCEPT ![h].id = i]
  /\ UNCHANGED <<profiles, keys, inbox, revoked>>

\* Mutant of CreateProfile: the profile is left for later.
SeedLater(h) ==
  /\ pc[h] = "profile"
  /\ Goto(h, "mint")
  /\ UNCHANGED <<rows, keys, inbox, call, revoked>>

\* The handoff.  Profiles answers a refused row with a code in its envelope and no
\* error, and Register looks at the error alone.
CreateProfile(h) ==
  /\ pc[h] = "profile"
  /\ \/ profiles' = profiles \cup {call[h].id}
     \/ "profiles_failure" \in env /\ UNCHANGED profiles
  /\ Goto(h, "mint")
  /\ UNCHANGED <<creds, keys, inbox, call, revoked>>

\* sendVerification, of Register and of ResendVerification.  Its errors are logged
\* and the reply is ok.
CreateVerifyToken(h) ==
  /\ pc[h] = "mint"
  /\ \E t \in Fresh :
       /\ links' = [links EXCEPT ![t] = call[h].id]
       /\ owner' = [owner EXCEPT ![t] = call[h].id]
       /\ call' = [call EXCEPT ![h].token = t]
  /\ Goto(h, "mail")
  /\ UNCHANGED <<rows, sessions, inbox, revoked>>

\* Register mails the address it was given, ResendVerification that of the row it
\* found by the same address.
SendVerification(h) ==
  /\ pc[h] = "mail"
  /\ inbox' = [inbox EXCEPT ![call[h].email] = @ \cup {call[h].token}]
  /\ Reply(h, "ok")
  /\ UNCHANGED <<rows, keys, revoked>>

MailLost(h) ==
  /\ "failure" \in env
  /\ pc[h] \in {"mint", "mail"}
  /\ Reply(h, "ok")
  /\ UNCHANGED <<rows, keys, inbox, revoked>>

--------------------------------------------------------------------------------
\* Login and ResendVerification.  With a login and an email that name two accounts
\* the query may return either.
Match(i, c) == Exists(i) /\ (creds[i].login = c.login \/ creds[i].email = c.email)
Matches(c)  == {i \in Ids : Match(i, c)}

\* What Login answers before it opens a session; "none" when it goes on.  Mutant:
\* the gate stands before the password.
GateFirst(i, c) ==
  IF ~creds[i].verified THEN "unverified"
  ELSE IF creds[i].pass # c.pass THEN "bad_creds" ELSE "none"

Refusal(i, c) ==
  IF creds[i].pass # c.pass THEN "bad_creds"
  ELSE IF ~creds[i].verified THEN "unverified" ELSE "none"

FindCredential(h) ==
  LET c == call[h] IN
  /\ pc[h] = "find" /\ c.op = "login"
  /\ \/ /\ Matches(c) = {} \/ "failure" \in env
        /\ Reply(h, "bad_creds")
     \/ \E i \in Matches(c) :
          /\ call' = [call EXCEPT ![h].id = i, ![h].reply = Refusal(i, c)]
          /\ Goto(h, IF Refusal(i, c) = "none" THEN "open" ELSE "done")
  /\ UNCHANGED <<rows, keys, inbox, revoked>>

\* The reply is ok whatever the address.
FindByEmail(h) ==
  LET c == call[h] IN
  /\ pc[h] = "find" /\ c.op = "resend"
  /\ \/ /\ "failure" \in env \/ Matches(c) = {} \/ \E i \in Matches(c) : creds[i].verified
        /\ Reply(h, "ok")
     \/ \E i \in Matches(c) :
          /\ ~creds[i].verified
          /\ call' = [call EXCEPT ![h].id = i]
          /\ Goto(h, "mint")
  /\ UNCHANGED <<rows, keys, inbox, revoked>>

\* Mutant of CreateSession: the session names the login instead of the account.
SessionOfLogin(h) ==
  /\ pc[h] = "open"
  /\ \E t \in Fresh :
       /\ sessions' = [sessions EXCEPT ![t] = call[h].login]
       /\ owner' = [owner EXCEPT ![t] = call[h].id]
       /\ call' = [call EXCEPT ![h].token = t, ![h].reply = "ok"]
  /\ Goto(h, "done")
  /\ UNCHANGED <<rows, links, inbox, revoked>>

CreateSession(h) ==
  /\ pc[h] = "open"
  /\ \E t \in Fresh :
       /\ sessions' = [sessions EXCEPT ![t] = call[h].id]
       /\ owner' = [owner EXCEPT ![t] = call[h].id]
       /\ call' = [call EXCEPT ![h].token = t, ![h].reply = "ok"]
  /\ Goto(h, "done")
  /\ UNCHANGED <<rows, links, inbox, revoked>>

--------------------------------------------------------------------------------
\* Mutant of DeleteSession: the key of a verification token.
DeleteLink(h) ==
  /\ pc[h] = "delete"
  /\ links' = [links EXCEPT ![call[h].token] = None]
  /\ revoked' = revoked \cup {call[h].token}
  /\ Reply(h, "ok")
  /\ UNCHANGED <<rows, sessions, owner, inbox>>

DeleteSession(h) ==
  /\ pc[h] = "delete"
  /\ sessions' = [sessions EXCEPT ![call[h].token] = None]
  /\ revoked' = revoked \cup {call[h].token}
  /\ Reply(h, "ok")
  /\ UNCHANGED <<rows, links, owner, inbox>>

\* VerifyEmail: GET, DEL, UPDATE.
GetVerifyToken(h) ==
  LET i == links[call[h].token] IN
  /\ pc[h] = "get"
  /\ IF i = None THEN Reply(h, "bad_token")
     ELSE Goto(h, "burn") /\ call' = [call EXCEPT ![h].id = i]
  /\ UNCHANGED <<rows, keys, inbox, revoked>>

\* Mutant of BurnVerifyToken: nothing comes after.
BurnOnly(h) ==
  /\ pc[h] = "burn"
  /\ links' = [links EXCEPT ![call[h].token] = None]
  /\ Reply(h, "ok")
  /\ UNCHANGED <<rows, sessions, owner, inbox, revoked>>

\* Best effort: its error is ignored.
BurnVerifyToken(h) ==
  /\ pc[h] = "burn"
  /\ \/ links' = [links EXCEPT ![call[h].token] = None]
     \/ "failure" \in env /\ UNCHANGED links
  /\ Goto(h, "mark")
  /\ UNCHANGED <<rows, sessions, owner, inbox, call, revoked>>

MarkEmailVerified(h) ==
  /\ pc[h] = "mark"
  /\ creds' = [creds EXCEPT ![call[h].id].verified = TRUE]
  /\ Reply(h, "ok")
  /\ UNCHANGED <<profiles, keys, inbox, revoked>>

\* ResolveSession of Profiles and UserIDForToken of Map: a GET and no more.
ResolveSession(h) ==
  LET t == call[h].token IN
  /\ pc[h] = "resolve"
  /\ IF sessions[t] = None THEN Reply(h, "no_session")
     ELSE /\ call' = [call EXCEPT ![h].id = sessions[t], ![h].reply = "ok"]
          /\ Goto(h, "done")
  /\ UNCHANGED <<rows, keys, inbox, revoked>>

\* A store error, a cancelled context or a crash; from "done" a lost reply.
Fail(h) ==
  /\ "failure" \in env
  /\ pc[h] \notin {"idle", "done"} \/ call[h].reply = "ok"
  /\ Reply(h, "error")
  /\ UNCHANGED <<rows, keys, inbox, revoked>>

Return(h) ==
  /\ pc[h] = "done"
  /\ Goto(h, "idle")
  /\ call' = [call EXCEPT ![h] = IdleCall]
  /\ UNCHANGED <<rows, keys, inbox, revoked>>

--------------------------------------------------------------------------------
\* The TTL of session:{token} or verify:{token} runs out.
ExpireSession(t) ==
  /\ "expiry" \in env
  /\ sessions[t] # None
  /\ sessions' = [sessions EXCEPT ![t] = None]
  /\ UNCHANGED <<rows, links, owner, inbox, pc, call, revoked>>

ExpireLink(t) ==
  /\ "expiry" \in env
  /\ links[t] # None
  /\ links' = [links EXCEPT ![t] = None]
  /\ UNCHANGED <<rows, sessions, owner, inbox, pc, call, revoked>>

Begin(h) ==
  \/ \E l \in Logins, e \in Emails, p \in Passwords : Register(h, l, e, p)
  \/ \E l \in Logins \cup {None}, e \in Emails \cup {None}, p \in Passwords : Login(h, l, e, p)
  \/ \E t \in Minted \cup {None} : Logout(h, t)
  \/ \E t \in Tokens : VerifyEmail(h, t) \/ UseSession(h, t)
  \/ \E e \in Emails : ResendVerification(h, e)

Step(h) ==
  \/ InsertCredential(h) \/ CreateProfile(h) \/ CreateVerifyToken(h) \/ SendVerification(h)
  \/ FindCredential(h) \/ FindByEmail(h) \/ CreateSession(h) \/ DeleteSession(h)
  \/ GetVerifyToken(h) \/ BurnVerifyToken(h) \/ MarkEmailVerified(h) \/ ResolveSession(h) \/ Return(h)

Next ==
  /\ \/ \E h \in Handlers : Begin(h) \/ Step(h) \/ MailLost(h) \/ Fail(h)
     \/ \E t \in Tokens : ExpireSession(t) \/ ExpireLink(t)
  /\ UNCHANGED env

Spec == Init /\ [][Next]_vars

\* Handlers that have started run on.
FairSpec == Spec /\ \A h \in Handlers : WF_vars(Step(h) /\ UNCHANGED env)

--------------------------------------------------------------------------------
CredRow == [login : Logins \cup {None}, email : Emails \cup {None}, pass : Passwords \cup {None},
            verified : BOOLEAN]
CallRecord == [op : Ops \cup {"none"}, login : Logins \cup {None}, email : Emails \cup {None},
               pass : Passwords \cup {None}, token : Tokens \cup {None}, id : Ids \cup {None},
               reply : Replies]

\* The type invariant.
TypeOK ==
  /\ creds \in [Ids -> CredRow] /\ profiles \subseteq Ids
  /\ sessions \in [Tokens -> Ids \cup {None}]
  /\ links \in [Tokens -> Ids \cup {None}]
  /\ inbox \in [Emails -> SUBSET Tokens] /\ owner \in [Tokens -> Ids \cup {None}]
  /\ pc \in [Handlers -> Steps] /\ call \in [Handlers -> CallRecord]
  /\ revoked \subseteq Tokens /\ env \subseteq Happenings

Answered(h, op, replies) == pc[h] = "done" /\ call[h].op = op /\ call[h].reply \in replies

\* Login opens a session only for a verified account whose password it was given,
\* and tells that an account is unverified only to those who know the password.
LoginProven ==
  /\ \A h \in Handlers : Answered(h, "login", {"ok", "unverified"}) => call[h].pass = creds[call[h].id].pass
  /\ \A t \in Tokens : sessions[t] # None => creds[sessions[t]].verified

\* An account is verified only through a link that was minted for it and mailed to
\* its address, whatever is asked for and lost in between.
VerifiedByMail == \A i \in Ids :
  creds[i].verified => \E t \in inbox[creds[i].email] : owner[t] = i

\* A session that Logout has confirmed deleted stays deleted: no service accepts its
\* token from then on.
LogoutRevokes == \A t \in revoked : sessions[t] = None

\* While nothing fails or lapses a mailed link is spent only on verifying its
\* account.
LinkSpent == env \cap {"failure", "expiry"} = {} => \A e \in Emails : \A t \in inbox[e] :
  links[t] = None =>
    \/ creds[owner[t]].verified
    \/ \E h \in Handlers : pc[h] = "mark" /\ call[h].token = t

\* Register's ok means that the profile exists, whatever fails on the way, as long
\* as the store of Profiles does not refuse the row.
RegisteredHasProfile == "profiles_failure" \notin env => \A h \in Handlers :
  Answered(h, "register", {"ok"}) => call[h].id \in profiles

--------------------------------------------------------------------------------
\* What the comments say and the code does not keep.

\* auth_server.go:146-148: "Synchronous + idempotent so it's retry-safe. [...] the
\* profile can be re-created on retry keyed by the same user_id."
RetriedFor(i) == \E h \in Handlers :
  Answered(h, "register", Replies) /\ call[h].login = creds[i].login /\ call[h].pass = creds[i].pass
RetrySeedsProfile == \A i \in Ids : []<>RetriedFor(i) => (Exists(i) ~> i \in profiles)
================================================================================
