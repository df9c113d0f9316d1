------------------------------ MODULE Sessions ------------------------------
(***************************************************************************)
(* The sessions of one account: signing in with a password, a second       *)
(* factor or a passkey, the rotation of refresh tokens, signing out, and   *)
(* the changes of the account that are to end every session: a new         *)
(* password, a new role, a ban, a deletion. A request reads the account    *)
(* long before it writes (it hashes a password, waits for a code), so each *)
(* read and each transaction is a step of its own. Transactions lock the   *)
(* row of the user first and are atomic.                                   *)
(*                                                                         *)
(* Accounts share no row that these operations write, so one is enough. A  *)
(* password is the number of the version that set it, a token is its jti.  *)
(* Requests that need a signed-in user read the profile when they begin;   *)
(* the cached profile they may get instead is no older than that.          *)
(***************************************************************************)
EXTENDS Naturals

CONSTANTS
  Requests,      \* the requests in progress
  Jtis,          \* the refresh tokens that can be issued
  Tickets,       \* the tickets of sign-ins that wait for a code
  Links,         \* the password reset links
  None,          \* no token, ticket or link
  MaxVersion,    \* the bound on users.token_ver
  MaxAdmin,      \* the bound on it for changes by administrators
  MaxSecrets     \* the bound on the TOTP secrets that are made

ASSUME SessionsAssumption ==
  /\ MaxVersion \in Nat /\ MaxAdmin \in 0..MaxVersion /\ MaxSecrets \in Nat \ {0}
  /\ None \notin Jtis /\ None \notin Tickets /\ None \notin Links

VARIABLES
  account,   \* the row of the user
  tokens,    \* refresh_tokens
  tickets,   \* the cache keys 2fa:<ticket>
  links,     \* the cache keys reset-link:<hash>
  request,   \* what each request has read
  minted     \* how many TOTP secrets were made

vars == <<account, tokens, tickets, links, request, minted>>

NoToken == [state |-> "unused", family |-> None, ver |-> 0, ticket |-> None]
\* The hash is the password at the time, which the grant itself does not hold.
NoGrant == [state |-> "unused", ver |-> 0, hash |-> 0]
NoRequest == [at |-> "idle", ver |-> 0, hash |-> 0, totp |-> FALSE, secret |-> 0,
              mode |-> "none", ticket |-> None, link |-> None]

\* An account that nobody is signed in to, with or without a second factor and passkeys.
Init ==
  /\ minted \in {0, 1}
  /\ \E passkey \in BOOLEAN :
       account = [status |-> "active", ver |-> 0, hash |-> 0, totp |-> minted = 1,
                  secret |-> minted, passkey |-> passkey]
  /\ tokens = [j \in Jtis |-> NoToken]
  /\ tickets = [k \in Tickets |-> NoGrant]
  /\ links = [l \in Links |-> NoGrant]
  /\ request = [r \in Requests |-> NoRequest]

At(r, at) == request[r].at = at
Done(r) == request' = [request EXCEPT ![r] = NoRequest]
Spent == [NoGrant EXCEPT !.state = "spent"]
Spend(grant) == [grant EXCEPT !.state = "spent", !.ver = 0]
Goto(r, at) == request' = [request EXCEPT ![r].at = at]

-----------------------------------------------------------------------------
(* The tables                                                              *)

Issued(j) == tokens[j].state # "unused"
Live(j) == tokens[j].state = "live"

Revoked(which) ==
  [j \in Jtis |-> IF tokens[j].state = "live" /\ which[j]
                  THEN [tokens[j] EXCEPT !.state = "revoked"] ELSE tokens[j]]
RevokeAll == Revoked([j \in Jtis |-> TRUE])
RevokeFamily(f) == Revoked([j \in Jtis |-> tokens[j].family = f])

\* What requireAuth accepts: an access token of family f and version v.
Authorised(f, v) ==
  /\ account.status = "active" /\ account.ver = v
  /\ \E j \in Jtis : Live(j) /\ tokens[j].family = f

SignedIn == \E j \in Jtis : Issued(j) /\ Authorised(tokens[j].family, tokens[j].ver)

\* token_ver=token_ver+1 and every refresh token revoked, in one transaction.
EndSessions(a) ==
  /\ account.ver < MaxVersion
  /\ account' = [a EXCEPT !.ver = account.ver + 1]
  /\ tokens' = RevokeAll

NewHash == account.ver + 1

-----------------------------------------------------------------------------
(* Signing in                                                              *)

\* loginHandler: the row of the user is read.
LoginReadsUser(r) ==
  /\ At(r, "idle") /\ account.status = "active"
  /\ request' = [request EXCEPT ![r] =
       [NoRequest EXCEPT !.at = "password", !.ver = account.ver, !.totp = account.totp]]
  /\ UNCHANGED <<account, tokens, tickets, links, minted>>

\* The hash is read and the password is right: a ticket or a session.
LoginChecksPassword(r) ==
  /\ At(r, "password")
  /\ UNCHANGED <<account, tokens, links, minted>>
  /\ \/ /\ request[r].totp
        /\ \E k \in Tickets :
             /\ tickets[k].state = "unused"
             /\ tickets' = [tickets EXCEPT ![k] =
                  [state |-> "open", ver |-> request[r].ver, hash |-> account.hash]]
        /\ Done(r)
     \/ /\ ~request[r].totp
        /\ request' = [request EXCEPT ![r] =
             [@ EXCEPT !.at = "save", !.mode = "password", !.hash = account.hash]]
        /\ UNCHANGED tickets

\* The account is still the one the ticket was issued for.
TicketIsCurrent(k) ==
  account.status = "active" /\ account.totp /\ tickets[k].ver = account.ver

\* login2faHandler: the ticket and the row of the user are read.
TwofaReadsUser(r, k) ==
  /\ At(r, "idle") /\ tickets[k].state = "open"
  /\ \/ /\ TicketIsCurrent(k)
        /\ request' = [request EXCEPT ![r] =
             [NoRequest EXCEPT !.at = "code", !.ver = account.ver, !.secret = account.secret,
                               !.hash = tickets[k].hash, !.ticket = k, !.mode = "totp"]]
        /\ UNCHANGED tickets
     \/ /\ ~TicketIsCurrent(k)
        /\ tickets' = [tickets EXCEPT ![k] = Spent]
        /\ UNCHANGED request
  /\ UNCHANGED <<account, tokens, links, minted>>

\* The code is wrong or was used: the ticket may be burned.
TwofaWrongCode(r) ==
  /\ At(r, "code") /\ Done(r)
  /\ \/ UNCHANGED tickets
     \/ tickets' = [tickets EXCEPT ![request[r].ticket] = Spent]
  /\ UNCHANGED <<account, tokens, links, minted>>

\* The code is right for the secret read before; compare-and-delete of the ticket.
TwofaConsumes(r) ==
  /\ At(r, "code")
  /\ IF tickets[request[r].ticket].state = "open" THEN Goto(r, "save") ELSE Done(r)
  /\ tickets' = [tickets EXCEPT ![request[r].ticket] = Spent]
  /\ UNCHANGED <<account, tokens, links, minted>>

\* passkeyLoginVerifyHandler, up to the session.
PasskeyVerified(r) ==
  /\ At(r, "idle") /\ account.passkey /\ account.status = "active"
  /\ request' = [request EXCEPT ![r] =
       [NoRequest EXCEPT !.at = "save", !.mode = "passkey", !.ver = account.ver]]
  /\ UNCHANGED <<account, tokens, tickets, links, minted>>

\* Mutant: the second factor is not part of the condition.
LockVersionOnly(r) == account.status = "active" /\ account.ver = request[r].ver

\* lockLoginSessionUser: the account is still as the sign-in verified it.
LockLoginSessionUser(r) ==
  /\ account.status = "active" /\ account.ver = request[r].ver
  /\ request[r].mode = "password" => ~account.totp
  /\ request[r].mode = "totp" => account.totp /\ account.secret = request[r].secret
  /\ request[r].mode = "passkey" => account.passkey

\* SaveRefreshTokenForLogin
SaveRefreshTokenForLogin(r) ==
  /\ At(r, "save") /\ Done(r)
  /\ \/ /\ ~LockLoginSessionUser(r)
        /\ UNCHANGED tokens
     \/ /\ LockLoginSessionUser(r)
        /\ \E j \in Jtis :
             /\ ~Issued(j)
             /\ tokens' = [tokens EXCEPT ![j] =
                  [state |-> "live", family |-> j, ver |-> request[r].ver,
                   ticket |-> request[r].ticket]]
  /\ UNCHANGED <<account, tickets, links, minted>>

-----------------------------------------------------------------------------
(* Refresh and sign-out. Whoever presents a token may hold an old copy.    *)

\* Mutant: the predecessor stays usable.
RotateKeepsOld(j, n) ==
  /\ Live(j) /\ ~Issued(n)
  /\ account.status = "active" /\ account.ver = tokens[j].ver
  /\ tokens' = [tokens EXCEPT ![n] = [tokens[j] EXCEPT !.state = "live"]]
  /\ UNCHANGED <<account, tickets, links, request, minted>>

\* Mutant: whether the token was revoked is not looked at.
RotateConsumed(j, n) ==
  /\ tokens[j].state \in {"live", "revoked"} /\ ~Issued(n)
  /\ account.status = "active" /\ account.ver = tokens[j].ver
  /\ tokens' = [tokens EXCEPT ![j].state = "revoked",
                              ![n] = [tokens[j] EXCEPT !.state = "live"]]
  /\ UNCHANGED <<account, tickets, links, request, minted>>

\* RotateRefreshToken with a token that was not consumed.
RotateRefreshToken(j, n) ==
  /\ Live(j) /\ ~Issued(n)
  /\ account.status = "active" /\ account.ver = tokens[j].ver
  /\ tokens' = [tokens EXCEPT ![j].state = "revoked",
                              ![n] = [tokens[j] EXCEPT !.state = "live"]]
  /\ UNCHANGED <<account, tickets, links, request, minted>>

\* RotateRefreshToken with a token that was consumed: the family is revoked.
RefreshTokenReplay(j) ==
  /\ tokens[j].state = "revoked"
  /\ account.status = "active" /\ account.ver = tokens[j].ver
  /\ tokens' = RevokeFamily(tokens[j].family)
  /\ UNCHANGED <<account, tickets, links, request, minted>>

\* logoutHandler, revokeSessionHandler, and a session whose access token could
\* not be signed: RevokeUserSession.
RevokeUserSession(j) ==
  /\ Issued(j)
  /\ tokens' = RevokeFamily(tokens[j].family)
  /\ UNCHANGED <<account, tickets, links, request, minted>>

\* RevokeOtherUserSessions, called from a session of family f.
RevokeOtherUserSessions(f) ==
  /\ Issued(f)
  /\ tokens' = Revoked([j \in Jtis |-> tokens[j].family # tokens[f].family])
  /\ UNCHANGED <<account, tickets, links, request, minted>>

\* expires_at is reached. The cookie and the row expire together, and whether the
\* row is revoked as well makes no difference any more.
TokenExpires(j) ==
  /\ tokens[j].state \in {"live", "revoked"}
  /\ tokens' = [tokens EXCEPT ![j].state = "expired"]
  /\ UNCHANGED <<account, tickets, links, request, minted>>

-----------------------------------------------------------------------------
(* Passwords                                                               *)

\* sendPasswordResetLink
SendPasswordResetLink(l) ==
  /\ links[l].state = "unused"
  /\ links' = [links EXCEPT ![l] =
       [state |-> "open", ver |-> account.ver, hash |-> account.hash]]
  /\ UNCHANGED <<account, tokens, tickets, request, minted>>

\* resetPasswordHandler: the grant and then the hash are read.
ResetReadsHash(r, l) ==
  /\ At(r, "idle") /\ links[l].state = "open"
  /\ request' = [request EXCEPT ![r] =
       [NoRequest EXCEPT !.at = "reset", !.link = l, !.ver = links[l].ver, !.hash = account.hash]]
  /\ UNCHANGED <<account, tokens, tickets, links, minted>>

\* Mutant: the version that the link carries is not compared.
ResetIgnoresVersion(r) ==
  /\ At(r, "reset") /\ Goto(r, "redeem")
  /\ UNCHANGED <<account, tokens, tickets, links, minted>>

\* The version is read after the hash.
ResetChecksVersion(r) ==
  /\ At(r, "reset")
  /\ IF account.ver = request[r].ver
     THEN request' = [request EXCEPT ![r] = [@ EXCEPT !.at = "redeem", !.ver = 0]]
     ELSE Done(r)
  /\ UNCHANGED <<account, tokens, tickets, links, minted>>

\* Compare-and-delete of the grant.
ResetConsumes(r) ==
  /\ At(r, "redeem")
  /\ IF links[request[r].link].state = "open" THEN Goto(r, "write") ELSE Done(r)
  /\ links' = [links EXCEPT ![request[r].link] = Spend(@)]
  /\ UNCHANGED <<account, tokens, tickets, minted>>

\* changePasswordHandler: the current password is right.
ChangeReadsHash(r) ==
  /\ At(r, "idle") /\ SignedIn
  /\ request' = [request EXCEPT ![r] = [NoRequest EXCEPT !.at = "write", !.hash = account.hash]]
  /\ UNCHANGED <<account, tokens, tickets, links, minted>>

\* UpdateUserPasswordIfCurrent, for a change and for a reset.
UpdateUserPasswordIfCurrent(r) ==
  /\ At(r, "write") /\ Done(r)
  /\ IF account.hash = request[r].hash
     THEN EndSessions([account EXCEPT !.hash = NewHash])
     ELSE UNCHANGED <<account, tokens>>
  /\ UNCHANGED <<tickets, links, minted>>

-----------------------------------------------------------------------------
(* The administrator. Another active administrator exists.                 *)

\* UpdateUserPassword
UpdateUserPassword ==
  /\ account.ver < MaxAdmin
  /\ EndSessions([account EXCEPT !.hash = NewHash])
  /\ UNCHANGED <<tickets, links, request, minted>>

\* SetUserRole
SetUserRole ==
  /\ account.ver < MaxAdmin
  /\ EndSessions(account)
  /\ UNCHANGED <<tickets, links, request, minted>>

\* SetUserStatusGuarded("banned") and MarkUserDeleting
SetUserStatus(status) ==
  /\ account.status # "deleting" /\ account.ver < MaxAdmin
  /\ EndSessions([account EXCEPT !.status = status])
  /\ UNCHANGED <<tickets, links, request, minted>>

\* SetUserStatusGuarded("active")
Unban ==
  /\ account.status = "banned"
  /\ account' = [account EXCEPT !.status = "active"]
  /\ UNCHANGED <<tokens, tickets, links, request, minted>>

-----------------------------------------------------------------------------
(* The second factor and the passkeys                                      *)

\* A request about the second factor begins with a profile of the user.
TwofaRequestBegins(r) ==
  /\ At(r, "idle") /\ SignedIn
  /\ \E at \in {"setup", "enable", "disable"} :
       /\ at = "setup" => ~account.totp
       /\ at = "enable" => account.secret # 0
       /\ at = "disable" => account.totp
       /\ request' = [request EXCEPT ![r] =
            [NoRequest EXCEPT !.at = at, !.secret = account.secret]]
  /\ UNCHANGED <<account, tokens, tickets, links, minted>>

\* twofaSetupHandler: a new secret, not enabled.
TwofaSetup(r) ==
  /\ At(r, "setup") /\ Done(r) /\ minted < MaxSecrets
  /\ minted' = minted + 1
  /\ account' = [account EXCEPT !.secret = minted + 1, !.totp = FALSE]
  /\ UNCHANGED <<tokens, tickets, links>>

\* twofaEnableHandler, with a code for the secret of the profile.
TwofaEnable(r) ==
  /\ At(r, "enable") /\ Done(r)
  /\ account' = [account EXCEPT !.secret = request[r].secret, !.totp = TRUE]
  /\ UNCHANGED <<tokens, tickets, links, minted>>

\* twofaDisableHandler, with a code for the secret of the profile.
TwofaDisable(r) ==
  /\ At(r, "disable") /\ Done(r)
  /\ account' = [account EXCEPT !.secret = 0, !.totp = FALSE]
  /\ UNCHANGED <<tokens, tickets, links, minted>>

\* adminDisableTwofaHandler
AdminDisableTwofa ==
  /\ account.totp
  /\ account' = [account EXCEPT !.secret = 0, !.totp = FALSE]
  /\ UNCHANGED <<tokens, tickets, links, request, minted>>

\* A passkey is registered, or the last one deleted by the user or an administrator.
PasskeysChange ==
  /\ ~account.passkey => SignedIn
  /\ account' = [account EXCEPT !.passkey = ~@]
  /\ UNCHANGED <<tokens, tickets, links, request, minted>>

\* A ticket or a link expires, a client goes away.
TicketExpires(k) ==
  /\ tickets[k].state = "open"
  /\ tickets' = [tickets EXCEPT ![k] = Spent]
  /\ UNCHANGED <<account, tokens, links, request, minted>>

LinkExpires(l) ==
  /\ links[l].state = "open"
  /\ links' = [links EXCEPT ![l] = Spend(@)]
  /\ UNCHANGED <<account, tokens, tickets, request, minted>>

RequestEnds(r) ==
  /\ ~At(r, "idle") /\ Done(r)
  /\ UNCHANGED <<account, tokens, tickets, links, minted>>

-----------------------------------------------------------------------------
SignInStep(r) ==
  \/ LoginReadsUser(r)
  \/ LoginChecksPassword(r)
  \/ \E k \in Tickets : TwofaReadsUser(r, k)
  \/ TwofaWrongCode(r)
  \/ TwofaConsumes(r)
  \/ PasskeyVerified(r)
  \/ SaveRefreshTokenForLogin(r)

SettingsStep(r) ==
  \/ \E l \in Links : ResetReadsHash(r, l)
  \/ ResetChecksVersion(r)
  \/ ResetConsumes(r)
  \/ ChangeReadsHash(r)
  \/ UpdateUserPasswordIfCurrent(r)
  \/ TwofaRequestBegins(r)
  \/ TwofaSetup(r)
  \/ TwofaEnable(r)
  \/ TwofaDisable(r)
  \/ RequestEnds(r)

TokenStep(j) ==
  \/ \E n \in Jtis : RotateRefreshToken(j, n)
  \/ RefreshTokenReplay(j)
  \/ RevokeUserSession(j)
  \/ RevokeOtherUserSessions(j)
  \/ TokenExpires(j)

AccountStep ==
  \/ UpdateUserPassword
  \/ SetUserRole
  \/ \E status \in {"banned", "deleting"} : SetUserStatus(status)
  \/ Unban
  \/ AdminDisableTwofa
  \/ PasskeysChange

Next ==
  \/ \E r \in Requests : SignInStep(r) \/ SettingsStep(r)
  \/ \E j \in Jtis : TokenStep(j)
  \/ \E l \in Links : SendPasswordResetLink(l) \/ LinkExpires(l)
  \/ \E k \in Tickets : TicketExpires(k)
  \/ AccountStep

Spec == Init /\ [][Next]_vars

-----------------------------------------------------------------------------
(* What must hold                                                          *)

Versions == 0..MaxVersion

AccountType ==
  [status : {"active", "banned", "deleting"}, ver : Versions, hash : Versions,
   totp : BOOLEAN, secret : 0..MaxSecrets, passkey : BOOLEAN]

TokenType ==
  [state : {"unused", "live", "revoked", "expired"}, family : Jtis \cup {None}, ver : Versions,
   ticket : Tickets \cup {None}]

GrantType == [state : {"unused", "open", "spent"}, ver : Versions, hash : Versions]

RequestType ==
  [at : {"idle", "password", "code", "save", "reset", "redeem", "write", "setup", "enable", "disable"},
   ver : Versions, hash : Versions, totp : BOOLEAN, secret : 0..MaxSecrets,
   mode : {"none", "password", "totp", "passkey"},
   ticket : Tickets \cup {None}, link : Links \cup {None}]

TypeOK ==
  /\ account \in AccountType
  /\ tokens \in [Jtis -> TokenType]
  /\ tickets \in [Tickets -> GrantType]
  /\ links \in [Links -> GrantType]
  /\ request \in [Requests -> RequestType]
  /\ minted \in 0..MaxSecrets

\* No session outlives what is to end it: a token that was not revoked belongs to
\* the present version of an active account, whatever sign-in or refresh was under
\* way when the password, the role or the status changed; and however many requests
\* refresh a session at the same time, it has one token that works.
LiveSessionsAreCurrent ==
  /\ TypeOK
  /\ \A j \in Jtis : Live(j) =>
       /\ account.status = "active" /\ tokens[j].ver = account.ver
       /\ \A i \in Jtis : Live(i) /\ tokens[i].family = tokens[j].family => i = j

\* The step is the one in which the sign-in r begins its session.
Begins(r) == At(r, "save") /\ tokens' # tokens /\ request'[r] # request[r]

\* A session begins only for what is true at that moment: the password that was
\* checked is the password, a second factor that is on was passed with its present
\* secret, a passkey is still there (SaveRefreshTokenForLogin). A ticket for a second
\* factor begins one session, however often it is redeemed at the same time.
SignInsAreCurrent ==
  [][\A r \in Requests : Begins(r) =>
       /\ request[r].mode \in {"password", "totp"} => request[r].hash = account.hash
       /\ request[r].mode = "password" => ~account.totp
       /\ request[r].mode = "totp" => account.totp /\ request[r].secret = account.secret
       /\ request[r].mode = "passkey" => account.passkey
       /\ request[r].ticket # None => \A j \in Jtis : tokens[j].ticket # request[r].ticket]_vars

\* An access token that requireAuth refused once is refused for good: signing out is
\* final, and lifting a ban revives nothing, whatever refresh was under way.
RefusedForGood ==
  [][\A j \in Jtis :
       Issued(j) /\ ~Authorised(tokens[j].family, tokens[j].ver)
       => ~Authorised(tokens[j].family, tokens[j].ver)']_vars

\* A reset link changes only the password that it was sent for, so it works once and
\* not after another change; and a change of the password never overwrites one that
\* the user did not present (resetPasswordHandler, changePasswordHandler).
PasswordsAreNotOverwritten ==
  [][\A r \in Requests : At(r, "write") /\ account'.hash # account.hash /\ request'[r] # request[r] =>
       account.hash = IF request[r].link = None THEN request[r].hash ELSE links[request[r].link].hash]_vars
=============================================================================
