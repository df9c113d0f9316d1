-------------------------- MODULE SessionsProofs ---------------------------
(***************************************************************************)
(* No session outlives what is to end it, a sign-in begins a session only  *)
(* for what is true then, and no password is overwritten unseen, for any   *)
(* number of requests, tokens, tickets and links and any bounds.           *)
(***************************************************************************)
EXTENDS Sessions, TLAPS

\* What was read of the password at version v, or later, is h: true as long as the
\* version is the present one. Every change of the password changes the version.
Current(v, h) == v <= account.ver /\ (v = account.ver => h = account.hash)

\* The tokens that were issued are of a version so far and of a family that was
\* begun; those that are live are as LiveSessionsAreCurrent says.
TokensAreSound ==
  /\ \A j \in Jtis : Issued(j) =>
       tokens[j].ver <= account.ver /\ tokens[j].family \in Jtis /\ Issued(tokens[j].family)
  /\ \A j \in Jtis : Live(j) =>
       /\ account.status = "active" /\ tokens[j].ver = account.ver
       /\ \A i \in Jtis : Live(i) /\ tokens[i].family = tokens[j].family => i = j

\* A ticket or a link holds the password of its version.
GrantsAreCurrent ==
  /\ \A k \in Tickets : tickets[k].state = "open" => Current(tickets[k].ver, tickets[k].hash)
  /\ \A l \in Links : links[l].state = "open" => Current(links[l].ver, links[l].hash)

\* A sign-in knows the password of the version it read, and a reset, once it has
\* compared the version, knows the password its link was sent for.
RequestIsCurrent(r) ==
  /\ At(r, "password") => request[r].ver <= account.ver /\ request[r].ticket = None
  /\ At(r, "code") => request[r].ticket \in Tickets /\ Current(request[r].ver, request[r].hash)
  /\ At(r, "save") /\ request[r].mode \in {"password", "totp"} => Current(request[r].ver, request[r].hash)
  /\ At(r, "reset") =>
       /\ request[r].link \in Links /\ links[request[r].link].state # "unused"
       /\ Current(request[r].ver, request[r].hash) /\ Current(request[r].ver, links[request[r].link].hash)
  /\ At(r, "redeem") \/ (At(r, "write") /\ request[r].link # None) =>
       /\ request[r].link \in Links /\ links[request[r].link].state # "unused"
       /\ request[r].hash = links[request[r].link].hash

RequestsAreCurrent == \A r \in Requests : RequestIsCurrent(r)

\* A ticket that has been redeemed is spent, by one request or for one token's family.
TicketsWorkOnce ==
  /\ \A j \in Jtis : tokens[j].ticket # None => tickets[tokens[j].ticket].state = "spent"
  /\ \A r \in Requests : At(r, "save") /\ request[r].ticket # None =>
       /\ tickets[request[r].ticket].state = "spent"
       /\ \A j \in Jtis : tokens[j].ticket # request[r].ticket
       /\ \A s \in Requests : At(s, "save") /\ request[s].ticket = request[r].ticket => s = r

\* The inductive invariant.
IInv == TypeOK /\ TokensAreSound /\ GrantsAreCurrent /\ RequestsAreCurrent /\ TicketsWorkOnce

\* What the records start with is of their types.
LEMMA DefaultTypes ==
  NoToken \in TokenType /\ NoGrant \in GrantType /\ Spent \in GrantType /\ NoRequest \in RequestType
  BY SessionsAssumption
     DEF NoToken, TokenType, NoGrant, GrantType, Spent, NoRequest, RequestType, Versions

\* Init establishes the invariant.
LEMMA InitInv == Init => IInv
  <1> SUFFICES ASSUME Init PROVE IInv
    OBVIOUS
  <1> USE SessionsAssumption DEF Init
  <1>1. TypeOK
    BY DefaultTypes DEF TypeOK, AccountType, Versions
  <1>2. \A j \in Jtis : tokens[j].state = "unused" /\ tokens[j].ticket = None
    BY DEF NoToken
  <1>3. \A r \in Requests : request[r].at = "idle"
    BY DEF NoRequest
  <1>4. /\ \A k \in Tickets : tickets[k].state = "unused"
        /\ \A l \in Links : links[l].state = "unused"
    BY DEF NoGrant
  <1> HIDE DEF Init
  <1>5. TokensAreSound
    BY <1>2 DEF TokensAreSound, Issued, Live
  <1>6. GrantsAreCurrent
    BY <1>4 DEF GrantsAreCurrent
  <1>7. RequestsAreCurrent
    BY <1>3 DEF RequestsAreCurrent, RequestIsCurrent, At
  <1>8. TicketsWorkOnce
    BY <1>2, <1>3 DEF TicketsWorkOnce, At
  <1> QED
    BY <1>1, <1>5, <1>6, <1>7, <1>8 DEF IInv

\* A record of which some fields are written keeps its type.
LEMMA RequestFields ==
  ASSUME NEW x \in RequestType, NEW v \in Versions
  PROVE  /\ [x EXCEPT !.at = "save", !.mode = "password", !.hash = v] \in RequestType
         /\ [x EXCEPT !.at = "redeem", !.ver = v] \in RequestType
  <1>1. \A y \in RequestType :
          /\ [y EXCEPT !.at = "save"] \in RequestType /\ [y EXCEPT !.at = "redeem"] \in RequestType
          /\ [y EXCEPT !.mode = "password"] \in RequestType
          /\ [y EXCEPT !.hash = v] \in RequestType /\ [y EXCEPT !.ver = v] \in RequestType
    BY DEF RequestType
  <1> QED
    BY <1>1

\* So does a row of the user whose second factor is written.
LEMMA AccountFields ==
  ASSUME NEW x \in AccountType, NEW v \in 0..MaxSecrets, NEW b \in BOOLEAN
  PROVE  [x EXCEPT !.secret = v, !.totp = b] \in AccountType
  <1>1. \A y \in AccountType : [y EXCEPT !.secret = v] \in AccountType /\ [y EXCEPT !.totp = b] \in AccountType
    BY DEF AccountType
  <1> QED
    BY <1>1

\* So does a ticket or a link that is spent.
LEMMA SpendType ==
  ASSUME NEW x \in GrantType
  PROVE  Spend(x) \in GrantType
  <1>1. \A y \in GrantType : [y EXCEPT !.state = "spent"] \in GrantType /\ [y EXCEPT !.ver = 0] \in GrantType
    BY SessionsAssumption DEF GrantType, Versions
  <1> QED
    BY <1>1 DEF Spend

\* Revoking keeps the tokens' types.
LEMMA RevokedType ==
  ASSUME TypeOK, NEW which
  PROVE  Revoked(which) \in [Jtis -> TokenType]
  <1>1. \A j \in Jtis : [tokens[j] EXCEPT !.state = "revoked"] \in TokenType
    BY DEF TypeOK, TokenType
  <1> QED
    BY <1>1 DEF TypeOK, Revoked

\* Ending the sessions of an account keeps its types, whatever else is written.
LEMMA EndSessionsType ==
  ASSUME TypeOK, NEW a \in AccountType, EndSessions(a)
  PROVE  account' \in AccountType /\ tokens' \in [Jtis -> TokenType] /\ NewHash \in Versions
  <1>1. account.ver \in Versions /\ account.ver + 1 \in Versions
    BY SessionsAssumption DEF EndSessions, TypeOK, AccountType, Versions
  <1>2. account' \in AccountType
    BY <1>1 DEF EndSessions, AccountType
  <1>3. tokens' \in [Jtis -> TokenType]
    BY RevokedType DEF EndSessions, RevokeAll
  <1> QED
    BY <1>1, <1>2, <1>3 DEF NewHash

\* A new record for one request keeps the requests' types.
LEMMA RequestUpdate ==
  ASSUME TypeOK, NEW r \in Requests, NEW x \in RequestType, request' = [request EXCEPT ![r] = x]
  PROVE  /\ request' \in [Requests -> RequestType] /\ request'[r] = x
         /\ \A s \in Requests \ {r} : request'[s] = request[s]
  BY DEF TypeOK

\* A step of a sign-in preserves the types.
LEMMA SignInType ==
  ASSUME TypeOK, NEW r \in Requests, SignInStep(r)
  PROVE  TypeOK'
  <1>1. CASE LoginReadsUser(r)
    <2> DEFINE x == [NoRequest EXCEPT !.at = "password", !.ver = account.ver, !.totp = account.totp]
    <2>1. x \in RequestType
      BY DefaultTypes DEF TypeOK, AccountType, RequestType, NoRequest
    <2> QED
      BY <1>1, <2>1, RequestUpdate DEF LoginReadsUser, TypeOK
  <1>2. CASE LoginChecksPassword(r)
    <2>1. CASE request[r].totp
      <3>1. \A k \in Tickets : [state |-> "open", ver |-> request[r].ver, hash |-> account.hash] \in GrantType
        BY DEF TypeOK, AccountType, RequestType, GrantType
      <3> QED
        BY <1>2, <2>1, <3>1, DefaultTypes DEF LoginChecksPassword, Done, TypeOK
    <2>2. CASE ~request[r].totp
      <3>1. [request[r] EXCEPT !.at = "save", !.mode = "password", !.hash = account.hash] \in RequestType
        <4>1. request[r] \in RequestType /\ account.hash \in Versions
          BY DEF TypeOK, AccountType
        <4> QED
          BY <4>1, RequestFields
      <3> QED
        BY <1>2, <2>2, <3>1 DEF LoginChecksPassword, TypeOK
    <2> QED
      BY <2>1, <2>2
  <1>3. CASE \E k \in Tickets : TwofaReadsUser(r, k)
    <2>1. PICK k \in Tickets : TwofaReadsUser(r, k)
      BY <1>3
    <2> DEFINE x == [NoRequest EXCEPT !.at = "code", !.ver = account.ver, !.secret = account.secret,
                                      !.hash = tickets[k].hash, !.ticket = k, !.mode = "totp"]
    <2>2. x \in RequestType
      BY DefaultTypes DEF TypeOK, AccountType, RequestType, GrantType, NoRequest
    <2> QED
      BY <2>1, <2>2, DefaultTypes DEF TwofaReadsUser, TypeOK
  <1>4. CASE TwofaWrongCode(r)
    BY <1>4, DefaultTypes DEF TwofaWrongCode, Done, TypeOK
  <1>5. CASE TwofaConsumes(r)
    <2>1. [request[r] EXCEPT !.at = "save"] \in RequestType
      BY DEF TypeOK, RequestType
    <2>2. request' \in [Requests -> RequestType]
      BY <1>5, <2>1, DefaultTypes DEF TwofaConsumes, Goto, Done, TypeOK
    <2> QED
      BY <1>5, <2>2, DefaultTypes DEF TwofaConsumes, TypeOK
  <1>6. CASE PasskeyVerified(r)
    <2> DEFINE x == [NoRequest EXCEPT !.at = "save", !.mode = "passkey", !.ver = account.ver]
    <2>1. x \in RequestType
      BY DefaultTypes DEF TypeOK, AccountType, RequestType, NoRequest
    <2> QED
      BY <1>6, <2>1, RequestUpdate DEF PasskeyVerified, TypeOK
  <1>7. CASE SaveRefreshTokenForLogin(r)
    <2>1. \A j \in Jtis : [state |-> "live", family |-> j, ver |-> request[r].ver, ticket |-> request[r].ticket]
                           \in TokenType
      BY DEF TypeOK, RequestType, TokenType
    <2>2. tokens' \in [Jtis -> TokenType]
      BY <1>7, <2>1 DEF SaveRefreshTokenForLogin, TypeOK
    <2> QED
      BY <1>7, <2>2, DefaultTypes DEF SaveRefreshTokenForLogin, Done, TypeOK
  <1> QED
    BY <1>1, <1>2, <1>3, <1>4, <1>5, <1>6, <1>7 DEF SignInStep

\* A step of a request that changes the account preserves them.
LEMMA SettingsType ==
  ASSUME TypeOK, NEW r \in Requests, SettingsStep(r)
  PROVE  TypeOK'
  <1>1. CASE \E l \in Links : ResetReadsHash(r, l)
    <2>1. PICK l \in Links : ResetReadsHash(r, l)
      BY <1>1
    <2> DEFINE x == [NoRequest EXCEPT !.at = "reset", !.link = l, !.ver = links[l].ver, !.hash = account.hash]
    <2>2. x \in RequestType
      BY DefaultTypes DEF TypeOK, AccountType, RequestType, GrantType, NoRequest
    <2> QED
      BY <2>1, <2>2 DEF ResetReadsHash, TypeOK
  <1>2. CASE ResetChecksVersion(r)
    <2>1. [request[r] EXCEPT !.at = "redeem", !.ver = 0] \in RequestType
      <3>1. request[r] \in RequestType /\ 0 \in Versions
        BY SessionsAssumption DEF TypeOK, Versions
      <3> QED
        BY <3>1, RequestFields
    <2> QED
      BY <1>2, <2>1, DefaultTypes DEF ResetChecksVersion, Done, TypeOK
  <1>3. CASE ResetConsumes(r)
    <2>1. [request[r] EXCEPT !.at = "write"] \in RequestType
      BY DEF TypeOK, RequestType
    <2>2. \A l \in Links : Spend(links[l]) \in GrantType
      BY SpendType DEF TypeOK
    <2>3. request' \in [Requests -> RequestType]
      BY <1>3, <2>1, DefaultTypes DEF ResetConsumes, Goto, Done, TypeOK
    <2> QED
      BY <1>3, <2>2, <2>3 DEF ResetConsumes, TypeOK
  <1>4. CASE ChangeReadsHash(r)
    <2> DEFINE x == [NoRequest EXCEPT !.at = "write", !.hash = account.hash]
    <2>1. x \in RequestType
      BY DefaultTypes DEF TypeOK, AccountType, RequestType, NoRequest
    <2> QED
      BY <1>4, <2>1, RequestUpdate DEF ChangeReadsHash, TypeOK
  <1>5. CASE UpdateUserPasswordIfCurrent(r)
    <2>1. account.ver < MaxVersion => [account EXCEPT !.hash = NewHash] \in AccountType
      BY SessionsAssumption DEF NewHash, TypeOK, AccountType, Versions
    <2>2. account' \in AccountType /\ tokens' \in [Jtis -> TokenType]
      <3>1. CASE account.hash = request[r].hash
        <4>1. EndSessions([account EXCEPT !.hash = NewHash]) /\ account.ver < MaxVersion
          BY <1>5, <3>1 DEF UpdateUserPasswordIfCurrent, EndSessions
        <4> QED
          BY <2>1, <4>1, EndSessionsType
      <3> QED
        BY <1>5, <3>1 DEF UpdateUserPasswordIfCurrent, TypeOK
    <2>3. request' \in [Requests -> RequestType] /\ UNCHANGED <<tickets, links, minted>>
      BY <1>5, DefaultTypes DEF UpdateUserPasswordIfCurrent, Done, TypeOK
    <2> QED
      BY <2>2, <2>3 DEF TypeOK
  <1>6. CASE TwofaRequestBegins(r)
    <2>1. PICK at \in {"setup", "enable", "disable"} :
            request' = [request EXCEPT ![r] = [NoRequest EXCEPT !.at = at, !.secret = account.secret]]
      BY <1>6 DEF TwofaRequestBegins
    <2>2. [NoRequest EXCEPT !.at = at, !.secret = account.secret] \in RequestType
      BY DefaultTypes DEF TypeOK, AccountType, RequestType, NoRequest
    <2>3. request' \in [Requests -> RequestType]
      BY <2>1, <2>2 DEF TypeOK
    <2> QED
      BY <1>6, <2>3 DEF TwofaRequestBegins, TypeOK
  <1>7. CASE TwofaSetup(r)
    <2>1. minted' \in 0..MaxSecrets
      BY <1>7, SessionsAssumption DEF TwofaSetup, TypeOK
    <2>2. minted' = minted + 1 /\ account' = [account EXCEPT !.secret = minted + 1, !.totp = FALSE]
      BY <1>7 DEF TwofaSetup
    <2>3. account' \in AccountType
      BY <2>1, <2>2, AccountFields DEF TypeOK
    <2> QED
      BY <1>7, <2>1, <2>3, DefaultTypes DEF TwofaSetup, Done, TypeOK
  <1>8. CASE TwofaEnable(r)
    <2>1. [account EXCEPT !.secret = request[r].secret, !.totp = TRUE] \in AccountType
      BY AccountFields DEF TypeOK, RequestType
    <2> QED
      BY <1>8, <2>1, DefaultTypes DEF TwofaEnable, Done, TypeOK
  <1>9. CASE TwofaDisable(r)
    <2>1. [account EXCEPT !.secret = 0, !.totp = FALSE] \in AccountType
      <3>1. account \in AccountType /\ 0 \in 0..MaxSecrets /\ FALSE \in BOOLEAN
        BY SessionsAssumption DEF TypeOK
      <3> QED
        BY <3>1, AccountFields
    <2> QED
      BY <1>9, <2>1, DefaultTypes DEF TwofaDisable, Done, TypeOK
  <1>10. CASE RequestEnds(r)
    BY <1>10, DefaultTypes DEF RequestEnds, Done, TypeOK
  <1> QED
    BY <1>1, <1>2, <1>3, <1>4, <1>5, <1>6, <1>7, <1>8, <1>9, <1>10 DEF SettingsStep

\* A step with a refresh token preserves them.
LEMMA TokenStepType ==
  ASSUME TypeOK, NEW j \in Jtis, TokenStep(j)
  PROVE  TypeOK'
  <1>1. CASE \E n \in Jtis : RotateRefreshToken(j, n)
    <2>1. PICK n \in Jtis : RotateRefreshToken(j, n)
      BY <1>1
    <2>2. [tokens[j] EXCEPT !.state = "live"] \in TokenType /\ [tokens[j] EXCEPT !.state = "revoked"] \in TokenType
      BY DEF TypeOK, TokenType
    <2>3. tokens' = [tokens EXCEPT ![j] = [tokens[j] EXCEPT !.state = "revoked"],
                                   ![n] = [tokens[j] EXCEPT !.state = "live"]]
      BY <2>1 DEF RotateRefreshToken
    <2>4. tokens' \in [Jtis -> TokenType]
      BY <2>2, <2>3 DEF TypeOK
    <2> QED
      BY <2>1, <2>4 DEF RotateRefreshToken, TypeOK
  <1>2. CASE RefreshTokenReplay(j)
    <2>1. tokens' \in [Jtis -> TokenType]
      BY <1>2, RevokedType DEF RefreshTokenReplay, RevokeFamily
    <2> QED
      BY <1>2, <2>1 DEF RefreshTokenReplay, TypeOK
  <1>3. CASE RevokeUserSession(j)
    <2>1. tokens' \in [Jtis -> TokenType]
      BY <1>3, RevokedType DEF RevokeUserSession, RevokeFamily
    <2> QED
      BY <1>3, <2>1 DEF RevokeUserSession, TypeOK
  <1>4. CASE RevokeOtherUserSessions(j)
    <2>1. tokens' \in [Jtis -> TokenType]
      BY <1>4, RevokedType DEF RevokeOtherUserSessions, RevokeFamily
    <2> QED
      BY <1>4, <2>1 DEF RevokeOtherUserSessions, TypeOK
  <1>5. CASE TokenExpires(j)
    <2>1. [tokens[j] EXCEPT !.state = "expired"] \in TokenType
      BY DEF TypeOK, TokenType
    <2> QED
      BY <1>5, <2>1 DEF TokenExpires, TypeOK
  <1> QED
    BY <1>1, <1>2, <1>3, <1>4, <1>5 DEF TokenStep

\* A change of the account preserves them.
LEMMA AccountStepType ==
  ASSUME TypeOK, AccountStep
  PROVE  TypeOK'
  <1>1. CASE UpdateUserPassword
    <2>1. [account EXCEPT !.hash = NewHash] \in AccountType
      BY <1>1, SessionsAssumption DEF UpdateUserPassword, EndSessions, NewHash, TypeOK, AccountType, Versions
    <2> QED
      BY <1>1, <2>1, EndSessionsType DEF UpdateUserPassword, TypeOK
  <1>2. CASE SetUserRole
    BY <1>2, EndSessionsType DEF SetUserRole, TypeOK
  <1>3. CASE \E status \in {"banned", "deleting"} : SetUserStatus(status)
    <2>1. PICK status \in {"banned", "deleting"} : SetUserStatus(status)
      BY <1>3
    <2>2. [account EXCEPT !.status = status] \in AccountType
      BY DEF TypeOK, AccountType
    <2> QED
      BY <2>1, <2>2, EndSessionsType DEF SetUserStatus, TypeOK
  <1>4. CASE Unban
    <2>1. [account EXCEPT !.status = "active"] \in AccountType
      BY DEF TypeOK, AccountType
    <2> QED
      BY <1>4, <2>1 DEF Unban, TypeOK
  <1>5. CASE AdminDisableTwofa
    <2>1. [account EXCEPT !.secret = 0, !.totp = FALSE] \in AccountType
      <3>1. account \in AccountType /\ 0 \in 0..MaxSecrets /\ FALSE \in BOOLEAN
        BY SessionsAssumption DEF TypeOK
      <3> QED
        BY <3>1, AccountFields
    <2> QED
      BY <1>5, <2>1 DEF AdminDisableTwofa, TypeOK
  <1>6. CASE PasskeysChange
    <2>1. [account EXCEPT !.passkey = ~account.passkey] \in AccountType
      BY DEF TypeOK, AccountType
    <2> QED
      BY <1>6, <2>1 DEF PasskeysChange, TypeOK
  <1> QED
    BY <1>1, <1>2, <1>3, <1>4, <1>5, <1>6 DEF AccountStep

\* The links and tickets that come and go preserve them.
LEMMA GrantStepType ==
  ASSUME TypeOK, 
         \/ \E l \in Links : SendPasswordResetLink(l) \/ LinkExpires(l)
         \/ \E k \in Tickets : TicketExpires(k)
  PROVE  TypeOK'
  <1>1. CASE \E l \in Links : SendPasswordResetLink(l)
    <2>1. [state |-> "open", ver |-> account.ver, hash |-> account.hash] \in GrantType
      BY DEF TypeOK, AccountType, GrantType
    <2> QED
      BY <1>1, <2>1 DEF SendPasswordResetLink, TypeOK
  <1>2. CASE \E l \in Links : LinkExpires(l)
    <2>1. \A l \in Links : Spend(links[l]) \in GrantType
      BY SpendType DEF TypeOK
    <2> QED
      BY <1>2, <2>1 DEF LinkExpires, TypeOK
  <1>3. CASE \E k \in Tickets : TicketExpires(k)
    BY <1>3, DefaultTypes DEF TicketExpires, TypeOK
  <1> QED
    BY <1>1, <1>2, <1>3

\* Every step preserves the types.
LEMMA StepType == TypeOK /\ [Next]_vars => TypeOK'
  <1> SUFFICES ASSUME TypeOK, [Next]_vars PROVE TypeOK'
    OBVIOUS
  <1>1. CASE UNCHANGED vars
    BY <1>1 DEF vars, TypeOK
  <1>2. CASE Next
    BY <1>2, SignInType, SettingsType, TokenStepType, AccountStepType, GrantStepType DEF Next
  <1> QED
    BY <1>1, <1>2

\* How the row of the user and the tokens change together: the sessions end with a
\* new version, or the version stays and with it the password.
SessionsEnd == account'.ver = account.ver + 1 /\ tokens' = RevokeAll

SameVersion ==
  /\ account'.ver = account.ver /\ account'.hash = account.hash
  /\ account'.status = account.status \/ (account.status = "banned" /\ tokens' = tokens)

\* Every step does one of the two.
LEMMA AccountMoves ==
  ASSUME TypeOK, [Next]_vars
  PROVE  SessionsEnd \/ SameVersion
  <1>1. ASSUME NEW a \in AccountType, EndSessions(a) PROVE SessionsEnd
    BY <1>1 DEF EndSessions, SessionsEnd, AccountType
  <1>2. account \in AccountType
    BY DEF TypeOK
  <1>3. CASE account' = account
    BY <1>3 DEF SameVersion
  <1>4. ASSUME NEW r \in Requests, UpdateUserPasswordIfCurrent(r) PROVE SessionsEnd \/ SameVersion
    <2>1. CASE account.hash = request[r].hash
      <3>1. EndSessions([account EXCEPT !.hash = NewHash])
        BY <1>4, <2>1 DEF UpdateUserPasswordIfCurrent
      <3>2. account' = [[account EXCEPT !.hash = NewHash] EXCEPT !.ver = account.ver + 1] /\ tokens' = RevokeAll
        BY <3>1 DEF EndSessions
      <3>3. account'.ver = account.ver + 1
        BY <1>2, <3>2 DEF AccountType
      <3> QED
        BY <3>2, <3>3 DEF SessionsEnd
    <2> QED
      BY <1>3, <1>4, <2>1 DEF UpdateUserPasswordIfCurrent
  <1>5. ASSUME NEW r \in Requests, TwofaSetup(r) \/ TwofaEnable(r) \/ TwofaDisable(r) PROVE SameVersion
    BY <1>2, <1>5 DEF TwofaSetup, TwofaEnable, TwofaDisable, SameVersion, AccountType
  <1>6. ASSUME NEW r \in Requests, SettingsStep(r) PROVE SessionsEnd \/ SameVersion
    <2>1. \/ account' = account \/ UpdateUserPasswordIfCurrent(r)
          \/ TwofaSetup(r) \/ TwofaEnable(r) \/ TwofaDisable(r)
      BY <1>6 DEF SettingsStep, ResetReadsHash, ResetChecksVersion, ResetConsumes, ChangeReadsHash,
                  TwofaRequestBegins, RequestEnds
    <2> QED
      BY <1>3, <1>4, <1>5, <2>1
  <1>7. CASE AccountStep
    <2>1. CASE UpdateUserPassword
      <3>1. account' = [[account EXCEPT !.hash = NewHash] EXCEPT !.ver = account.ver + 1] /\ tokens' = RevokeAll
        BY <2>1 DEF UpdateUserPassword, EndSessions
      <3>2. account'.ver = account.ver + 1
        BY <1>2, <3>1 DEF AccountType
      <3> QED
        BY <3>1, <3>2 DEF SessionsEnd
    <2>2. CASE SetUserRole
      BY <1>1, <1>2, <2>2 DEF SetUserRole
    <2>3. CASE \E status \in {"banned", "deleting"} : SetUserStatus(status)
      <3>1. PICK status \in {"banned", "deleting"} : EndSessions([account EXCEPT !.status = status])
        BY <2>3 DEF SetUserStatus
      <3>2. [account EXCEPT !.status = status] \in AccountType
        BY <1>2 DEF AccountType
      <3> QED
        BY <1>1, <3>1, <3>2
    <2>4. CASE Unban \/ AdminDisableTwofa \/ PasskeysChange
      BY <1>2, <2>4 DEF Unban, AdminDisableTwofa, PasskeysChange, SameVersion, AccountType
    <2> QED
      BY <1>7, <2>1, <2>2, <2>3, <2>4 DEF AccountStep
  <1>8. ASSUME NEW r \in Requests, SignInStep(r) PROVE account' = account
    BY <1>8 DEF SignInStep, LoginReadsUser, LoginChecksPassword, TwofaReadsUser, TwofaWrongCode, TwofaConsumes,
                PasskeyVerified, SaveRefreshTokenForLogin
  <1>9. ASSUME NEW j \in Jtis, TokenStep(j) PROVE account' = account
    BY <1>9 DEF TokenStep, RotateRefreshToken, RefreshTokenReplay, RevokeUserSession, RevokeOtherUserSessions,
                TokenExpires
  <1>10. CASE UNCHANGED vars
    BY <1>3, <1>10 DEF vars
  <1> QED
    BY <1>3, <1>6, <1>7, <1>8, <1>9, <1>10 DEF Next, SendPasswordResetLink, LinkExpires, TicketExpires

\* What was true of the password at a version stays true.
LEMMA CurrentStays ==
  ASSUME TypeOK, [Next]_vars, NEW v \in Versions, NEW h, Current(v, h)
  PROVE  v <= account'.ver /\ (v = account'.ver => h = account'.hash)
  <1>1. account.ver \in Nat /\ v \in Nat
    BY SessionsAssumption DEF TypeOK, AccountType, Versions
  <1>2. CASE SessionsEnd
    BY <1>1, <1>2 DEF SessionsEnd, Current
  <1>3. CASE SameVersion
    BY <1>3 DEF SameVersion, Current
  <1> QED
    BY <1>2, <1>3, AccountMoves

\* The ways in which tokens change: all or some are revoked, one expires, one is
\* rotated, one is issued; otherwise none changes and the version stays.
LEMMA TokenMoves ==
  ASSUME TypeOK, [Next]_vars
  PROVE  \/ SessionsEnd
         \/ account' = account /\ \E which : tokens' = Revoked(which)
         \/ \E j \in Jtis : TokenExpires(j) \/ \E n \in Jtis : RotateRefreshToken(j, n)
         \/ \E r \in Requests : SaveRefreshTokenForLogin(r) /\ LockLoginSessionUser(r)
         \/ tokens' = tokens /\ SameVersion
  <1>1. CASE tokens' = tokens
    <2>1. CASE SameVersion
      BY <1>1, <2>1
    <2> QED
      BY <2>1, AccountMoves
  <1>2. ASSUME NEW r \in Requests, SignInStep(r), tokens' # tokens
        PROVE  SaveRefreshTokenForLogin(r) /\ LockLoginSessionUser(r)
    BY <1>2 DEF SignInStep, LoginReadsUser, LoginChecksPassword, TwofaReadsUser, TwofaWrongCode, TwofaConsumes,
                PasskeyVerified, SaveRefreshTokenForLogin
  <1>3. ASSUME NEW r \in Requests, SettingsStep(r), tokens' # tokens PROVE SessionsEnd
    <2>1. UpdateUserPasswordIfCurrent(r)
      BY <1>3 DEF SettingsStep, ResetReadsHash, ResetChecksVersion, ResetConsumes, ChangeReadsHash,
                  TwofaRequestBegins, TwofaSetup, TwofaEnable, TwofaDisable, RequestEnds
    <2>2. EndSessions([account EXCEPT !.hash = NewHash])
      BY <1>3, <2>1 DEF UpdateUserPasswordIfCurrent
    <2>3. account' = [[account EXCEPT !.hash = NewHash] EXCEPT !.ver = account.ver + 1] /\ tokens' = RevokeAll
      BY <2>2 DEF EndSessions
    <2>4. account'.ver = account.ver + 1
      BY <2>3 DEF TypeOK, AccountType
    <2> QED
      BY <2>3, <2>4 DEF SessionsEnd
  <1>4. CASE AccountStep /\ tokens' # tokens
    <2>1. ~SameVersion \/ account'.ver = account.ver
      BY DEF SameVersion
    <2>2. account'.ver # account.ver
      <3>1. PICK a : EndSessions(a) /\ (a = account \/ a = [account EXCEPT !.hash = NewHash]
                       \/ \E status \in {"banned", "deleting"} : a = [account EXCEPT !.status = status])
        BY <1>4 DEF AccountStep, UpdateUserPassword, SetUserRole, SetUserStatus, Unban, AdminDisableTwofa,
                    PasskeysChange
      <3>2. account' = [a EXCEPT !.ver = account.ver + 1]
        BY <3>1 DEF EndSessions
      <3>3. account'.ver = account.ver + 1
        BY <3>1, <3>2 DEF TypeOK, AccountType
      <3> QED
        BY <3>3, SessionsAssumption DEF TypeOK, AccountType, Versions
    <2> QED
      BY <2>1, <2>2, AccountMoves
  <1>5. ASSUME NEW j \in Jtis, TokenStep(j)
        PROVE  \/ account' = account /\ \E which : tokens' = Revoked(which)
               \/ TokenExpires(j) \/ \E n \in Jtis : RotateRefreshToken(j, n)
    BY <1>5 DEF TokenStep, RefreshTokenReplay, RevokeUserSession, RevokeOtherUserSessions, RevokeFamily
  <1>6. CASE Next /\ tokens' # tokens
    BY <1>2, <1>3, <1>4, <1>5, <1>6 DEF Next, SendPasswordResetLink, LinkExpires, TicketExpires
  <1> QED
    BY <1>1, <1>6 DEF vars

\* Revoking changes the state of live tokens only.
LEMMA RevokedTokens ==
  ASSUME TypeOK, NEW which, tokens' = Revoked(which), NEW j \in Jtis
  PROVE  /\ tokens'[j].family = tokens[j].family /\ tokens'[j].ver = tokens[j].ver
         /\ tokens'[j].ticket = tokens[j].ticket
         /\ tokens'[j].state = IF Live(j) /\ which[j] THEN "revoked" ELSE tokens[j].state
  BY DEF TypeOK, TokenType, Revoked, Live

\* What a rotation writes.
LEMMA RotatedTokens ==
  ASSUME TypeOK, NEW j \in Jtis, NEW n \in Jtis, RotateRefreshToken(j, n)
  PROVE  /\ j # n /\ Live(j) /\ ~Issued(n) /\ account' = account
         /\ tokens'[n] = tokens[j]
         /\ tokens'[j].state = "revoked" /\ tokens'[j].family = tokens[j].family
         /\ tokens'[j].ver = tokens[j].ver /\ tokens'[j].ticket = tokens[j].ticket
         /\ \A i \in Jtis \ {j, n} : tokens'[i] = tokens[i]
  <1>1. tokens[j] \in TokenType /\ tokens[j].state = "live" /\ tokens[n].state = "unused" /\ j # n
    BY DEF RotateRefreshToken, TypeOK, Live, Issued
  <1>2. tokens' = [tokens EXCEPT ![j] = [tokens[j] EXCEPT !.state = "revoked"],
                                 ![n] = [tokens[j] EXCEPT !.state = "live"]]
    BY DEF RotateRefreshToken
  <1>3. [tokens[j] EXCEPT !.state = "live"] = tokens[j]
    BY <1>1 DEF TokenType
  <1>4. /\ [tokens[j] EXCEPT !.state = "revoked"].state = "revoked"
        /\ [tokens[j] EXCEPT !.state = "revoked"].family = tokens[j].family
        /\ [tokens[j] EXCEPT !.state = "revoked"].ver = tokens[j].ver
        /\ [tokens[j] EXCEPT !.state = "revoked"].ticket = tokens[j].ticket
    BY <1>1 DEF TokenType
  <1>5. /\ tokens'[n] = [tokens[j] EXCEPT !.state = "live"]
        /\ tokens'[j] = [tokens[j] EXCEPT !.state = "revoked"]
        /\ \A i \in Jtis \ {j, n} : tokens'[i] = tokens[i]
    BY <1>1, <1>2 DEF TypeOK
  <1> QED
    BY <1>1, <1>3, <1>4, <1>5 DEF RotateRefreshToken, Live, Issued

\* What an expiry writes.
LEMMA ExpiredTokens ==
  ASSUME TypeOK, NEW j \in Jtis, TokenExpires(j)
  PROVE  /\ account' = account /\ Issued(j)
         /\ tokens'[j].state = "expired" /\ tokens'[j].family = tokens[j].family
         /\ tokens'[j].ver = tokens[j].ver /\ tokens'[j].ticket = tokens[j].ticket
         /\ \A i \in Jtis \ {j} : tokens'[i] = tokens[i]
  BY DEF TypeOK, TokenType, TokenExpires, Issued

\* What a sign-in writes: one token that was not issued before, of a family of its own.
LEMMA SavedToken ==
  ASSUME TypeOK, NEW r \in Requests, SaveRefreshTokenForLogin(r), LockLoginSessionUser(r)
  PROVE  \E j \in Jtis :
           /\ ~Issued(j) /\ account' = account
           /\ tokens'[j] = [state |-> "live", family |-> j, ver |-> account.ver, ticket |-> request[r].ticket]
           /\ \A i \in Jtis \ {j} : tokens'[i] = tokens[i]
  BY DEF TypeOK, SaveRefreshTokenForLogin, LockLoginSessionUser

\* Every step leaves the tokens sound.
LEMMA TokensInv == IInv /\ [Next]_vars => TokensAreSound'
  <1> SUFFICES ASSUME IInv, [Next]_vars PROVE TokensAreSound'
    OBVIOUS
  <1>0. TypeOK /\ TokensAreSound /\ account.ver \in Nat /\ \A j \in Jtis : tokens[j].ver \in Nat
    BY SessionsAssumption DEF IInv, TypeOK, AccountType, TokenType, Versions
  <1> USE DEF TokensAreSound, Issued, Live
  <1>1. CASE SessionsEnd
    <2> DEFINE every == [j \in Jtis |-> TRUE]
    <2>1. tokens' = Revoked(every) /\ account'.ver = account.ver + 1 /\ \A j \in Jtis : every[j]
      BY <1>1 DEF SessionsEnd, RevokeAll
    <2> HIDE DEF every
    <2>2. \A j \in Jtis :
            /\ tokens'[j].family = tokens[j].family /\ tokens'[j].ver = tokens[j].ver
            /\ tokens'[j].state = IF Live(j) /\ every[j] THEN "revoked" ELSE tokens[j].state
      BY <1>0, <2>1, RevokedTokens
    <2>3. \A j \in Jtis :
            /\ tokens'[j].state # "live"
            /\ tokens[j].state = "unused" <=> tokens'[j].state = "unused"
      BY <2>1, <2>2
    <2>4. \A j \in Jtis : Issued(j) => tokens[j].ver <= account'.ver
      BY <1>0, <2>1
    <2>5. ASSUME NEW j \in Jtis, tokens'[j].state # "unused"
          PROVE  /\ tokens'[j].ver <= account'.ver /\ tokens'[j].family \in Jtis
                 /\ tokens'[tokens'[j].family].state # "unused"
      <3>1. Issued(j) /\ tokens'[j].ver = tokens[j].ver /\ tokens'[j].family = tokens[j].family
        BY <2>2, <2>3, <2>5
      <3>2. tokens[j].family \in Jtis /\ Issued(tokens[j].family)
        BY <1>0, <3>1
      <3> QED
        BY <2>3, <2>4, <3>1, <3>2
    <2> QED
      BY <2>3, <2>5
  <1>2. ASSUME NEW which, account' = account, tokens' = Revoked(which) PROVE TokensAreSound'
    <2>1. \A j \in Jtis :
            /\ tokens'[j].family = tokens[j].family /\ tokens'[j].ver = tokens[j].ver
            /\ tokens'[j].state \in {tokens[j].state, "revoked"}
            /\ tokens[j].state = "unused" => tokens'[j].state = "unused"
      BY <1>0, <1>2, RevokedTokens
    <2> QED
      BY <1>0, <1>2, <2>1
  <1>3. ASSUME NEW j \in Jtis, TokenExpires(j) PROVE TokensAreSound'
    BY <1>0, <1>3, ExpiredTokens
  <1>4. ASSUME NEW j \in Jtis, NEW n \in Jtis, RotateRefreshToken(j, n) PROVE TokensAreSound'
    <2>1. /\ j # n /\ tokens[j].state = "live" /\ tokens[n].state = "unused" /\ account' = account
          /\ tokens'[n] = tokens[j]
          /\ tokens'[j].state = "revoked" /\ tokens'[j].family = tokens[j].family
          /\ tokens'[j].ver = tokens[j].ver
          /\ \A i \in Jtis \ {j, n} : tokens'[i] = tokens[i]
      BY <1>0, <1>4, RotatedTokens
    <2>2. ASSUME NEW i \in Jtis, tokens'[i].state # "unused"
          PROVE  /\ tokens'[i].ver <= account'.ver /\ tokens'[i].family \in Jtis
                 /\ tokens'[tokens'[i].family].state # "unused"
      BY <1>0, <2>1, <2>2
    <2>3. ASSUME NEW i \in Jtis, tokens'[i].state = "live"
          PROVE  account'.status = "active" /\ tokens'[i].ver = account'.ver
      BY <1>0, <2>1, <2>3
    <2>4. ASSUME NEW i \in Jtis, NEW h \in Jtis, tokens'[i].state = "live", tokens'[h].state = "live",
                 tokens'[i].family = tokens'[h].family
          PROVE  i = h
      BY <1>0, <2>1, <2>4
    <2> QED
      BY <2>2, <2>3, <2>4
  <1>5. ASSUME NEW r \in Requests, SaveRefreshTokenForLogin(r), LockLoginSessionUser(r) PROVE TokensAreSound'
    <2>1. PICK j \in Jtis :
           /\ tokens[j].state = "unused" /\ account' = account
           /\ tokens'[j] = [state |-> "live", family |-> j, ver |-> account.ver, ticket |-> request[r].ticket]
           /\ \A i \in Jtis \ {j} : tokens'[i] = tokens[i]
      BY <1>0, <1>5, SavedToken
    <2>2. account.status = "active"
      BY <1>5 DEF LockLoginSessionUser
    <2> QED
      BY <1>0, <2>1, <2>2
  <1>6. CASE tokens' = tokens /\ SameVersion
    BY <1>0, <1>6 DEF SameVersion
  <1> QED
    BY <1>0, <1>1, <1>2, <1>3, <1>4, <1>5, <1>6, TokenMoves

\* Whichever step is taken, a link that was sent keeps the password it was sent for,
\* and a ticket that is spent stays spent.
LEMMA GrantsStay ==
  ASSUME TypeOK, [Next]_vars
  PROVE  /\ \A l \in Links : links[l].state # "unused" =>
              links'[l].state # "unused" /\ links'[l].hash = links[l].hash
         /\ \A k \in Tickets : tickets[k].state = "spent" => tickets'[k].state = "spent"
  <1>1. \A x \in GrantType : Spend(x).state = "spent" /\ Spend(x).hash = x.hash
    BY DEF GrantType, Spend
  <1>2. Spent.state = "spent"
    BY DEF Spent, NoGrant
  <1>3. \/ links' = links
        \/ \E l \in Links : links' = [links EXCEPT ![l] = Spend(links[l])]
        \/ \E l \in Links : links[l].state = "unused" /\ \A m \in Links \ {l} : links'[m] = links[m]
    <2>1. ASSUME NEW r \in Requests, SignInStep(r) PROVE links' = links
      BY <2>1 DEF SignInStep, LoginReadsUser, LoginChecksPassword, TwofaReadsUser, TwofaWrongCode, TwofaConsumes,
                  PasskeyVerified, SaveRefreshTokenForLogin
    <2>2. ASSUME NEW r \in Requests, SettingsStep(r)
          PROVE  links' = links \/ \E l \in Links : links' = [links EXCEPT ![l] = Spend(links[l])]
      <3>1. CASE ResetConsumes(r)
        <4>1. links' = [links EXCEPT ![request[r].link] = Spend(links[request[r].link])]
          BY <3>1 DEF ResetConsumes
        <4>2. CASE request[r].link \in Links
          BY <4>1, <4>2
        <4>3. CASE request[r].link \notin Links
          BY <4>1, <4>3 DEF TypeOK
        <4> QED
          BY <4>2, <4>3
      <3> QED
        BY <2>2, <3>1 DEF SettingsStep, ResetReadsHash, ResetChecksVersion, ChangeReadsHash,
                          UpdateUserPasswordIfCurrent, TwofaRequestBegins, TwofaSetup, TwofaEnable, TwofaDisable,
                          RequestEnds
    <2>3. ASSUME NEW j \in Jtis, TokenStep(j) PROVE links' = links
      BY <2>3 DEF TokenStep, RotateRefreshToken, RefreshTokenReplay, RevokeUserSession, RevokeOtherUserSessions,
                  TokenExpires
    <2>4. CASE AccountStep
      BY <2>4 DEF AccountStep, UpdateUserPassword, SetUserRole, SetUserStatus, Unban, AdminDisableTwofa, PasskeysChange
    <2>5. ASSUME NEW l \in Links, SendPasswordResetLink(l)
          PROVE  links[l].state = "unused" /\ \A m \in Links \ {l} : links'[m] = links[m]
      BY <2>5 DEF SendPasswordResetLink, TypeOK
    <2>6. ASSUME NEW l \in Links, LinkExpires(l) PROVE links' = [links EXCEPT ![l] = Spend(links[l])]
      BY <2>6 DEF LinkExpires
    <2>7. ASSUME NEW k \in Tickets, TicketExpires(k) PROVE links' = links
      BY <2>7 DEF TicketExpires
    <2> QED
      BY <2>1, <2>2, <2>3, <2>4, <2>5, <2>6, <2>7 DEF Next, vars
  <1>4. \/ tickets' = tickets
        \/ \E k : tickets' = [tickets EXCEPT ![k] = Spent]
        \/ \E k \in Tickets : tickets[k].state = "unused" /\ \A m \in Tickets \ {k} : tickets'[m] = tickets[m]
    <2>1. ASSUME NEW r \in Requests, LoginChecksPassword(r)
          PROVE  \/ tickets' = tickets
                 \/ \E k \in Tickets : tickets[k].state = "unused" /\ \A m \in Tickets \ {k} : tickets'[m] = tickets[m]
      BY <2>1 DEF LoginChecksPassword, TypeOK
    <2>2. ASSUME NEW r \in Requests, SignInStep(r), ~LoginChecksPassword(r)
          PROVE  tickets' = tickets \/ \E k : tickets' = [tickets EXCEPT ![k] = Spent]
      BY <2>2 DEF SignInStep, LoginReadsUser, TwofaReadsUser, TwofaWrongCode, TwofaConsumes,
                  PasskeyVerified, SaveRefreshTokenForLogin
    <2>3. ASSUME NEW r \in Requests, SettingsStep(r) PROVE tickets' = tickets
      BY <2>3 DEF SettingsStep, ResetReadsHash, ResetChecksVersion, ResetConsumes, ChangeReadsHash,
                  UpdateUserPasswordIfCurrent, TwofaRequestBegins, TwofaSetup, TwofaEnable, TwofaDisable, RequestEnds
    <2>4. ASSUME NEW j \in Jtis, TokenStep(j) PROVE tickets' = tickets
      BY <2>4 DEF TokenStep, RotateRefreshToken, RefreshTokenReplay, RevokeUserSession, RevokeOtherUserSessions,
                  TokenExpires
    <2>5. CASE AccountStep
      BY <2>5 DEF AccountStep, UpdateUserPassword, SetUserRole, SetUserStatus, Unban, AdminDisableTwofa, PasskeysChange
    <2> QED
      BY <2>1, <2>2, <2>3, <2>4, <2>5 DEF Next, vars, SendPasswordResetLink, LinkExpires, TicketExpires
  <1>5. /\ links \in [Links -> GrantType] /\ tickets \in [Tickets -> GrantType]
    BY DEF TypeOK
  <1>6. ASSUME NEW l \in Links, links[l].state # "unused"
        PROVE  links'[l].state # "unused" /\ links'[l].hash = links[l].hash
    BY <1>1, <1>3, <1>5, <1>6
  <1>7. ASSUME NEW k \in Tickets, tickets[k].state = "spent" PROVE tickets'[k].state = "spent"
    BY <1>2, <1>4, <1>5, <1>7
  <1> QED
    BY <1>6, <1>7

\* Every step leaves the tickets and the links current.
LEMMA GrantsInv == IInv /\ [Next]_vars => GrantsAreCurrent'
  <1> SUFFICES ASSUME IInv, [Next]_vars PROVE GrantsAreCurrent'
    OBVIOUS
  <1>0. /\ TypeOK /\ links \in [Links -> GrantType] /\ tickets \in [Tickets -> GrantType]
        /\ account.ver \in Versions
    BY DEF IInv, TypeOK, AccountType
  <1>1. ASSUME NEW x \in GrantType, Current(x.ver, x.hash)
        PROVE  x.ver <= account'.ver /\ (x.ver = account'.ver => x.hash = account'.hash)
    BY <1>0, <1>1, CurrentStays DEF GrantType
  <1>2. ASSUME NEW k \in Tickets, tickets'[k].state = "open"
        PROVE  Current(tickets[k].ver, tickets[k].hash)'
    <2>1. CASE tickets'[k] = tickets[k]
      BY <1>0, <1>1, <1>2, <2>1 DEF IInv, GrantsAreCurrent, Current
    <2>2. CASE tickets'[k] # tickets[k]
      <3>1. PICK r \in Requests : LoginChecksPassword(r) /\ account' = account
                                  /\ tickets'[k] = [state |-> "open", ver |-> request[r].ver, hash |-> account.hash]
        <4>1. Spent.state = "spent"
          BY DEF Spent, NoGrant
        <4>2. \A m : tickets' # [tickets EXCEPT ![m] = Spent]
          BY <1>0, <1>2, <2>2, <4>1
        <4>3. tickets' # tickets
          BY <2>2
        <4>4. \E r \in Requests : LoginChecksPassword(r)
          BY <4>2, <4>3
             DEF Next, vars, SignInStep, LoginReadsUser, TwofaReadsUser, TwofaWrongCode, TwofaConsumes, PasskeyVerified,
                 SaveRefreshTokenForLogin, SettingsStep, ResetReadsHash, ResetChecksVersion, ResetConsumes,
                 ChangeReadsHash, UpdateUserPasswordIfCurrent, TwofaRequestBegins, TwofaSetup, TwofaEnable,
                 TwofaDisable, RequestEnds, TokenStep, RotateRefreshToken, RefreshTokenReplay, RevokeUserSession,
                 RevokeOtherUserSessions, TokenExpires, AccountStep, UpdateUserPassword, SetUserRole, SetUserStatus,
                 Unban, AdminDisableTwofa, PasskeysChange, SendPasswordResetLink, LinkExpires, TicketExpires
        <4>5. PICK r \in Requests : LoginChecksPassword(r)
          BY <4>4
        <4> QED
          BY <1>0, <2>2, <4>3, <4>5 DEF LoginChecksPassword
      <3>2. request[r].ver <= account.ver
        BY <3>1 DEF IInv, RequestsAreCurrent, RequestIsCurrent, LoginChecksPassword
      <3> QED
        BY <3>1, <3>2 DEF Current
    <2> QED
      BY <2>1, <2>2
  <1>3. ASSUME NEW l \in Links, links'[l].state = "open" PROVE Current(links[l].ver, links[l].hash)'
    <2>1. CASE links'[l] = links[l]
      BY <1>0, <1>1, <1>3, <2>1 DEF IInv, GrantsAreCurrent, Current
    <2>2. CASE links'[l] # links[l]
      <3>1. \A x \in GrantType : Spend(x).state = "spent"
        BY DEF GrantType, Spend
      <3>2. \A m \in Links : links' # [links EXCEPT ![m] = Spend(links[m])]
        BY <1>0, <1>3, <2>2, <3>1
      <3>3. \A m : links' # [links EXCEPT ![m] = Spend(links[m])]
        BY <1>0, <2>2, <3>2
      <3>4. \E m \in Links : SendPasswordResetLink(m)
        BY <2>2, <3>3
           DEF Next, vars, SignInStep, LoginReadsUser, LoginChecksPassword, TwofaReadsUser, TwofaWrongCode,
               TwofaConsumes, PasskeyVerified, SaveRefreshTokenForLogin, SettingsStep, ResetReadsHash,
               ResetChecksVersion, ResetConsumes, ChangeReadsHash, UpdateUserPasswordIfCurrent, TwofaRequestBegins,
               TwofaSetup, TwofaEnable, TwofaDisable, RequestEnds, TokenStep, RotateRefreshToken, RefreshTokenReplay,
               RevokeUserSession, RevokeOtherUserSessions, TokenExpires, AccountStep, UpdateUserPassword, SetUserRole,
               SetUserStatus, Unban, AdminDisableTwofa, PasskeysChange, LinkExpires, TicketExpires
      <3>5. links'[l] = [state |-> "open", ver |-> account.ver, hash |-> account.hash] /\ account' = account
        BY <1>0, <2>2, <3>4 DEF SendPasswordResetLink
      <3> QED
        BY <1>0, <3>5, SessionsAssumption DEF Current, Versions
    <2> QED
      BY <2>1, <2>2
  <1> QED
    BY <1>2, <1>3 DEF GrantsAreCurrent

\* A request that is left alone stays current.
LEMMA KeepsCurrent ==
  ASSUME IInv, [Next]_vars, NEW s \in Requests, request'[s] = request[s]
  PROVE  RequestIsCurrent(s)'
  <1>0. TypeOK /\ RequestIsCurrent(s)
    BY DEF IInv, RequestsAreCurrent
  <1>1. request[s] \in RequestType /\ request[s].ver \in Versions
    BY <1>0 DEF TypeOK, RequestType
  <1>2. ASSUME NEW h, Current(request[s].ver, h)
        PROVE  request[s].ver <= account'.ver /\ (request[s].ver = account'.ver => h = account'.hash)
    BY <1>0, <1>1, <1>2, CurrentStays
  <1>3. request[s].ver <= account.ver => request[s].ver <= account'.ver
    <2>1. request[s].ver <= account.ver => Current(request[s].ver, account.hash)
      BY DEF Current
    <2> QED
      BY <1>2, <2>1
  <1>4. \A l \in Links : links[l].state # "unused" => links'[l].state # "unused" /\ links'[l].hash = links[l].hash
    BY <1>0, GrantsStay
  <1>5. At(s, "password")' => (request[s].ver <= account.ver /\ request[s].ticket = None)'
    BY <1>0, <1>3 DEF RequestIsCurrent, At
  <1>6. At(s, "code")' => (request[s].ticket \in Tickets /\ Current(request[s].ver, request[s].hash))'
    BY <1>0, <1>2 DEF RequestIsCurrent, At, Current
  <1>7. (At(s, "save") /\ request[s].mode \in {"password", "totp"})' => Current(request[s].ver, request[s].hash)'
    BY <1>0, <1>2 DEF RequestIsCurrent, At, Current
  <1>8. ASSUME At(s, "reset")
        PROVE  /\ request[s].link \in Links /\ links'[request[s].link].state # "unused"
               /\ Current(request[s].ver, request[s].hash)'
               /\ Current(request[s].ver, links[request[s].link].hash)'
    <2>1. /\ request[s].link \in Links /\ links[request[s].link].state # "unused"
          /\ Current(request[s].ver, request[s].hash) /\ Current(request[s].ver, links[request[s].link].hash)
      BY <1>0, <1>8 DEF RequestIsCurrent
    <2>2. links'[request[s].link].state # "unused" /\ links'[request[s].link].hash = links[request[s].link].hash
      BY <1>4, <2>1
    <2> QED
      BY <1>2, <2>1, <2>2 DEF Current
  <1>9. ASSUME At(s, "redeem") \/ (At(s, "write") /\ request[s].link # None)
        PROVE  /\ request[s].link \in Links /\ links'[request[s].link].state # "unused"
               /\ request[s].hash = links'[request[s].link].hash
    BY <1>0, <1>4, <1>9 DEF RequestIsCurrent
  <1> QED
    BY <1>5, <1>6, <1>7, <1>8, <1>9 DEF RequestIsCurrent, At

\* Every step leaves the requests current.
LEMMA RequestsInv == IInv /\ [Next]_vars => RequestsAreCurrent'
  <1> SUFFICES ASSUME IInv, [Next]_vars PROVE RequestsAreCurrent'
    OBVIOUS
  <1>0. TypeOK /\ account \in AccountType /\ account.ver \in Nat
    BY SessionsAssumption DEF IInv, TypeOK, AccountType, Versions
  <1>i. \A r \in Requests : request[r] \in RequestType /\ RequestIsCurrent(r)
    BY <1>0 DEF IInv, RequestsAreCurrent, TypeOK
  <1>u. ASSUME NEW r \in Requests, NEW x, request' = [request EXCEPT ![r] = x], RequestIsCurrent(r)'
        PROVE  RequestsAreCurrent'
    <2>1. \A s \in Requests \ {r} : request'[s] = request[s]
      BY <1>0, <1>u DEF TypeOK
    <2> QED
      BY <1>u, <2>1, KeepsCurrent DEF RequestsAreCurrent
  <1>d. ASSUME NEW r \in Requests, request' = [request EXCEPT ![r] = NoRequest] PROVE RequestsAreCurrent'
    <2>1. request'[r].at = "idle"
      BY <1>0, <1>d DEF TypeOK, NoRequest
    <2>2. RequestIsCurrent(r)'
      BY <2>1 DEF RequestIsCurrent, At
    <2> QED
      BY <1>d, <1>u, <2>2
  <1>n. ASSUME request' = request PROVE RequestsAreCurrent'
    BY <1>n, KeepsCurrent DEF RequestsAreCurrent
  <1>1. ASSUME NEW r \in Requests, LoginReadsUser(r) PROVE RequestsAreCurrent'
    <2>1. /\ request'[r].at = "password" /\ request'[r].ver = account.ver /\ request'[r].ticket = None
          /\ account' = account
      BY <1>0, <1>1 DEF LoginReadsUser, TypeOK, NoRequest
    <2>2. RequestIsCurrent(r)'
      BY <1>0, <2>1 DEF RequestIsCurrent, At
    <2> QED
      BY <1>1, <1>u, <2>2 DEF LoginReadsUser
  <1>2. ASSUME NEW r \in Requests, LoginChecksPassword(r), ~Done(r) PROVE RequestsAreCurrent'
    <2> DEFINE x == [request[r] EXCEPT !.at = "save", !.mode = "password", !.hash = account.hash]
    <2>1. request' = [request EXCEPT ![r] = x] /\ account' = account
      BY <1>2 DEF LoginChecksPassword
    <2>2. x.at = "save" /\ x.ver = request[r].ver /\ x.hash = account.hash
      BY <1>i DEF RequestType
    <2>3. request'[r] = x
      BY <1>0, <2>1 DEF TypeOK
    <2>4. request[r].ver <= account.ver
      BY <1>2, <1>i DEF LoginChecksPassword, RequestIsCurrent
    <2>5. RequestIsCurrent(r)'
      BY <2>1, <2>2, <2>3, <2>4 DEF RequestIsCurrent, At, Current
    <2> QED
      BY <1>u, <2>1, <2>5
  <1>3. ASSUME NEW r \in Requests, NEW k \in Tickets, TwofaReadsUser(r, k), request' # request
        PROVE  RequestsAreCurrent'
    <2> DEFINE x == [NoRequest EXCEPT !.at = "code", !.ver = account.ver, !.secret = account.secret,
                                      !.hash = tickets[k].hash, !.ticket = k, !.mode = "totp"]
    <2>1. /\ request' = [request EXCEPT ![r] = x] /\ account' = account /\ tickets[k].state = "open"
          /\ tickets[k].ver = account.ver
      BY <1>3 DEF TwofaReadsUser, TicketIsCurrent
    <2>2. x.at = "code" /\ x.ver = account.ver /\ x.hash = tickets[k].hash /\ x.ticket = k
      BY DEF NoRequest
    <2>3. request'[r] = x
      BY <1>0, <2>1 DEF TypeOK
    <2>4. Current(account.ver, tickets[k].hash)
      BY <2>1 DEF IInv, GrantsAreCurrent
    <2>5. RequestIsCurrent(r)'
      BY <2>1, <2>2, <2>3, <2>4 DEF RequestIsCurrent, At, Current
    <2> QED
      BY <1>u, <2>1, <2>5
  <1>4. ASSUME NEW r \in Requests, TwofaConsumes(r), ~Done(r) PROVE RequestsAreCurrent'
    <2>1. request' = [request EXCEPT ![r] = [request[r] EXCEPT !.at = "save"]] /\ account' = account /\ At(r, "code")
      BY <1>4 DEF TwofaConsumes, Goto
    <2>2. request'[r].at = "save" /\ request'[r].ver = request[r].ver /\ request'[r].hash = request[r].hash
      BY <1>0, <1>i, <2>1 DEF TypeOK, RequestType
    <2>3. RequestIsCurrent(r)'
      BY <1>i, <2>1, <2>2 DEF RequestIsCurrent, At, Current
    <2> QED
      BY <1>u, <2>1, <2>3
  <1>5. ASSUME NEW r \in Requests, PasskeyVerified(r) PROVE RequestsAreCurrent'
    <2>1. request'[r].at = "save" /\ request'[r].mode = "passkey"
      BY <1>0, <1>5 DEF PasskeyVerified, TypeOK, NoRequest
    <2>2. RequestIsCurrent(r)'
      BY <2>1 DEF RequestIsCurrent, At
    <2> QED
      BY <1>5, <1>u, <2>2 DEF PasskeyVerified
  <1>6. ASSUME NEW r \in Requests, NEW l \in Links, ResetReadsHash(r, l) PROVE RequestsAreCurrent'
    <2> DEFINE x == [NoRequest EXCEPT !.at = "reset", !.link = l, !.ver = links[l].ver, !.hash = account.hash]
    <2>1. request' = [request EXCEPT ![r] = x] /\ account' = account /\ links' = links /\ links[l].state = "open"
      BY <1>6 DEF ResetReadsHash
    <2>2. x.at = "reset" /\ x.link = l /\ x.ver = links[l].ver /\ x.hash = account.hash
      BY DEF NoRequest
    <2>3. request'[r] = x
      BY <1>0, <2>1 DEF TypeOK
    <2>4. Current(links[l].ver, links[l].hash)
      BY <2>1 DEF IInv, GrantsAreCurrent
    <2>5. RequestIsCurrent(r)'
      BY <2>1, <2>2, <2>3, <2>4 DEF RequestIsCurrent, At, Current
    <2> QED
      BY <1>u, <2>1, <2>5
  <1>7. ASSUME NEW r \in Requests, ResetChecksVersion(r), ~Done(r) PROVE RequestsAreCurrent'
    <2> DEFINE x == [request[r] EXCEPT !.at = "redeem", !.ver = 0]
    <2>1. request' = [request EXCEPT ![r] = x] /\ links' = links /\ At(r, "reset") /\ account.ver = request[r].ver
      BY <1>7 DEF ResetChecksVersion
    <2>2. x.at = "redeem" /\ x.link = request[r].link /\ x.hash = request[r].hash
      BY <1>i DEF RequestType
    <2>3. request'[r] = x
      BY <1>0, <2>1 DEF TypeOK
    <2>4. /\ request[r].link \in Links /\ links[request[r].link].state # "unused"
          /\ request[r].hash = links[request[r].link].hash
      BY <1>i, <2>1 DEF RequestIsCurrent, Current
    <2>5. RequestIsCurrent(r)'
      BY <2>1, <2>2, <2>3, <2>4 DEF RequestIsCurrent, At
    <2> QED
      BY <1>u, <2>1, <2>5
  <1>8. ASSUME NEW r \in Requests, ResetConsumes(r), ~Done(r) PROVE RequestsAreCurrent'
    <2>1. request' = [request EXCEPT ![r] = [request[r] EXCEPT !.at = "write"]] /\ At(r, "redeem")
      BY <1>8 DEF ResetConsumes, Goto
    <2>2. request'[r].at = "write" /\ request'[r].link = request[r].link /\ request'[r].hash = request[r].hash
      BY <1>0, <1>i, <2>1 DEF TypeOK, RequestType
    <2>3. /\ request[r].link \in Links /\ links[request[r].link].state # "unused"
          /\ request[r].hash = links[request[r].link].hash
      BY <1>i, <2>1 DEF RequestIsCurrent
    <2>4. links'[request[r].link].state # "unused" /\ links'[request[r].link].hash = links[request[r].link].hash
      BY <1>0, <2>3, GrantsStay
    <2>5. RequestIsCurrent(r)'
      BY <2>2, <2>3, <2>4 DEF RequestIsCurrent, At
    <2> QED
      BY <1>u, <2>1, <2>5
  <1>9. ASSUME NEW r \in Requests, ChangeReadsHash(r) PROVE RequestsAreCurrent'
    <2>1. request'[r].at = "write" /\ request'[r].link = None
      BY <1>0, <1>9 DEF ChangeReadsHash, TypeOK, NoRequest
    <2>2. RequestIsCurrent(r)'
      BY <2>1 DEF RequestIsCurrent, At
    <2> QED
      BY <1>9, <1>u, <2>2 DEF ChangeReadsHash
  <1>10. ASSUME NEW r \in Requests, TwofaRequestBegins(r) PROVE RequestsAreCurrent'
    <2>1. PICK at \in {"setup", "enable", "disable"} :
            request' = [request EXCEPT ![r] = [NoRequest EXCEPT !.at = at, !.secret = account.secret]]
      BY <1>10 DEF TwofaRequestBegins
    <2>2. request'[r].at = at
      BY <1>0, <2>1 DEF TypeOK, NoRequest
    <2>3. RequestIsCurrent(r)'
      BY <2>2 DEF RequestIsCurrent, At
    <2> QED
      BY <1>u, <2>1, <2>3
  <1>11. ASSUME NEW r \in Requests, SignInStep(r) PROVE RequestsAreCurrent'
    <2>1. \/ LoginReadsUser(r) \/ (LoginChecksPassword(r) /\ ~Done(r)) \/ PasskeyVerified(r)
          \/ (\E k \in Tickets : TwofaReadsUser(r, k) /\ request' # request)
          \/ (TwofaConsumes(r) /\ ~Done(r)) \/ Done(r) \/ request' = request
      BY <1>11 DEF SignInStep, TwofaWrongCode, SaveRefreshTokenForLogin
    <2> QED
      BY <1>d, <1>n, <1>1, <1>2, <1>3, <1>4, <1>5, <2>1 DEF Done
  <1>12. ASSUME NEW r \in Requests, SettingsStep(r) PROVE RequestsAreCurrent'
    <2>1. \/ (\E l \in Links : ResetReadsHash(r, l)) \/ (ResetChecksVersion(r) /\ ~Done(r))
          \/ (ResetConsumes(r) /\ ~Done(r)) \/ ChangeReadsHash(r) \/ TwofaRequestBegins(r) \/ Done(r)
      BY <1>12 DEF SettingsStep, UpdateUserPasswordIfCurrent, TwofaSetup, TwofaEnable, TwofaDisable, RequestEnds
    <2> QED
      BY <1>d, <1>6, <1>7, <1>8, <1>9, <1>10, <2>1 DEF Done
  <1>13. ASSUME NEW j \in Jtis, TokenStep(j) PROVE request' = request
    BY <1>13 DEF TokenStep, RotateRefreshToken, RefreshTokenReplay, RevokeUserSession, RevokeOtherUserSessions,
                 TokenExpires
  <1>14. CASE AccountStep
    BY <1>14, <1>n DEF AccountStep, UpdateUserPassword, SetUserRole, SetUserStatus, Unban, AdminDisableTwofa,
                       PasskeysChange
  <1> QED
    BY <1>n, <1>11, <1>12, <1>13, <1>14 DEF Next, vars, SendPasswordResetLink, LinkExpires, TicketExpires

\* Who comes to save a session with a ticket has just redeemed it, and a token that
\* appears has the ticket of the request that saves it or of the token it replaces.
LEMMA TicketMoves ==
  ASSUME IInv, [Next]_vars, NEW r \in Requests, At(r, "save")', request'[r].ticket # None
  PROVE  \/ request'[r] = request[r]
         \/ /\ At(r, "code") /\ request'[r].ticket = request[r].ticket /\ tickets[request[r].ticket].state = "open"
            /\ tickets'[request[r].ticket].state = "spent" /\ tokens' = tokens
            /\ \A s \in Requests \ {r} : request'[s] = request[s]
  <1>0. TypeOK /\ request \in [Requests -> RequestType]
    BY DEF IInv, TypeOK
  <1>1. ASSUME NEW q \in Requests, NEW x, request' = [request EXCEPT ![q] = x], x.at # "save" \/ x.ticket = None
        PROVE  request'[r] = request[r]
    BY <1>0, <1>1 DEF At
  <1>2. NoRequest.at = "idle"
    BY DEF NoRequest
  <1>3. ASSUME NEW q \in Requests, TwofaConsumes(q), ~Done(q)
        PROVE  \/ request'[r] = request[r]
               \/ /\ q = r /\ At(r, "code") /\ request'[r].ticket = request[r].ticket
                  /\ tickets[request[r].ticket].state = "open"
                  /\ tickets'[request[r].ticket].state = "spent" /\ tokens' = tokens
                  /\ \A s \in Requests \ {r} : request'[s] = request[s]
    <2>1. /\ request' = [request EXCEPT ![q] = [request[q] EXCEPT !.at = "save"]] /\ At(q, "code")
          /\ tickets[request[q].ticket].state = "open" /\ tokens' = tokens
          /\ tickets' = [tickets EXCEPT ![request[q].ticket] = Spent]
      BY <1>3 DEF TwofaConsumes, Goto
    <2>2. CASE q # r
      BY <1>0, <2>1, <2>2
    <2>3. CASE q = r
      <3>1. request'[r].ticket = request[r].ticket /\ \A s \in Requests \ {r} : request'[s] = request[s]
        BY <1>0, <2>1, <2>3 DEF RequestType
      <3>2. request[r].ticket \in Tickets
        BY <1>0, <3>1 DEF RequestType
      <3>3. Spent.state = "spent"
        BY DEF Spent, NoGrant
      <3>4. tickets'[request[r].ticket] = Spent
        <4>1. tickets' = [tickets EXCEPT ![request[r].ticket] = Spent]
          BY <2>1, <2>3
        <4> QED
          BY <1>0, <3>2, <4>1 DEF TypeOK
      <3> QED
        BY <2>1, <2>3, <3>1, <3>3, <3>4
    <2> QED
      BY <2>2, <2>3
  <1>4. ASSUME NEW q \in Requests, Done(q) PROVE request'[r] = request[r]
    BY <1>0, <1>2, <1>4 DEF Done, At
  <1>5. ASSUME NEW q \in Requests, LoginReadsUser(q) PROVE request'[r] = request[r]
    BY <1>0, <1>5 DEF LoginReadsUser, At, NoRequest
  <1>6. ASSUME NEW q \in Requests, LoginChecksPassword(q), ~Done(q) PROVE request'[r] = request[r]
    <2> DEFINE x == [request[q] EXCEPT !.at = "save", !.mode = "password", !.hash = account.hash]
    <2>1. request' = [request EXCEPT ![q] = x] /\ request[q].ticket = None
      BY <1>6 DEF LoginChecksPassword, IInv, RequestsAreCurrent, RequestIsCurrent
    <2>2. request[q] \in RequestType
      BY <1>0
    <2>3. x.ticket = None
      BY <2>1, <2>2 DEF RequestType
    <2> HIDE DEF x
    <2> QED
      BY <1>1, <2>1, <2>3
  <1>7. ASSUME NEW q \in Requests, NEW k \in Tickets, TwofaReadsUser(q, k) PROVE request'[r] = request[r]
    <2>1. \/ request' = request
          \/ request' = [request EXCEPT ![q] =
                [NoRequest EXCEPT !.at = "code", !.ver = account.ver, !.secret = account.secret,
                                  !.hash = tickets[k].hash, !.ticket = k, !.mode = "totp"]]
      BY <1>7 DEF TwofaReadsUser
    <2> QED
      BY <1>1, <2>1 DEF NoRequest
  <1>8. ASSUME NEW q \in Requests, PasskeyVerified(q) PROVE request'[r] = request[r]
    <2>1. request' = [request EXCEPT ![q] =
            [NoRequest EXCEPT !.at = "save", !.mode = "passkey", !.ver = account.ver]]
      BY <1>8 DEF PasskeyVerified
    <2> QED
      BY <1>1, <2>1 DEF NoRequest
  <1>9. ASSUME NEW q \in Requests, SignInStep(q)
        PROVE  \/ request'[r] = request[r]
               \/ TwofaConsumes(q) /\ ~Done(q)
    BY <1>4, <1>5, <1>6, <1>7, <1>8, <1>9 DEF SignInStep, TwofaWrongCode, SaveRefreshTokenForLogin
  <1>10. ASSUME NEW q \in Requests, SettingsStep(q) PROVE request'[r] = request[r]
    <2>1. ASSUME NEW l \in Links, ResetReadsHash(q, l) PROVE request'[r] = request[r]
      <3>1. request' = [request EXCEPT ![q] = [NoRequest EXCEPT !.at = "reset", !.link = l, !.ver = links[l].ver,
                                                                !.hash = account.hash]]
        BY <2>1 DEF ResetReadsHash
      <3> QED
        BY <1>1, <3>1 DEF NoRequest
    <2>2. ASSUME ResetChecksVersion(q), ~Done(q) PROVE request'[r] = request[r]
      <3> DEFINE x == [request[q] EXCEPT !.at = "redeem", !.ver = 0]
      <3>1. request' = [request EXCEPT ![q] = x] /\ request[q] \in RequestType
        BY <1>0, <2>2 DEF ResetChecksVersion
      <3>2. x.at = "redeem"
        BY <3>1 DEF RequestType
      <3> HIDE DEF x
      <3> QED
        BY <1>1, <3>1, <3>2
    <2>3. ASSUME ResetConsumes(q), ~Done(q) PROVE request'[r] = request[r]
      <3>1. request' = [request EXCEPT ![q] = [request[q] EXCEPT !.at = "write"]] /\ request[q] \in RequestType
        BY <1>0, <2>3 DEF ResetConsumes, Goto
      <3>2. [request[q] EXCEPT !.at = "write"].at = "write"
        BY <3>1 DEF RequestType
      <3> QED
        BY <1>1, <3>1, <3>2
    <2>4. ASSUME ChangeReadsHash(q) PROVE request'[r] = request[r]
      <3>1. request' = [request EXCEPT ![q] = [NoRequest EXCEPT !.at = "write", !.hash = account.hash]]
        BY <2>4 DEF ChangeReadsHash
      <3> QED
        BY <1>1, <3>1 DEF NoRequest
    <2>5. ASSUME TwofaRequestBegins(q) PROVE request'[r] = request[r]
      <3>1. \E at \in {"setup", "enable", "disable"} :
              request' = [request EXCEPT ![q] = [NoRequest EXCEPT !.at = at, !.secret = account.secret]]
        BY <2>5 DEF TwofaRequestBegins
      <3> QED
        BY <1>1, <3>1 DEF NoRequest
    <2> QED
      BY <1>4, <1>10, <2>1, <2>2, <2>3, <2>4, <2>5
         DEF SettingsStep, UpdateUserPasswordIfCurrent, TwofaSetup, TwofaEnable, TwofaDisable, RequestEnds
  <1>11. ASSUME NEW j \in Jtis, TokenStep(j) PROVE request' = request
    BY <1>11 DEF TokenStep, RotateRefreshToken, RefreshTokenReplay, RevokeUserSession, RevokeOtherUserSessions,
                 TokenExpires
  <1>12. CASE AccountStep
    BY <1>12 DEF AccountStep, UpdateUserPassword, SetUserRole, SetUserStatus, Unban, AdminDisableTwofa, PasskeysChange
  <1> QED
    BY <1>3, <1>9, <1>10, <1>11, <1>12 DEF Next, vars, SendPasswordResetLink, LinkExpires, TicketExpires

\* Every step leaves the tickets such that each works once.
LEMMA TicketsInv == IInv /\ [Next]_vars => TicketsWorkOnce'
  <1> SUFFICES ASSUME IInv, [Next]_vars PROVE TicketsWorkOnce'
    OBVIOUS
  <1>0. TypeOK /\ TicketsWorkOnce /\ \A j \in Jtis : tokens[j].ticket \in Tickets \cup {None}
    BY DEF IInv, TypeOK, TokenType
  <1>s. \A k \in Tickets : tickets[k].state = "spent" => tickets'[k].state = "spent"
    BY <1>0, GrantsStay
  <1>r. \A r \in Requests : request[r].ticket \in Tickets \cup {None}
    BY <1>0 DEF TypeOK, RequestType
  \* The tickets of the tokens are those of tokens before, or of a request at "save".
  <1>1. ASSUME NEW j \in Jtis
        PROVE  \/ \E i \in Jtis : tokens'[j].ticket = tokens[i].ticket
               \/ \E r \in Requests : /\ At(r, "save") /\ tokens'[j].ticket = request[r].ticket
                                       /\ SaveRefreshTokenForLogin(r)
    <2>1. CASE SessionsEnd
      BY <1>0, <2>1, RevokedTokens DEF SessionsEnd, RevokeAll
    <2>2. ASSUME NEW which, tokens' = Revoked(which)
          PROVE  tokens'[j].ticket = tokens[j].ticket
      BY <1>0, <2>2, RevokedTokens
    <2>3. ASSUME NEW i \in Jtis, TokenExpires(i) PROVE tokens'[j].ticket = tokens[j].ticket
      BY <1>0, <2>3, ExpiredTokens
    <2>4. ASSUME NEW i \in Jtis, NEW n \in Jtis, RotateRefreshToken(i, n)
          PROVE  tokens'[j].ticket \in {tokens[j].ticket, tokens[i].ticket}
      BY <1>0, <2>4, RotatedTokens
    <2>5. ASSUME NEW r \in Requests, SaveRefreshTokenForLogin(r), LockLoginSessionUser(r)
          PROVE  At(r, "save") /\ tokens'[j].ticket \in {tokens[j].ticket, request[r].ticket}
      <3>1. PICK i \in Jtis :
              /\ tokens'[i] = [state |-> "live", family |-> i, ver |-> account.ver, ticket |-> request[r].ticket]
              /\ \A k \in Jtis \ {i} : tokens'[k] = tokens[k]
        BY <1>0, <2>5, SavedToken
      <3>2. tokens'[i].ticket = request[r].ticket
        BY <3>1
      <3> QED
        BY <2>5, <3>1, <3>2 DEF SaveRefreshTokenForLogin
    <2> QED
      BY <1>0, <2>1, <2>2, <2>3, <2>4, <2>5, TokenMoves
  <1>2. ASSUME NEW j \in Jtis, tokens'[j].ticket # None PROVE tickets'[tokens'[j].ticket].state = "spent"
    BY <1>0, <1>1, <1>2, <1>r, <1>s DEF TicketsWorkOnce
  <1>3. ASSUME NEW r \in Requests, At(r, "save")', request'[r].ticket # None
        PROVE  /\ tickets'[request'[r].ticket].state = "spent"
               /\ \A j \in Jtis : tokens'[j].ticket # request'[r].ticket
               /\ \A s \in Requests : At(s, "save")' /\ request'[s].ticket = request'[r].ticket => s = r
    <2>1. CASE request'[r] = request[r]
      <3>1. /\ At(r, "save") /\ request[r].ticket \in Tickets /\ tickets[request[r].ticket].state = "spent"
            /\ \A j \in Jtis : tokens[j].ticket # request[r].ticket
            /\ \A s \in Requests : At(s, "save") /\ request[s].ticket = request[r].ticket => s = r
        BY <1>0, <1>3, <1>r, <2>1 DEF TicketsWorkOnce, At
      <3>2. ~SaveRefreshTokenForLogin(r)
        BY <1>0, <1>3, <2>1 DEF SaveRefreshTokenForLogin, Done, NoRequest, TypeOK, At
      <3>3. \A j \in Jtis : tokens'[j].ticket # request[r].ticket
        BY <1>1, <3>1, <3>2
      <3>4. ASSUME NEW s \in Requests, At(s, "save")', request'[s].ticket = request[r].ticket PROVE s = r
        <4>1. \/ request'[s] = request[s]
              \/ tickets[request[s].ticket].state = "open" /\ request'[s].ticket = request[s].ticket
          BY <1>0, <1>3, <2>1, <3>4, TicketMoves
        <4>2. CASE request'[s] = request[s]
          BY <3>1, <3>4, <4>2 DEF At
        <4> QED
          BY <3>1, <3>4, <4>1, <4>2
      <3> QED
        BY <1>s, <2>1, <3>1, <3>3, <3>4
    <2>2. CASE request'[r] # request[r]
      <3>1. /\ At(r, "code") /\ request'[r].ticket = request[r].ticket /\ tickets[request[r].ticket].state = "open"
            /\ tickets'[request[r].ticket].state = "spent" /\ tokens' = tokens
            /\ \A s \in Requests \ {r} : request'[s] = request[s]
        BY <1>0, <1>3, <2>2, TicketMoves
      <3>2. \A j \in Jtis : tokens[j].ticket # request[r].ticket
        BY <1>0, <1>3, <3>1 DEF TicketsWorkOnce
      <3>3. \A s \in Requests \ {r} : At(s, "save") => request[s].ticket # request[r].ticket
        BY <1>0, <1>3, <3>1 DEF TicketsWorkOnce
      <3> QED
        BY <3>1, <3>2, <3>3 DEF At
    <2> QED
      BY <2>1, <2>2
  <1> QED
    BY <1>2, <1>3 DEF TicketsWorkOnce

\* Every step preserves the invariant.
LEMMA StepInv == IInv /\ [Next]_vars => IInv'
  BY StepType, TokensInv, GrantsInv, RequestsInv, TicketsInv DEF IInv

\* The invariant holds of every reachable state.
THEOREM Invariant == Spec => []IInv
  BY InitInv, StepInv, PTL DEF Spec

\* LiveSessionsAreCurrent: a refresh token that works is of the present version of an
\* active account and the only one of its session, whatever sign-in, rotation or change
\* of the account is under way.
THEOREM SessionsAreCurrent == Spec => []LiveSessionsAreCurrent
  <1>1. IInv => LiveSessionsAreCurrent
    BY DEF IInv, TokensAreSound, LiveSessionsAreCurrent
  <1> QED
    BY <1>1, Invariant, PTL

\* SignInsAreCurrent: SaveRefreshTokenForLogin begins a session only while the password,
\* the second factor or the passkey that the sign-in verified is the account's, and for
\* a ticket that began none.
LEMMA SignInStepIsCurrent ==
  ASSUME IInv, [Next]_vars, NEW r \in Requests, Begins(r)
  PROVE  /\ request[r].mode \in {"password", "totp"} => request[r].hash = account.hash
         /\ request[r].mode = "password" => ~account.totp
         /\ request[r].mode = "totp" => account.totp /\ request[r].secret = account.secret
         /\ request[r].mode = "passkey" => account.passkey
         /\ request[r].ticket # None => \A j \in Jtis : tokens[j].ticket # request[r].ticket
  <1>0. request \in [Requests -> RequestType]
    BY DEF IInv, TypeOK
  <1>b. At(r, "save") /\ tokens' # tokens /\ request'[r] # request[r]
    BY DEF Begins
  <1>1. ASSUME NEW q \in Requests, Done(q) PROVE q = r
    BY <1>0, <1>1, <1>b DEF Done
  <1>2. ASSUME NEW q \in Requests, SignInStep(q)
        PROVE  SaveRefreshTokenForLogin(r) /\ LockLoginSessionUser(r)
    <2>1. SaveRefreshTokenForLogin(q) /\ LockLoginSessionUser(q)
      BY <1>2, <1>b DEF SignInStep, LoginReadsUser, LoginChecksPassword, TwofaReadsUser, TwofaWrongCode,
                        TwofaConsumes, PasskeyVerified, SaveRefreshTokenForLogin
    <2>2. q = r
      BY <1>1, <2>1 DEF SaveRefreshTokenForLogin
    <2> QED
      BY <2>1, <2>2
  <1>3. ASSUME NEW q \in Requests, SettingsStep(q) PROVE FALSE
    <2>1. UpdateUserPasswordIfCurrent(q)
      BY <1>3, <1>b DEF SettingsStep, ResetReadsHash, ResetChecksVersion, ResetConsumes, ChangeReadsHash,
                        TwofaRequestBegins, TwofaSetup, TwofaEnable, TwofaDisable, RequestEnds
    <2>2. At(q, "write") /\ q = r
      BY <1>1, <2>1 DEF UpdateUserPasswordIfCurrent
    <2> QED
      BY <1>b, <2>2 DEF At
  <1>4. ASSUME NEW j \in Jtis, TokenStep(j) PROVE request' = request
    BY <1>4 DEF TokenStep, RotateRefreshToken, RefreshTokenReplay, RevokeUserSession, RevokeOtherUserSessions,
                TokenExpires
  <1>5. ASSUME AccountStep PROVE request' = request
    BY <1>5 DEF AccountStep, UpdateUserPassword, SetUserRole, SetUserStatus, Unban, AdminDisableTwofa,
                      PasskeysChange
  <1>6. LockLoginSessionUser(r)
    <2>1. request' = request \/ \E q \in Requests : SignInStep(q) \/ SettingsStep(q)
      BY <1>4, <1>5 DEF Next, vars, SendPasswordResetLink, LinkExpires, TicketExpires
    <2> QED
      BY <1>b, <1>2, <1>3, <2>1
  <1>7. request[r].mode \in {"password", "totp"} => Current(request[r].ver, request[r].hash)
    BY <1>b DEF IInv, RequestsAreCurrent, RequestIsCurrent
  <1>8. request[r].ticket # None => \A j \in Jtis : tokens[j].ticket # request[r].ticket
    BY <1>b DEF IInv, TicketsWorkOnce
  <1> QED
    BY <1>6, <1>7, <1>8 DEF LockLoginSessionUser, Current

\* A session begins only for the password, the second factor and the passkey that
\* the account has at that moment, and a ticket begins one session at most: the
\* comparison inside the transaction that saves the token
\* (SaveRefreshTokenForLogin, lockLoginSessionUser).
THEOREM SignInsBeginCurrent == Spec => SignInsAreCurrent
  <1>1. IInv /\ [Next]_vars =>
          [\A r \in Requests : Begins(r) =>
             /\ request[r].mode \in {"password", "totp"} => request[r].hash = account.hash
             /\ request[r].mode = "password" => ~account.totp
             /\ request[r].mode = "totp" => account.totp /\ request[r].secret = account.secret
             /\ request[r].mode = "passkey" => account.passkey
             /\ request[r].ticket # None => \A j \in Jtis : tokens[j].ticket # request[r].ticket]_vars
    BY SignInStepIsCurrent
  <1> QED
    BY <1>1, Invariant, PTL DEF Spec, SignInsAreCurrent

\* What a token was issued for does not change.
LEMMA IssuedStays ==
  ASSUME TypeOK, [Next]_vars, NEW j \in Jtis, Issued(j)
  PROVE  tokens'[j].family = tokens[j].family /\ tokens'[j].ver = tokens[j].ver
  <1>1. CASE SessionsEnd
    BY <1>1, RevokedTokens DEF SessionsEnd, RevokeAll
  <1>2. ASSUME NEW which, tokens' = Revoked(which)
        PROVE  tokens'[j].family = tokens[j].family /\ tokens'[j].ver = tokens[j].ver
    BY <1>2, RevokedTokens
  <1>3. ASSUME NEW i \in Jtis, TokenExpires(i)
        PROVE  tokens'[j].family = tokens[j].family /\ tokens'[j].ver = tokens[j].ver
    BY <1>3, ExpiredTokens
  <1>4. ASSUME NEW i \in Jtis, NEW n \in Jtis, RotateRefreshToken(i, n)
        PROVE  tokens'[j].family = tokens[j].family /\ tokens'[j].ver = tokens[j].ver
    BY <1>4, RotatedTokens
  <1>5. ASSUME NEW r \in Requests, SaveRefreshTokenForLogin(r), LockLoginSessionUser(r)
        PROVE  tokens'[j].family = tokens[j].family /\ tokens'[j].ver = tokens[j].ver
    <2>1. tokens'[j] = tokens[j]
      BY <1>5, SavedToken
    <2> QED
      BY <2>1
  <1> QED
    BY <1>1, <1>2, <1>3, <1>4, <1>5, TokenMoves

\* A live token of a family that was begun had a live one before it, in an active account.
LEMMA LiveBefore ==
  ASSUME IInv, [Next]_vars, NEW f \in Jtis, Issued(f), NEW i \in Jtis,
         tokens'[i].state = "live", tokens'[i].family = f
  PROVE  \E k \in Jtis : Live(k) /\ tokens[k].family = f
  <1>0. TypeOK
    BY DEF IInv
  <1>1. CASE SessionsEnd
    <2>1. tokens' = Revoked([j \in Jtis |-> TRUE])
      BY <1>1 DEF SessionsEnd, RevokeAll
    <2>2. tokens'[i].state # "live"
      BY <1>0, <2>1 DEF TypeOK, TokenType, Revoked
    <2> QED
      BY <2>2
  <1>2. ASSUME NEW which, tokens' = Revoked(which)
        PROVE  \E k \in Jtis : Live(k) /\ tokens[k].family = f
    BY <1>0, <1>2, RevokedTokens DEF Live
  <1>3. ASSUME NEW j \in Jtis, TokenExpires(j)
        PROVE  \E k \in Jtis : Live(k) /\ tokens[k].family = f
    BY <1>0, <1>3, ExpiredTokens DEF Live
  <1>4. ASSUME NEW j \in Jtis, NEW n \in Jtis, RotateRefreshToken(j, n)
        PROVE  \E k \in Jtis : Live(k) /\ tokens[k].family = f
    BY <1>0, <1>4, RotatedTokens DEF Live
  <1>5. ASSUME NEW r \in Requests, SaveRefreshTokenForLogin(r), LockLoginSessionUser(r)
        PROVE  \E k \in Jtis : Live(k) /\ tokens[k].family = f
    <2>1. PICK j \in Jtis :
            /\ ~Issued(j)
            /\ tokens'[j] = [state |-> "live", family |-> j, ver |-> account.ver, ticket |-> request[r].ticket]
            /\ \A k \in Jtis \ {j} : tokens'[k] = tokens[k]
      BY <1>0, <1>5, SavedToken
    <2>2. i # j
      BY <2>1
    <2> QED
      BY <2>1, <2>2 DEF Live
  <1>6. CASE tokens' = tokens
    BY <1>6 DEF Live
  <1> QED
    BY <1>0, <1>1, <1>2, <1>3, <1>4, <1>5, <1>6, TokenMoves

\* RefusedForGood: an access token that requireAuth refuses is refused after every step.
LEMMA AcceptedBefore ==
  ASSUME IInv, [Next]_vars, NEW j \in Jtis, Issued(j), Authorised(tokens[j].family, tokens[j].ver)'
  PROVE  Authorised(tokens[j].family, tokens[j].ver)
  <1>0. TypeOK /\ TokensAreSound
    BY DEF IInv
  <1>1. tokens[j].family \in Jtis /\ Issued(tokens[j].family)
    BY <1>0 DEF TokensAreSound
  <1>2. tokens'[j].family = tokens[j].family /\ tokens'[j].ver = tokens[j].ver
    BY <1>0, IssuedStays
  <1>3. /\ account'.status = "active" /\ account'.ver = tokens[j].ver
        /\ \E i \in Jtis : tokens'[i].state = "live" /\ tokens'[i].family = tokens[j].family
    BY <1>2 DEF Authorised, Live
  <1>4. PICK k \in Jtis : Live(k) /\ tokens[k].family = tokens[j].family
    BY <1>1, <1>3, LiveBefore
  <1>5. account.status = "active"
    BY <1>0, <1>4 DEF TokensAreSound
  <1>6. ~SessionsEnd
    <2>1. tokens[j].ver <= account.ver /\ account.ver \in Nat
      BY <1>0, SessionsAssumption DEF TokensAreSound, TypeOK, AccountType, Versions
    <2> QED
      BY <1>3, <2>1 DEF SessionsEnd
  <1>7. account.ver = tokens[j].ver
    BY <1>0, <1>3, <1>6, AccountMoves DEF SameVersion
  <1> QED
    BY <1>4, <1>5, <1>7 DEF Authorised

\* An access token that was refused once is refused for good, whatever refresh or
\* sign-in was under way when its session or its version ended (requireAuth,
\* RotateRefreshToken, the bump of token_version).
THEOREM RefusalIsFinal == Spec => RefusedForGood
  <1>1. IInv /\ [Next]_vars =>
          [\A j \in Jtis : Issued(j) /\ ~Authorised(tokens[j].family, tokens[j].ver)
                           => ~Authorised(tokens[j].family, tokens[j].ver)']_vars
    BY AcceptedBefore
  <1> QED
    BY <1>1, Invariant, PTL DEF Spec, RefusedForGood

\* PasswordsAreNotOverwritten: the password that a request replaces is the one it
\* verified, or the one its reset link was sent for.
LEMMA WritesWhatWasRead ==
  ASSUME IInv, [Next]_vars, NEW r \in Requests, At(r, "write"), account'.hash # account.hash,
         request'[r] # request[r]
  PROVE  account.hash = IF request[r].link = None THEN request[r].hash ELSE links[request[r].link].hash
  <1>0. request \in [Requests -> RequestType]
    BY DEF IInv, TypeOK
  <1>1. ASSUME NEW q \in Requests, NEW x, request' = [request EXCEPT ![q] = x] PROVE q = r
    BY <1>0, <1>1
  <1>2. ASSUME NEW q \in Requests, SignInStep(q) PROVE account' = account
    BY <1>2 DEF SignInStep, LoginReadsUser, LoginChecksPassword, TwofaReadsUser, TwofaWrongCode, TwofaConsumes,
                PasskeyVerified, SaveRefreshTokenForLogin
  <1>3. ASSUME NEW q \in Requests, SettingsStep(q) PROVE UpdateUserPasswordIfCurrent(r)
    <2>1. UpdateUserPasswordIfCurrent(q) \/ TwofaSetup(q) \/ TwofaEnable(q) \/ TwofaDisable(q)
      BY <1>3 DEF SettingsStep, ResetReadsHash, ResetChecksVersion, ResetConsumes, ChangeReadsHash,
                  TwofaRequestBegins, TwofaSetup, TwofaEnable, TwofaDisable, RequestEnds
    <2>2. q = r
      BY <1>1, <2>1 DEF UpdateUserPasswordIfCurrent, TwofaSetup, TwofaEnable, TwofaDisable, Done
    <2> QED
      BY <2>1, <2>2 DEF At, TwofaSetup, TwofaEnable, TwofaDisable
  <1>4. ASSUME NEW j \in Jtis, TokenStep(j) PROVE account' = account
    BY <1>4 DEF TokenStep, RotateRefreshToken, RefreshTokenReplay, RevokeUserSession, RevokeOtherUserSessions,
                TokenExpires
  <1>5. ASSUME AccountStep PROVE request' = request
    BY <1>5 DEF AccountStep, UpdateUserPassword, SetUserRole, SetUserStatus, Unban, AdminDisableTwofa,
                PasskeysChange
  <1>6. UpdateUserPasswordIfCurrent(r)
    <2>1. account' = account \/ request' = request \/ \E q \in Requests : SignInStep(q) \/ SettingsStep(q)
      BY <1>4, <1>5 DEF Next, vars, SendPasswordResetLink, LinkExpires, TicketExpires
    <2> QED
      BY <1>2, <1>3, <2>1
  <1>7. account.hash = request[r].hash
    BY <1>6 DEF UpdateUserPasswordIfCurrent
  <1>8. request[r].link # None => request[r].hash = links[request[r].link].hash
    BY DEF IInv, RequestsAreCurrent, RequestIsCurrent
  <1> QED
    BY <1>7, <1>8

\* A reset link changes only the password it was sent for, and a change of the
\* password overwrites only the one that the user presented (resetPasswordHandler,
\* changePasswordHandler).
THEOREM PasswordsAreSeen == Spec => PasswordsAreNotOverwritten
  <1>1. IInv /\ [Next]_vars =>
          [\A r \in Requests : At(r, "write") /\ account'.hash # account.hash /\ request'[r] # request[r] =>
             account.hash = IF request[r].link = None THEN request[r].hash
                                                     ELSE links[request[r].link].hash]_vars
    BY WritesWhatWasRead
  <1> QED
    BY <1>1, Invariant, PTL DEF Spec, PasswordsAreNotOverwritten
=============================================================================
