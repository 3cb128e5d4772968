------------------------------ MODULE Sessions ------------------------------
(***************************************************************************)
(* Accounts and their refresh-token sessions: registration, password,      *)
(* guest and OpenID Connect logins, token rotation with reuse detection,   *)
(* the logouts, mailed account tokens, password changes and deactivation.  *)
(*                                                                         *)
(* Every database transaction is one step.  A request that takes several   *)
(* leaves its unfinished part in the state: a token that is "minted" is    *)
(* made but not yet stored, one that is "overtaken" is such a token whose  *)
(* session was ended meanwhile (history: no row tells), a mail that is a   *)
(* "draft" has revoked the rows it saw and not yet committed.  Refresh     *)
(* tokens name their family by the first token of it.  Access tokens are   *)
(* signed and short-lived and leave no state; a "stale" refresh token is   *)
(* active but past expires_at.                                             *)
(***************************************************************************)
EXTENDS Naturals, FiniteSets

CONSTANTS
    Passworded,   \* users who register with a password
    External,     \* users of the OpenID Connect provider
    Guests,       \* guest subjects
    Tokens,       \* refresh tokens
    Mails,        \* mailed account tokens
    Sids,         \* provider sessions
    Jtis,         \* back-channel logout tokens
    None          \* no value

ASSUME SubjectsAssumption ==
    /\ Passworded \cap External = {}
    /\ (Passworded \cup External) \cap Guests = {}

ASSUME NoneAssumption == None \notin Sids \cup Tokens

Users == Passworded \cup External
Subjects == Users \cup Guests
MailKinds == {"email_verification", "password_reset"}

VARIABLES
    user,        \* status of each subject's row
    credential,  \* users with a password_credentials row
    verified,    \* users whose email_verification_state is verified
    grants,      \* signup_grant ledger entries of each user
    token,       \* refresh tokens
    provider,    \* the provider session of each family
    held,        \* tokens some client was given
    mail,        \* account tokens
    change,      \* password updates under way and how far they are
    claimed      \* oidc_logout_claims

accountVars == <<user, credential, verified, grants>>
tokenVars == <<token, held>>
vars == <<accountVars, tokenVars, provider, mail, change, claimed>>

NoToken == [state |-> "unused", family |-> None, subject |-> None]
NoMail == [state |-> "unused", subject |-> None, kind |-> "none", saw |-> {}]

\* Consumed, revoked, expired or rolled back: nobody tells these apart again.
SpentMail == [NoMail EXCEPT !.state = "spent"]

Init ==
    /\ user = [s \in Subjects |-> "absent"]
    /\ credential = {}
    /\ verified = {}
    /\ grants = [s \in Users |-> 0]
    /\ token = [t \in Tokens |-> NoToken]
    /\ provider = [t \in Tokens |-> None]
    /\ held = {}
    /\ mail = [m \in Mails |-> NoMail]
    /\ change = {}
    /\ claimed = {}

Stored == {"active", "stale", "consumed", "revoked"}
InFlight == {"minted", "overtaken"}
Live == {"active", "stale"} \cup InFlight
LiveOf(f) == {t \in Tokens : token[t].family = f /\ token[t].state \in Live}
LiveFor(s) == {t \in Tokens : token[t].subject = s /\ token[t].state \in Live}

\* update refresh_tokens set status = 'revoked' where status = 'active' and ...
\* It does not reach a token that has no row yet.
Revoked(ts) ==
    [t \in Tokens |->
       CASE t \in ts /\ token[t].state \in {"active", "stale"} ->
              [token[t] EXCEPT !.state = "revoked"]
         [] t \in ts /\ token[t].state = "minted" ->
              [token[t] EXCEPT !.state = "overtaken"]
         [] OTHER -> token[t]]

Minted(f, s) == [state |-> "minted", family |-> f, subject |-> s]

-----------------------------------------------------------------------------
(* Accounts and logins.  Each ends in a minted token of a new family.      *)

Register(s, t) ==
    /\ user[s] = "absent"
    /\ token[t] = NoToken
    /\ user' = [user EXCEPT ![s] = "active"]
    /\ credential' = credential \cup {s}
    /\ token' = [token EXCEPT ![t] = Minted(t, s)]
    /\ UNCHANGED <<verified, grants, held, provider, mail, change, claimed>>

Login(s, t) ==
    /\ s \in credential
    /\ user[s] = "active"
    /\ token[t] = NoToken
    /\ token' = [token EXCEPT ![t] = Minted(t, s)]
    /\ UNCHANGED <<accountVars, held, provider, mail, change, claimed>>

\* (Mutant: the status of a known external user is not looked at.)
AnyExternalLogin(s, t) ==
    /\ token[t] = NoToken
    /\ user' = [user EXCEPT ![s] = IF @ = "absent" THEN "active" ELSE @]
    /\ token' = [token EXCEPT ![t] = Minted(t, s)]
    /\ UNCHANGED <<credential, verified, grants, held, provider, mail, change,
                   claimed>>

\* FindOrCreateExternalIdentity: the first login creates the user, with no
\* credential and no credit account; a later one needs an active user.
ExternalLogin(s, t) ==
    /\ user[s] # "deactivated"
    /\ token[t] = NoToken
    /\ user' = [user EXCEPT ![s] = "active"]
    /\ token' = [token EXCEPT ![t] = Minted(t, s)]
    /\ UNCHANGED <<credential, verified, grants, held, provider, mail, change,
                   claimed>>

CreateGuest(s, t) ==
    /\ user[s] = "absent"
    /\ token[t] = NoToken
    /\ user' = [user EXCEPT ![s] = "active"]
    /\ token' = [token EXCEPT ![t] = Minted(t, s)]
    /\ UNCHANGED <<credential, verified, grants, held, provider, mail, change,
                   claimed>>

\* The callback of an external login stores the provider session before the
\* client gets the first token of the family.
AwaitsProvider(t) ==
    /\ token[t].subject \in External
    /\ token[t].family = t
    /\ provider[t] = None

StoreRefreshToken(t) ==
    /\ token[t].state \in InFlight
    /\ token' = [token EXCEPT ![t].state = "active"]
    /\ held' = IF AwaitsProvider(t) THEN held ELSE held \cup {t}
    /\ UNCHANGED <<accountVars, provider, mail, change, claimed>>

\* The insert fails, or the server stops before it.
TokenLost(t) ==
    /\ token[t].state \in InFlight
    /\ token' = [token EXCEPT ![t].state = "lost"]
    /\ UNCHANGED <<accountVars, held, provider, mail, change, claimed>>

StoreOpenIDConnectSession(t, sid) ==
    /\ token[t].state \in Stored
    /\ AwaitsProvider(t)
    /\ provider' = [provider EXCEPT ![t] = sid]
    /\ held' = held \cup {t}
    /\ UNCHANGED <<accountVars, token, mail, change, claimed>>

\* The callback logs the new session out when its provider session is not
\* stored.  (A server that stops instead leaves a token nobody was given.)
ProviderSessionLost(t) ==
    /\ token[t].state \in {"active", "stale"}
    /\ AwaitsProvider(t)
    /\ token' = Revoked({t})
    /\ UNCHANGED <<accountVars, held, provider, mail, change, claimed>>

-----------------------------------------------------------------------------
(* Rotation and logout.                                                    *)

\* (Mutant: the row is read without a lock, and two requests consume it.)
ConsumeUnlocked(t, next) ==
    /\ t \in held
    /\ token[t].state = "active"
    /\ token[next] = NoToken
    /\ \E s \in {"active", "consumed"} :
         token' = [token EXCEPT ![t].state = s,
                                ![next] = Minted(token[t].family, token[t].subject)]
    /\ UNCHANGED <<accountVars, held, provider, mail, change, claimed>>

\* (Mutant: a token that was consumed may be used once more.)
ConsumeAgain(t, next) ==
    /\ t \in held
    /\ token[t].state \in {"active", "consumed"}
    /\ token[next] = NoToken
    /\ token' = [token EXCEPT ![t].state = "consumed",
                              ![next] = Minted(token[t].family, token[t].subject)]
    /\ UNCHANGED <<accountVars, held, provider, mail, change, claimed>>

ConsumeRefreshToken(t, next) ==
    /\ t \in held
    /\ token[t].state = "active"
    /\ token[next] = NoToken
    /\ token' = [token EXCEPT ![t].state = "consumed",
                              ![next] = Minted(token[t].family, token[t].subject)]
    /\ UNCHANGED <<accountVars, held, provider, mail, change, claimed>>

ReuseDetected(t) ==
    /\ t \in held
    /\ token[t].state \in {"consumed", "revoked"}
    /\ token' = Revoked(LiveOf(token[t].family))
    /\ UNCHANGED <<accountVars, held, provider, mail, change, claimed>>

Expires(t) ==
    /\ token[t].state = "active"
    /\ token' = [token EXCEPT ![t].state = "stale"]
    /\ UNCHANGED <<accountVars, held, provider, mail, change, claimed>>

\* RevokeRefreshFamily, for whichever token of the family is presented.
Logout(t) ==
    /\ t \in held
    /\ token' = Revoked(LiveOf(token[t].family))
    /\ UNCHANGED <<accountVars, held, provider, mail, change, claimed>>

FamiliesOf(sid) == {f \in Tokens : provider[f] = sid}

FrontchannelLogout(sid) ==
    /\ token' = Revoked(UNION {LiveOf(f) : f \in FamiliesOf(sid)})
    /\ UNCHANGED <<accountVars, held, provider, mail, change, claimed>>

\* A logout token names a provider session or a subject and is good for one
\* use.  Verification refuses it once it has expired, so that its claim can go.
BackchannelLogout(j, families) ==
    /\ j \notin claimed
    /\ claimed' = claimed \cup {j}
    /\ token' = Revoked(UNION {LiveOf(f) : f \in families})
    /\ UNCHANGED <<accountVars, held, provider, mail, change>>

ProviderFamilies(s) ==
    {f \in Tokens : token[f].subject = s /\ provider[f] # None}

-----------------------------------------------------------------------------
(* Mailed tokens and password changes.                                     *)

\* A reset is requested by an address that has a credential, a verification
\* by an access token, which may outlive the account's deactivation.
RequestAccountToken(m, s, kind) ==
    /\ mail[m] = NoMail
    /\ user[s] # "absent"
    /\ kind = "password_reset" => s \in credential
    /\ mail' = [mail EXCEPT ![m] =
                  [state |-> "draft", subject |-> s, kind |-> kind,
                   saw |-> {n \in Mails : /\ mail[n].state = "active"
                                          /\ mail[n].subject = s
                                          /\ mail[n].kind = kind}]]
    /\ UNCHANGED <<accountVars, tokenVars, provider, change, claimed>>

\* The rows it saw are locked, so none of them was used meanwhile; a row that
\* a concurrent request stores meanwhile it does not see.
StoreAccountToken(m) ==
    /\ mail[m].state = "draft"
    /\ mail' = [n \in Mails |->
                  IF n = m THEN [mail[n] EXCEPT !.state = "active", !.saw = {}]
                  ELSE IF n \in mail[m].saw THEN SpentMail
                  ELSE mail[n]]
    /\ UNCHANGED <<accountVars, tokenVars, provider, change, claimed>>

\* The transaction rolls back.
AccountTokenLost(m) ==
    /\ mail[m].state = "draft"
    /\ mail' = [mail EXCEPT ![m] = SpentMail]
    /\ UNCHANGED <<accountVars, tokenVars, provider, change, claimed>>

Locked(m) == \E n \in Mails : mail[n].state = "draft" /\ m \in mail[n].saw

Consumable(m, kind) ==
    /\ mail[m].state = "active"
    /\ mail[m].kind = kind
    /\ ~Locked(m)

\* (Mutant: the idempotency key is not probed.)
SignupGrantsAgain(s) == grants[s] + 1

\* insertSignupGrantOnVerification: one entry per account and idempotency key.
SignupGrants(s) == IF grants[s] = 0 THEN 1 ELSE grants[s]

\* A user without a credit account, an external one, is refused, and the token
\* stays as it was.
VerifyEmail(m) ==
    LET s == mail[m].subject
    IN  /\ Consumable(m, "email_verification")
        /\ s \in Passworded
        /\ mail' = [mail EXCEPT ![m] = SpentMail]
        /\ verified' = verified \cup {s}
        /\ grants' = [grants EXCEPT ![s] = SignupGrants(s)]
        /\ UNCHANGED <<user, credential, tokenVars, provider, change, claimed>>

ResetPassword(m) ==
    /\ Consumable(m, "password_reset")
    /\ mail' = [mail EXCEPT ![m] = SpentMail]
    /\ change' = change \cup {<<mail[m].subject, "accepted">>}
    /\ UNCHANGED <<accountVars, tokenVars, provider, claimed>>

ChangePassword(s) ==
    /\ s \in credential
    /\ change' = change \cup {<<s, "accepted">>}
    /\ UNCHANGED <<accountVars, tokenVars, provider, mail, claimed>>

\* UpdatePassword writes the hash and revokes the sessions in two statements
\* of their own; the first finds no row when the account is gone.
WriteHash(s) ==
    /\ <<s, "accepted">> \in change
    /\ s \in credential
    /\ change' = (change \ {<<s, "accepted">>}) \cup {<<s, "hashed">>}
    /\ UNCHANGED <<accountVars, tokenVars, provider, mail, claimed>>

RevokeSessions(s) ==
    /\ <<s, "hashed">> \in change
    /\ token' = Revoked(LiveFor(s))
    /\ change' = change \ {<<s, "hashed">>}
    /\ UNCHANGED <<accountVars, held, provider, mail, claimed>>

\* The update is refused, fails or is cut short.
ChangeLost(s, stage) ==
    /\ <<s, stage>> \in change
    /\ change' = change \ {<<s, stage>>}
    /\ UNCHANGED <<accountVars, tokenVars, provider, mail, claimed>>

\* Allowed while no task of the user holds a reward.  The revocation waits for
\* the rows a draft has locked.
DeactivateUser(s) ==
    /\ user[s] = "active"
    /\ \A m \in Mails : mail[m].subject = s => ~Locked(m)
    /\ user' = [user EXCEPT ![s] = "deactivated"]
    /\ token' = Revoked(LiveFor(s))
    /\ mail' = [m \in Mails |->
                  IF mail[m].subject = s /\ mail[m].state = "active"
                  THEN SpentMail ELSE mail[m]]
    /\ credential' = credential \ {s}
    /\ UNCHANGED <<verified, grants, held, provider, change, claimed>>

MailExpires(m) ==
    /\ mail[m].state = "active"
    /\ ~Locked(m)
    /\ mail' = [mail EXCEPT ![m] = SpentMail]
    /\ UNCHANGED <<accountVars, tokenVars, provider, change, claimed>>

-----------------------------------------------------------------------------
Begins(t) ==
    \/ \E s \in Passworded : Register(s, t) \/ Login(s, t)
    \/ \E s \in External : ExternalLogin(s, t)
    \/ \E s \in Guests : CreateGuest(s, t)

Rotates(t) ==
    \/ StoreRefreshToken(t)
    \/ TokenLost(t)
    \/ \E sid \in Sids : StoreOpenIDConnectSession(t, sid)
    \/ ProviderSessionLost(t)
    \/ \E next \in Tokens : ConsumeRefreshToken(t, next)
    \/ ReuseDetected(t)
    \/ Expires(t)
    \/ Logout(t)

ProviderEnds ==
    \/ \E sid \in Sids : FrontchannelLogout(sid)
    \/ \E j \in Jtis, sid \in Sids : BackchannelLogout(j, FamiliesOf(sid))
    \/ \E j \in Jtis, s \in External : BackchannelLogout(j, ProviderFamilies(s))

Mailed(m) ==
    \/ \E s \in Users, kind \in MailKinds : RequestAccountToken(m, s, kind)
    \/ StoreAccountToken(m)
    \/ AccountTokenLost(m)
    \/ VerifyEmail(m)
    \/ ResetPassword(m)
    \/ MailExpires(m)

Changes(s) ==
    \/ ChangePassword(s)
    \/ WriteHash(s)
    \/ RevokeSessions(s)
    \/ \E stage \in {"accepted", "hashed"} : ChangeLost(s, stage)
    \/ DeactivateUser(s)

Next ==
    \/ \E t \in Tokens : Begins(t) \/ Rotates(t)
    \/ ProviderEnds
    \/ \E m \in Mails : Mailed(m)
    \/ \E s \in Users : Changes(s)

Spec == Init /\ [][Next]_vars

-----------------------------------------------------------------------------
(* Properties.                                                             *)

\* The shape of the state.  Every token in use has a family that was begun by
\* a token of the same subject.
TypeOK ==
    /\ user \in [Subjects -> {"absent", "active", "deactivated"}]
    /\ credential \subseteq Passworded
    /\ verified \subseteq Users
    /\ grants \in [Users -> Nat]
    /\ token \in [Tokens -> [state : {"unused", "lost"} \cup Stored \cup Live,
                             family : Tokens \cup {None},
                             subject : Subjects \cup {None}]]
    /\ \A t \in Tokens : token[t] # NoToken =>
         /\ token[t].family \in Tokens
         /\ token[token[t].family].subject = token[t].subject
    /\ provider \in [Tokens -> Sids \cup {None}]
    /\ held \subseteq {t \in Tokens : token[t].state \in Stored}
    /\ mail \in [Mails -> [state : {"unused", "draft", "active", "spent"},
                           subject : Users \cup {None},
                           kind : MailKinds \cup {"none"},
                           saw : SUBSET Mails]]
    /\ change \subseteq Users \X {"accepted", "hashed"}
    /\ claimed \subseteq Jtis

\* A session is one chain: however many requests present the same token, at
\* most one successor of a family is usable or about to be.
OneTokenPerFamily == \A f \in Tokens : Cardinality(LiveOf(f)) <= 1

\* A session that has ended, with no refresh of it in flight, stays ended:
\* neither a replayed token nor any other request revives it.  (With one in
\* flight it may go on: see EndedFamilyHasNoHeir.)
EndedFamilyStaysEnded ==
    [][\A f \in Tokens : token[f].family = f /\ LiveOf(f) = {} => LiveOf(f)' = {}]_vars

\* A deactivated user whose last session or login in flight has ended never
\* gets another one.
DeactivatedStaysSignedOut ==
    [][\A s \in Users : user[s] = "deactivated" /\ LiveFor(s) = {} => LiveFor(s)' = {}]_vars

\* What the comment in ConsumeRefreshToken promises: a replay ends the whole family,
\* so that nobody goes on rotating it, and a logout does as much.  It does not hold:
\* a successor in flight is no row that could be revoked and is stored active later.
EndedFamilyHasNoHeir ==
    [][\A t \in Tokens :
         /\ token[t].state = "overtaken" /\ token[t].family # t
         /\ user[token[t].subject] = "active"
         => token'[t].state # "active"]_vars

\* What the documentation of account removal promises: a deactivated user has no
\* refresh token in force.  It does not hold: a login or a refresh that passed its
\* checks before stores its token afterwards.
DeactivatedHasNoSession ==
    \A t \in Tokens : token[t].state = "active" /\ token[t].subject \in Users =>
      user[token[t].subject] = "active"

\* The signup grant is paid once, with the first verification, however many
\* verification mails were sent and used.
GrantFollowsVerification ==
    \A s \in Users : grants[s] = IF s \in verified THEN 1 ELSE 0
=============================================================================
