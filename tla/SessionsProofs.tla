--------------------------- MODULE SessionsProofs ---------------------------
(* Proofs that a session is one chain of tokens and ends for good.         *)
EXTENDS Sessions, FiniteSetTheorems, TLAPS

TokenStates == {"unused", "lost"} \cup Stored \cup Live
TokenSet == [state : TokenStates, family : Tokens \cup {None},
             subject : Subjects \cup {None}]
MailSet == [state : {"unused", "draft", "active", "spent"},
            subject : Users \cup {None}, kind : MailKinds \cup {"none"},
            saw : SUBSET Mails]

AccountTypes ==
    /\ user \in [Subjects -> {"absent", "active", "deactivated"}]
    /\ credential \subseteq Passworded
    /\ verified \subseteq Users
    /\ grants \in [Users -> Nat]
TokenTypes ==
    /\ token \in [Tokens -> TokenSet]
    /\ provider \in [Tokens -> Sids \cup {None}]
    /\ held \subseteq {t \in Tokens : token[t].state \in Stored}
MailTypes ==
    /\ mail \in [Mails -> MailSet]
    /\ change \subseteq Users \X {"accepted", "hashed"}
    /\ claimed \subseteq Jtis

\* A token in use belongs to a family whose first token is in use as well and
\* is its own family and of the same subject.
Rooted(t) ==
    /\ token[t].state # "unused"
    /\ token[t].subject \in Subjects
    /\ token[t].family \in Tokens
    /\ token[token[t].family].state # "unused"
    /\ token[token[t].family].family = token[t].family
    /\ token[token[t].family].subject = token[t].subject

\* No two tokens of a family are usable or about to be.
Alone(t1, t2) ==
    /\ token[t1].family = token[t2].family
    /\ token[t1].state \in Live /\ token[t2].state \in Live
    => t1 = t2

Chains ==
    /\ \A t \in Tokens : token[t] = NoToken \/ Rooted(t)
    /\ \A t1, t2 \in Tokens : Alone(t1, t2)

\* A mail under way or sent has a reader: a reset names the user it is for.
Addressed == \A m \in Mails : mail[m].state \in {"draft", "active"} => mail[m].subject \in Users

IInv == AccountTypes /\ TokenTypes /\ MailTypes /\ Chains /\ Addressed

\* Nothing but shapes and chains is in the type invariant.
LEMMA IInvTypes == IInv => TypeOK
BY DEF IInv, AccountTypes, TokenTypes, MailTypes, Chains, Rooted, TypeOK, TokenSet,
       TokenStates, MailSet

\* Nothing has happened at first.
LEMMA ChainsInit == Init => IInv
<1> SUFFICES ASSUME Init PROVE IInv
  OBVIOUS
<1>1. AccountTypes
  BY DEF Init, AccountTypes
<1>2. TokenTypes /\ Chains
  BY DEF Init, TokenTypes, Chains, Alone, TokenSet, TokenStates, NoToken, Live, InFlight
<1>3. MailTypes /\ Addressed
  BY DEF Init, MailTypes, Addressed, MailSet, NoMail
<1> QED
  BY <1>1, <1>2, <1>3 DEF IInv

-----------------------------------------------------------------------------
(* What a step does to the tokens.                                         *)

\* Tokens only move on: nobody changes family or subject, and only a token
\* that was live changes its state.
MovesOn(t) ==
    /\ token'[t].family = token[t].family
    /\ token'[t].subject = token[t].subject
    /\ token'[t].state # token[t].state =>
         token[t].state \in Live /\ token'[t].state \in TokenStates \ {"unused", "minted"}

\* Tokens that only move on stay one chain per family.
LEMMA MovingKeepsChains ==
    ASSUME TokenTypes, Chains, token' \in [Tokens -> TokenSet],
           \A t \in Tokens : MovesOn(t)
    PROVE  Chains'
<1>1. ASSUME NEW t \in Tokens, token[t] = NoToken
      PROVE  token'[t] = NoToken
  <2>1. /\ token'[t] \in TokenSet /\ token'[t].state = "unused"
        /\ token'[t].family = None /\ token'[t].subject = None
    BY <1>1 DEF MovesOn, NoToken, Live, InFlight
  <2> QED
    BY <2>1 DEF TokenSet, NoToken
<1>2. ASSUME NEW t \in Tokens, Rooted(t)
      PROVE  Rooted(t)'
  BY <1>2 DEF Rooted, MovesOn
<1>3. ASSUME NEW t1 \in Tokens, NEW t2 \in Tokens
      PROVE  Alone(t1, t2)'
  <2>1. MovesOn(t1) /\ MovesOn(t2) /\ Alone(t1, t2)
    BY DEF Chains
  <2> QED
    BY <2>1 DEF Alone, MovesOn
<1> QED
  BY <1>1, <1>2, <1>3 DEF Chains

\* A token is minted for a family: its own, or that of the one live token it
\* takes the place of.
Mints(next, f, s, ended) ==
    /\ token[next] = NoToken
    /\ token'[next] = Minted(f, s)
    /\ \A x \in Tokens \ {next} :
         /\ token'[x].family = token[x].family
         /\ token'[x].subject = token[x].subject
         /\ token'[x].state = IF x \in ended THEN "consumed" ELSE token[x].state
    /\ ended = LiveOf(f)
    /\ f = next \/ (f # next /\ token[f].family = f /\ token[f].subject = s
                             /\ token[f].state # "unused")

\* Minting leaves one chain per family.
LEMMA MintingKeepsChains ==
    ASSUME TokenTypes, Chains, token' \in [Tokens -> TokenSet],
           NEW next \in Tokens, NEW f \in Tokens, NEW s \in Subjects, NEW ended,
           Mints(next, f, s, ended)
    PROVE  Chains'
<1>0. /\ token'[next].state = "minted" /\ token'[next].family = f
      /\ token'[next].subject = s
  BY DEF Mints, Minted
<1>1. Rooted(next)'
  BY <1>0 DEF Rooted, Mints
<1>2. ASSUME NEW t \in Tokens, t # next, token[t] = NoToken
      PROVE  token'[t] = NoToken
  <2>1. t \notin ended
    BY <1>2 DEF Mints, LiveOf, NoToken, Live, InFlight
  <2>2. /\ token'[t] \in TokenSet /\ token'[t].state = "unused"
        /\ token'[t].family = None /\ token'[t].subject = None
    BY <1>2, <2>1 DEF Mints, NoToken
  <2> QED
    BY <2>2 DEF TokenSet, NoToken
<1>3. ASSUME NEW t \in Tokens, t # next, Rooted(t)
      PROVE  Rooted(t)'
  <2>1. token[t].family # next
    BY <1>3 DEF Rooted, Mints, NoToken
  <2> QED
    BY <1>3, <2>1 DEF Rooted, Mints
<1>4. ASSUME NEW t \in Tokens, t # next, token'[t].state \in Live
      PROVE  token'[t].family # f /\ token[t].state \in Live
  <2>1. token'[t].state = token[t].state /\ t \notin ended
    BY <1>4 DEF Mints, Live, InFlight
  <2> QED
    BY <1>4, <2>1 DEF Mints, LiveOf
<1>5. ASSUME NEW t1 \in Tokens, NEW t2 \in Tokens
      PROVE  Alone(t1, t2)'
  <2>1. CASE t1 # next /\ t2 # next
    BY <1>4, <2>1 DEF Chains, Alone, Mints
  <2>2. CASE t1 = next \/ t2 = next
    BY <1>0, <1>4, <2>2 DEF Alone
  <2> QED
    BY <2>1, <2>2
<1> QED
  BY <1>1, <1>2, <1>3, <1>5 DEF Chains

\* Revoking some tokens only moves them on.
LEMMA RevokedMovesOn ==
    ASSUME TokenTypes, NEW ts, token' = Revoked(ts)
    PROVE  /\ token' \in [Tokens -> TokenSet]
           /\ \A t \in Tokens : MovesOn(t) /\ (token[t].state \in Stored => token'[t].state \in Stored)
BY DEF TokenTypes, Revoked, MovesOn, TokenSet, TokenStates, Stored, Live, InFlight

\* Writing the state of one live token moves it on.
LEMMA StateMovesOn ==
    ASSUME TokenTypes, NEW t \in Tokens, NEW st \in TokenStates \ {"unused", "minted"},
           token[t].state \in Live, token' = [token EXCEPT ![t].state = st]
    PROVE  /\ token' \in [Tokens -> TokenSet]
           /\ \A x \in Tokens : /\ MovesOn(x)
                                /\ token'[x].state = IF x = t THEN st ELSE token[x].state
BY DEF TokenTypes, MovesOn, TokenSet, TokenStates

\* A login mints the first token of a family.
LEMMA LoginMints ==
    ASSUME TokenTypes, Chains, NEW t \in Tokens, NEW s \in Subjects,
           token[t] = NoToken, token' = [token EXCEPT ![t] = Minted(t, s)]
    PROVE  /\ Mints(t, t, s, {}) /\ token' \in [Tokens -> TokenSet]
           /\ \A x \in Tokens : token[x].state \in Stored => token'[x].state \in Stored
<1>1. Minted(t, s) \in TokenSet
  BY DEF Minted, TokenSet, TokenStates, Live, InFlight
<1>2. \A x \in Tokens : token'[x] = IF x = t THEN Minted(t, s) ELSE token[x]
  BY DEF TokenTypes
<1>3. LiveOf(t) = {}
  <2>1. \A x \in Tokens : token[x].family = t => token[x] = NoToken
    BY DEF Chains, Rooted, NoToken
  <2> QED
    BY <2>1 DEF LiveOf, NoToken, Live, InFlight
<1>4. token[t].state \notin Stored
  BY DEF NoToken, Stored
<1> QED
  BY <1>1, <1>2, <1>3, <1>4 DEF Mints, TokenTypes

\* A rotation mints a token in the place of the one it consumes.
LEMMA RotationMints ==
    ASSUME TokenTypes, Chains, NEW t \in Tokens, NEW next \in Tokens,
           ConsumeRefreshToken(t, next)
    PROVE  /\ token[t].family \in Tokens /\ token[t].subject \in Subjects
           /\ Mints(next, token[t].family, token[t].subject, {t})
           /\ token' \in [Tokens -> TokenSet]
           /\ \A x \in Tokens : token[x].state \in Stored => token'[x].state \in Stored
<1> DEFINE f == token[t].family
           s == token[t].subject
<1>1. token[t].state = "active" /\ token[next] = NoToken /\ next # t
  BY DEF ConsumeRefreshToken, NoToken
<1>2. Rooted(t)
  BY <1>1 DEF Chains, NoToken
<1>3. f \in Tokens /\ s \in Subjects /\ f # next
  BY <1>1, <1>2 DEF Rooted, NoToken
<1>4. Minted(f, s) \in TokenSet
  BY <1>3 DEF Minted, TokenSet, TokenStates, Live, InFlight
<1>5. \A x \in Tokens :
        token'[x] = IF x = next THEN Minted(f, s)
                    ELSE IF x = t THEN [token[t] EXCEPT !.state = "consumed"]
                    ELSE token[x]
  BY <1>1 DEF ConsumeRefreshToken, TokenTypes
<1>6. LiveOf(f) = {t}
  BY <1>1, <1>3 DEF LiveOf, Chains, Alone, Live, InFlight
<1>7. token[t] \in TokenSet
  BY DEF TokenTypes
<1>8. /\ [token[t] EXCEPT !.state = "consumed"] \in TokenSet
      /\ token'[t].state = "consumed" /\ token'[t].family = f /\ token'[t].subject = s
  BY <1>1, <1>5, <1>7 DEF TokenSet, TokenStates, Stored
<1>9. token' \in [Tokens -> TokenSet]
  BY <1>4, <1>5, <1>8 DEF TokenTypes, ConsumeRefreshToken
<1>10. Mints(next, f, s, {t})
  BY <1>1, <1>2, <1>3, <1>5, <1>6, <1>8 DEF Mints, Rooted
<1>11. \A x \in Tokens : token[x].state \in Stored => token'[x].state \in Stored
  BY <1>1, <1>5, <1>8 DEF Stored, NoToken
<1> QED
  BY <1>3, <1>9, <1>10, <1>11

\* Steps that move tokens on or mint one, and write nothing a mail needs.
LEMMA TokenStepKeeps ==
    ASSUME IInv, token' \in [Tokens -> TokenSet],
           \/ \A t \in Tokens : MovesOn(t)
           \/ \E next, f \in Tokens, s \in Subjects, ended \in SUBSET Tokens :
                Mints(next, f, s, ended),
           \A x \in Tokens : token[x].state \in Stored => token'[x].state \in Stored,
           held' \subseteq held \cup {t \in Tokens : token'[t].state \in Stored},
           provider' \in [Tokens -> Sids \cup {None}],
           AccountTypes', MailTypes', Addressed'
    PROVE  IInv'
<1>1. Chains'
  BY MovingKeepsChains, MintingKeepsChains DEF IInv
<1>2. TokenTypes'
  BY DEF IInv, TokenTypes
<1> QED
  BY <1>1, <1>2 DEF IInv

\* Steps that leave the tokens alone.
LEMMA OtherStepKeeps ==
    ASSUME IInv, UNCHANGED <<token, held, provider>>,
           AccountTypes', MailTypes', Addressed'
    PROVE  IInv'
BY DEF IInv, TokenTypes, Chains, Rooted, Alone

\* The tokens of a step: they move on, a login mints one for a subject that is
\* not deactivated, or a rotation mints one in the place of another.
TokensStep ==
    \/ \A t \in Tokens : MovesOn(t)
    \/ \E t \in Tokens, s \in Subjects : Mints(t, t, s, {}) /\ user[s] # "deactivated"
    \/ \E t, next \in Tokens :
         /\ token[t].family \in Tokens /\ token[t].subject \in Subjects
         /\ Mints(next, token[t].family, token[t].subject, {t})

Sound == IInv' /\ TokensStep

mailVars == <<mail, change, claimed>>

\* A mail that nobody touches stays well formed.
LEMMA MailsKept == MailTypes /\ Addressed /\ UNCHANGED mailVars => MailTypes' /\ Addressed'
BY DEF MailTypes, Addressed, mailVars

\* So does an account row.
LEMMA AccountsKept == AccountTypes /\ UNCHANGED accountVars => AccountTypes'
BY DEF AccountTypes, accountVars

\* Tokens that nobody touches move on trivially.
LEMMA TokensKept == TokenTypes /\ UNCHANGED token => \A t \in Tokens : MovesOn(t)
BY DEF MovesOn

\* Every way to log in.
LEMMA BeginsSound ==
    ASSUME IInv, NEW t \in Tokens, Begins(t)
    PROVE  Sound
<1>0. TokenTypes /\ Chains /\ AccountTypes /\ MailTypes /\ Addressed
  BY DEF IInv
<1>1. PICK s \in Subjects :
        /\ token[t] = NoToken /\ token' = [token EXCEPT ![t] = Minted(t, s)]
        /\ user[s] # "deactivated"
        /\ \/ UNCHANGED accountVars
           \/ /\ user' = [user EXCEPT ![s] = "active"] /\ UNCHANGED <<verified, grants>>
              /\ credential' = credential \/ (s \in Passworded /\ credential' = credential \cup {s})
        /\ UNCHANGED <<held, provider, mailVars>>
  BY DEF Begins, Register, Login, ExternalLogin, CreateGuest, Subjects, Users, mailVars
<1>2. AccountTypes'
  <2>1. CASE UNCHANGED accountVars
    BY <1>0, <2>1, AccountsKept
  <2>2. CASE ~UNCHANGED accountVars
    BY <1>0, <1>1, <2>2 DEF AccountTypes
  <2> QED
    BY <2>1, <2>2
<1>3. MailTypes' /\ Addressed'
  BY <1>0, <1>1, MailsKept
<1>4. /\ Mints(t, t, s, {}) /\ token' \in [Tokens -> TokenSet]
      /\ \A x \in Tokens : token[x].state \in Stored => token'[x].state \in Stored
  BY <1>0, <1>1, LoginMints
<1>5. \E next, f \in Tokens, x \in Subjects, ended \in SUBSET Tokens : Mints(next, f, x, ended)
  <2>1. {} \in SUBSET Tokens
    OBVIOUS
  <2> QED
    BY <1>4, <2>1, Zenon
<1>6. /\ provider' \in [Tokens -> Sids \cup {None}]
      /\ held' \subseteq held \cup {x \in Tokens : token'[x].state \in Stored}
  BY <1>0, <1>1 DEF TokenTypes
<1>7. IInv'
  BY <1>2, <1>3, <1>4, <1>5, <1>6, TokenStepKeeps
<1>8. TokensStep
  BY <1>1, <1>4, Zenon DEF TokensStep
<1> QED
  BY <1>7, <1>8 DEF Sound

\* A step that revokes tokens and leaves the accounts alone.
LEMMA RevokesSound ==
    ASSUME IInv, NEW ts, token' = Revoked(ts), UNCHANGED <<held, provider>>,
           AccountTypes', MailTypes', Addressed'
    PROVE  Sound
<1>0. TokenTypes
  BY DEF IInv
<1>1. /\ token' \in [Tokens -> TokenSet]
      /\ \A t \in Tokens : MovesOn(t) /\ (token[t].state \in Stored => token'[t].state \in Stored)
  BY <1>0, RevokedMovesOn
<1>2. IInv'
  BY <1>0, <1>1, TokenStepKeeps DEF TokenTypes
<1> QED
  BY <1>1, <1>2 DEF Sound, TokensStep

\* A step that writes the state of one live token, and may hand it to a client.
LEMMA StateSound ==
    ASSUME IInv, NEW t \in Tokens, NEW st \in TokenStates \ {"unused", "minted"},
           token[t].state \in Live, token' = [token EXCEPT ![t].state = st],
           token[t].state \in Stored => st \in Stored,
           held' = held \/ (st \in Stored /\ held' = held \cup {t}),
           UNCHANGED <<accountVars, provider, mailVars>>
    PROVE  Sound
<1>0. TokenTypes /\ Chains /\ AccountTypes /\ MailTypes /\ Addressed
  BY DEF IInv
<1>1. /\ token' \in [Tokens -> TokenSet]
      /\ \A x \in Tokens : /\ MovesOn(x)
                           /\ token'[x].state = IF x = t THEN st ELSE token[x].state
  BY <1>0, StateMovesOn
<1>2. AccountTypes' /\ MailTypes' /\ Addressed'
  BY <1>0, AccountsKept, MailsKept
<1>3. IInv'
  BY <1>0, <1>1, <1>2, TokenStepKeeps DEF TokenTypes
<1> QED
  BY <1>1, <1>3 DEF Sound, TokensStep

\* Storing, rotating, expiring and ending one session.
LEMMA RotatesSound ==
    ASSUME IInv, NEW t \in Tokens, Rotates(t)
    PROVE  Sound
<1>0. TokenTypes /\ Chains /\ AccountTypes /\ MailTypes /\ Addressed
  BY DEF IInv
<1> USE DEF mailVars
<1>1. CASE StoreRefreshToken(t)
  BY <1>1, StateSound DEF StoreRefreshToken, TokenStates, Stored, Live, InFlight
<1>2. CASE TokenLost(t)
  BY <1>2, StateSound DEF TokenLost, TokenStates, Stored, Live, InFlight
<1>3. ASSUME NEW sid \in Sids, StoreOpenIDConnectSession(t, sid)
      PROVE  Sound
  <2>1. /\ token[t].state \in Stored /\ provider' = [provider EXCEPT ![t] = sid]
        /\ held' = held \cup {t} /\ UNCHANGED <<accountVars, token, mailVars>>
    BY <1>3 DEF StoreOpenIDConnectSession
  <2>2. AccountTypes' /\ MailTypes' /\ Addressed'
    BY <1>0, <2>1, AccountsKept, MailsKept
  <2>3. \A x \in Tokens : MovesOn(x)
    BY <1>0, <2>1, TokensKept
  <2>4. IInv'
    BY <1>0, <2>1, <2>2, <2>3, TokenStepKeeps DEF TokenTypes
  <2> QED
    BY <2>3, <2>4 DEF Sound, TokensStep
<1>4. CASE ProviderSessionLost(t) \/ ReuseDetected(t) \/ Logout(t)
  <2>1. /\ \E ts : token' = Revoked(ts)
        /\ UNCHANGED <<accountVars, held, provider, mailVars>>
    BY <1>4 DEF ProviderSessionLost, ReuseDetected, Logout
  <2> QED
    BY <1>0, <2>1, AccountsKept, MailsKept, RevokesSound
<1>5. ASSUME NEW next \in Tokens, ConsumeRefreshToken(t, next)
      PROVE  Sound
  <2>1. /\ token[t].family \in Tokens /\ token[t].subject \in Subjects
        /\ Mints(next, token[t].family, token[t].subject, {t})
        /\ token' \in [Tokens -> TokenSet]
        /\ \A x \in Tokens : token[x].state \in Stored => token'[x].state \in Stored
    BY <1>0, <1>5, RotationMints
  <2>2. UNCHANGED <<accountVars, held, provider, mailVars>>
    BY <1>5 DEF ConsumeRefreshToken
  <2>3. \E n, f \in Tokens, s \in Subjects, ended \in SUBSET Tokens : Mints(n, f, s, ended)
    <3>1. {t} \in SUBSET Tokens
      OBVIOUS
    <3> QED
      BY <2>1, <3>1, Zenon
  <2>4. AccountTypes' /\ MailTypes' /\ Addressed'
    BY <1>0, <2>2, AccountsKept, MailsKept
  <2>5. /\ provider' \in [Tokens -> Sids \cup {None}]
        /\ held' \subseteq held \cup {x \in Tokens : token'[x].state \in Stored}
    BY <1>0, <2>2 DEF TokenTypes
  <2>6. IInv'
    BY <2>1, <2>3, <2>4, <2>5, TokenStepKeeps
  <2>7. TokensStep
    BY <2>1, Zenon DEF TokensStep
  <2> QED
    BY <2>6, <2>7 DEF Sound
<1>6. CASE Expires(t)
  BY <1>6, StateSound DEF Expires, TokenStates, Stored, Live, InFlight
<1> QED
  BY <1>1, <1>2, <1>3, <1>4, <1>5, <1>6 DEF Rotates

\* Rewriting one mail with a row that fits.
LEMMA MailWritten ==
    ASSUME MailTypes, Addressed, NEW m \in Mails, NEW row \in MailSet,
           mail' = [mail EXCEPT ![m] = row],
           row.state \in {"draft", "active"} => row.subject \in Users
    PROVE  mail' \in [Mails -> MailSet] /\ Addressed'
BY DEF MailTypes, Addressed

\* A used-up mail fits.
LEMMA SpentFits == SpentMail \in MailSet /\ SpentMail.state = "spent"
BY DEF SpentMail, NoMail, MailSet

\* Requesting, storing and using mailed tokens.
LEMMA MailedSound ==
    ASSUME IInv, NEW m \in Mails, Mailed(m)
    PROVE  Sound
<1>0. TokenTypes /\ Chains /\ AccountTypes /\ MailTypes /\ Addressed
  BY DEF IInv
<1>1. UNCHANGED <<token, held, provider>>
  BY DEF Mailed, RequestAccountToken, StoreAccountToken, AccountTokenLost,
         VerifyEmail, ResetPassword, MailExpires, tokenVars
<1>2. ASSUME AccountTypes', mail' \in [Mails -> MailSet], Addressed',
             change' \subseteq Users \X {"accepted", "hashed"}, UNCHANGED claimed
      PROVE  Sound
  <2>1. IInv'
    BY <1>0, <1>1, <1>2, OtherStepKeeps DEF MailTypes
  <2> QED
    BY <1>0, <1>1, <2>1, TokensKept DEF Sound, TokensStep
<1>3. ASSUME NEW s \in Users, NEW kind \in MailKinds, RequestAccountToken(m, s, kind)
      PROVE  Sound
  <2> DEFINE new == [state |-> "draft", subject |-> s, kind |-> kind,
                     saw |-> {n \in Mails : /\ mail[n].state = "active"
                                            /\ mail[n].subject = s
                                            /\ mail[n].kind = kind}]
  <2>1. new \in MailSet /\ new.subject = s
    BY DEF MailSet
  <2>2. mail' = [mail EXCEPT ![m] = new] /\ UNCHANGED <<accountVars, change, claimed>>
    BY <1>3 DEF RequestAccountToken
  <2> HIDE DEF new
  <2> QED
    BY <1>0, <1>2, <2>1, <2>2, MailWritten, AccountsKept DEF MailTypes
<1>4. CASE StoreAccountToken(m)
  <2>1. mail[m] \in MailSet /\ mail[m].state = "draft" /\ mail[m].subject \in Users
    BY <1>0, <1>4 DEF StoreAccountToken, MailTypes, Addressed
  <2> DEFINE new == [mail[m] EXCEPT !.state = "active", !.saw = {}]
  <2>2. new \in MailSet /\ new.subject \in Users
    BY <2>1 DEF MailSet
  <2>3. /\ mail' = [n \in Mails |-> IF n = m THEN new
                                    ELSE IF n \in mail[m].saw THEN SpentMail ELSE mail[n]]
        /\ UNCHANGED <<accountVars, change, claimed>>
    BY <1>4 DEF StoreAccountToken
  <2> HIDE DEF new
  <2>4. mail' \in [Mails -> MailSet] /\ Addressed'
    BY <1>0, <2>2, <2>3, SpentFits DEF MailTypes, Addressed
  <2> QED
    BY <1>0, <1>2, <2>3, <2>4, AccountsKept DEF MailTypes
<1>5. CASE AccountTokenLost(m) \/ MailExpires(m)
  <2>1. mail' = [mail EXCEPT ![m] = SpentMail] /\ UNCHANGED <<accountVars, change, claimed>>
    BY <1>5 DEF AccountTokenLost, MailExpires
  <2> QED
    BY <1>0, <1>2, <2>1, SpentFits, MailWritten, AccountsKept DEF MailTypes
<1>6. CASE VerifyEmail(m)
  <2>1. PICK s \in Passworded :
          /\ mail' = [mail EXCEPT ![m] = SpentMail] /\ verified' = verified \cup {s}
          /\ grants' = [grants EXCEPT ![s] = SignupGrants(s)]
          /\ UNCHANGED <<user, credential, change, claimed>>
    BY <1>6 DEF VerifyEmail
  <2>2. AccountTypes'
    BY <1>0, <2>1 DEF AccountTypes, SignupGrants, Users
  <2> QED
    BY <1>0, <1>2, <2>1, <2>2, SpentFits, MailWritten DEF MailTypes
<1>7. CASE ResetPassword(m)
  <2>1. mail[m].subject \in Users
    BY <1>0, <1>7 DEF ResetPassword, Consumable, Addressed
  <2>2. /\ mail' = [mail EXCEPT ![m] = SpentMail]
        /\ change' = change \cup {<<mail[m].subject, "accepted">>}
        /\ UNCHANGED <<accountVars, claimed>>
    BY <1>7 DEF ResetPassword
  <2>3. change' \subseteq Users \X {"accepted", "hashed"}
    BY <1>0, <2>1, <2>2 DEF MailTypes
  <2> QED
    BY <1>0, <1>2, <2>2, <2>3, SpentFits, MailWritten, AccountsKept
<1> QED
  BY <1>3, <1>4, <1>5, <1>6, <1>7 DEF Mailed

\* Changing a password and deactivating a user.
LEMMA ChangesSound ==
    ASSUME IInv, NEW s \in Users, Changes(s)
    PROVE  Sound
<1>0. TokenTypes /\ Chains /\ AccountTypes /\ MailTypes /\ Addressed
  BY DEF IInv
<1>1. CASE \/ ChangePassword(s) \/ WriteHash(s)
           \/ \E stage \in {"accepted", "hashed"} : ChangeLost(s, stage)
  <2>1. /\ UNCHANGED <<accountVars, token, held, provider, mail, claimed>>
        /\ change' \subseteq change \cup {<<s, "accepted">>, <<s, "hashed">>}
    BY <1>1 DEF ChangePassword, WriteHash, ChangeLost, tokenVars
  <2>2. MailTypes' /\ Addressed'
    BY <1>0, <2>1 DEF MailTypes, Addressed
  <2>3. IInv'
    BY <1>0, <2>1, <2>2, AccountsKept, OtherStepKeeps
  <2> QED
    BY <1>0, <2>1, <2>3, TokensKept DEF Sound, TokensStep
<1>2. CASE RevokeSessions(s)
  <2>1. /\ token' = Revoked(LiveFor(s)) /\ change' \subseteq change
        /\ UNCHANGED <<accountVars, held, provider, mail, claimed>>
    BY <1>2 DEF RevokeSessions
  <2>2. MailTypes' /\ Addressed'
    BY <1>0, <2>1 DEF MailTypes, Addressed
  <2> QED
    BY <1>0, <2>1, <2>2, AccountsKept, RevokesSound
<1>3. CASE DeactivateUser(s)
  <2>1. /\ token' = Revoked(LiveFor(s)) /\ user' = [user EXCEPT ![s] = "deactivated"]
        /\ mail' = [m \in Mails |->
                      IF mail[m].subject = s /\ mail[m].state = "active"
                      THEN SpentMail ELSE mail[m]]
        /\ credential' = credential \ {s}
        /\ UNCHANGED <<verified, grants, held, provider, change, claimed>>
    BY <1>3 DEF DeactivateUser
  <2>2. MailTypes' /\ Addressed'
    BY <1>0, <2>1, SpentFits DEF MailTypes, Addressed
  <2>3. AccountTypes'
    BY <1>0, <2>1 DEF AccountTypes
  <2> QED
    BY <2>1, <2>2, <2>3, RevokesSound
<1> QED
  BY <1>1, <1>2, <1>3 DEF Changes

\* Every step keeps the invariant and does to the tokens what it may.
LEMMA StepSound == IInv /\ [Next]_vars => Sound
<1> SUFFICES ASSUME IInv, [Next]_vars PROVE Sound
  OBVIOUS
<1>0. TokenTypes /\ Chains /\ AccountTypes /\ MailTypes /\ Addressed
  BY DEF IInv
<1>1. CASE ProviderEnds
  <2>1. /\ \E ts : token' = Revoked(ts)
        /\ UNCHANGED <<accountVars, held, provider, mail, change>>
        /\ claimed' \subseteq claimed \cup Jtis
    BY <1>1 DEF ProviderEnds, FrontchannelLogout, BackchannelLogout
  <2>2. MailTypes' /\ Addressed'
    BY <1>0, <2>1 DEF MailTypes, Addressed
  <2> QED
    BY <1>0, <2>1, <2>2, AccountsKept, RevokesSound
<1>2. CASE UNCHANGED vars
  <2>1. IInv'
    BY <1>0, <1>2, AccountsKept, MailsKept, OtherStepKeeps
    DEF vars, tokenVars, accountVars, mailVars
  <2> QED
    BY <1>0, <1>2, <2>1, TokensKept DEF vars, tokenVars, Sound, TokensStep
<1> QED
  BY <1>1, <1>2, BeginsSound, RotatesSound, MailedSound, ChangesSound DEF Next

\* The invariant holds of every behaviour.
LEMMA ChainsSafe == Spec => []IInv
<1>1. IInv /\ [Next]_vars => IInv'
  BY StepSound DEF Sound
<1> QED
  BY <1>1, ChainsInit, PTL DEF Spec

-----------------------------------------------------------------------------
(* Theorems.                                                               *)

\* Every row keeps its shape, and every token in use has a family begun by a
\* token of its subject.
THEOREM TypeCorrect == Spec => []TypeOK
BY ChainsSafe, IInvTypes, PTL

\* However many requests present the same token, a family has one usable
\* successor at most.
THEOREM SessionsAreChains == Spec => []OneTokenPerFamily
<1>1. IInv => OneTokenPerFamily
  <2> SUFFICES ASSUME IInv, NEW f \in Tokens
               PROVE  Cardinality(LiveOf(f)) <= 1
    BY DEF OneTokenPerFamily
  <2>1. \A t1, t2 \in LiveOf(f) : t1 = t2
    BY DEF IInv, Chains, Alone, LiveOf
  <2>2. LiveOf(f) = {} \/ \E t : LiveOf(f) = {t}
    BY <2>1
  <2> QED
    BY <2>2, FS_EmptySet, FS_Singleton
<1> QED
  BY <1>1, ChainsSafe, PTL

\* A session that has ended, with no refresh of it in flight, stays ended.
THEOREM FamiliesEndForGood == Spec => EndedFamilyStaysEnded
<1>1. ASSUME IInv, [Next]_vars, NEW f \in Tokens, token[f].family = f, LiveOf(f) = {}
      PROVE  LiveOf(f)' = {}
  <2>0. TokensStep /\ Chains
    BY <1>1, StepSound DEF Sound, IInv
  <2>1. CASE \A t \in Tokens : MovesOn(t)
    BY <1>1, <2>1 DEF MovesOn, LiveOf
  <2>2. ASSUME NEW t \in Tokens, NEW s \in Subjects, Mints(t, t, s, {})
        PROVE  LiveOf(f)' = {}
    <3>1. t # f
      BY <1>1, <2>2, NoneAssumption DEF Mints, NoToken
    <3> QED
      BY <1>1, <2>2, <3>1 DEF Mints, LiveOf, Minted
  <2>3. ASSUME NEW t \in Tokens, NEW next \in Tokens,
               Mints(next, token[t].family, token[t].subject, {t})
        PROVE  LiveOf(f)' = {}
    <3>1. token[t].family # f
      BY <1>1, <2>3 DEF Mints, LiveOf
    <3> QED
      BY <1>1, <2>3, <3>1 DEF Mints, LiveOf, Minted, Live, InFlight
  <2> QED
    BY <2>0, <2>1, <2>2, <2>3 DEF TokensStep
<1>2. IInv /\ [Next]_vars =>
        [\A f \in Tokens : token[f].family = f /\ LiveOf(f) = {} => LiveOf(f)' = {}]_vars
  BY <1>1
<1> QED
  BY <1>2, ChainsSafe, PTL DEF Spec, EndedFamilyStaysEnded

\* A deactivated user whose last session has ended never gets another one.
THEOREM DeactivatedForGood == Spec => DeactivatedStaysSignedOut
<1>1. ASSUME IInv, [Next]_vars, NEW s \in Users, user[s] = "deactivated", LiveFor(s) = {}
      PROVE  LiveFor(s)' = {}
  <2>0. TokensStep
    BY <1>1, StepSound DEF Sound
  <2>1. CASE \A t \in Tokens : MovesOn(t)
    BY <1>1, <2>1 DEF MovesOn, LiveFor
  <2>2. ASSUME NEW t \in Tokens, NEW x \in Subjects, Mints(t, t, x, {}),
               user[x] # "deactivated"
        PROVE  LiveFor(s)' = {}
    BY <1>1, <2>2 DEF Mints, LiveFor, Minted
  <2>3. ASSUME NEW t \in Tokens, NEW next \in Tokens,
               Mints(next, token[t].family, token[t].subject, {t})
        PROVE  LiveFor(s)' = {}
    <3>1. token[t].subject # s
      BY <1>1, <2>3 DEF Mints, LiveOf, LiveFor
    <3> QED
      BY <1>1, <2>3, <3>1 DEF Mints, LiveFor, Minted, Live, InFlight
  <2> QED
    BY <2>0, <2>1, <2>2, <2>3 DEF TokensStep
<1>2. IInv /\ [Next]_vars =>
        [\A s \in Users : user[s] = "deactivated" /\ LiveFor(s) = {} => LiveFor(s)' = {}]_vars
  BY <1>1
<1> QED
  BY <1>2, ChainsSafe, PTL DEF Spec, DeactivatedStaysSignedOut

\* The signup grant is paid once, with the first verification.
THEOREM GrantPaidOnce == Spec => []GrantFollowsVerification
<1>1. Init => GrantFollowsVerification
  BY DEF Init, GrantFollowsVerification
<1>2. IInv /\ GrantFollowsVerification /\ [Next]_vars => GrantFollowsVerification'
  <2> SUFFICES ASSUME IInv, GrantFollowsVerification, [Next]_vars
               PROVE  GrantFollowsVerification'
    OBVIOUS
  <2>1. ASSUME NEW m \in Mails, VerifyEmail(m)
        PROVE  GrantFollowsVerification'
    <3>1. PICK s \in Users : /\ verified' = verified \cup {s}
                             /\ grants' = [grants EXCEPT ![s] = SignupGrants(s)]
      BY <2>1 DEF VerifyEmail, Users
    <3> QED
      BY <3>1 DEF GrantFollowsVerification, SignupGrants, IInv, AccountTypes
  <2>2. CASE UNCHANGED <<verified, grants>>
    BY <2>2 DEF GrantFollowsVerification
  <2>3. (\E m \in Mails : VerifyEmail(m)) \/ UNCHANGED <<verified, grants>>
    <3> USE DEF accountVars
    <3>1. ASSUME NEW t \in Tokens, Begins(t) \/ Rotates(t)
          PROVE  UNCHANGED <<verified, grants>>
      BY <3>1
      DEF Begins, Rotates, Register, Login, ExternalLogin, CreateGuest, StoreRefreshToken,
          TokenLost, StoreOpenIDConnectSession, ProviderSessionLost, ConsumeRefreshToken,
          ReuseDetected, Expires, Logout
    <3>2. CASE ProviderEnds
      BY <3>2 DEF ProviderEnds, FrontchannelLogout, BackchannelLogout
    <3>3. ASSUME NEW m \in Mails, Mailed(m)
          PROVE  VerifyEmail(m) \/ UNCHANGED <<verified, grants>>
      BY <3>3
      DEF Mailed, RequestAccountToken, StoreAccountToken, AccountTokenLost, ResetPassword,
          MailExpires
    <3>4. ASSUME NEW s \in Users, Changes(s)
          PROVE  UNCHANGED <<verified, grants>>
      BY <3>4
      DEF Changes, ChangePassword, WriteHash, RevokeSessions, ChangeLost, DeactivateUser
    <3>5. CASE UNCHANGED vars
      BY <3>5 DEF vars
    <3> QED
      BY <3>1, <3>2, <3>3, <3>4, <3>5 DEF Next
  <2> QED
    BY <2>1, <2>2, <2>3
<1> QED
  BY <1>1, <1>2, ChainsSafe, PTL DEF Spec
=============================================================================
