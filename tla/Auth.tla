-------------------------------- MODULE Auth --------------------------------
(***************************************************************************)
(* Personal links, browser sessions and the second factor of one user:      *)
(* routers/auth.py on top of core/auth.py.  A personal link is exchanged    *)
(* once for a session; an administrator's session is stepped up by a        *)
(* challenge that is verified under the row lock of the challenge.          *)
(*                                                                          *)
(* Only the link, the challenge and the recovery code are locked.  The      *)
(* session row is read at the start of a request and written from what was  *)
(* read; SQLAlchemy writes those columns only that differ from the loaded   *)
(* ones (Flushed).  Credentials and signatures are abstracted: a proof is   *)
(* right or wrong, and the rate limiter, when it refuses, changes nothing.  *)
(***************************************************************************)
EXTENDS Naturals, FiniteSets

CONSTANTS
  Links, Sessions, Challenges, Requests,
  Codes,           \* recovery codes, one for each batch of ten
  LinkTtl,         \* AUTH_MAGIC_LINK_TTL_SECONDS
  IdleTtl,         \* AUTH_SESSION_IDLE_*_SECONDS
  AbsoluteTtl,     \* AUTH_SESSION_ABSOLUTE_SECONDS
  ChallengeTtl,    \* AUTH_MFA_CHALLENGE_TTL_SECONDS, and the window of the limit
  Freshness,       \* AUTH_MFA_FRESHNESS_SECONDS
  MaxAttempts,     \* five attempts per challenge
  ChallengeLimit,  \* five challenges per session and window
  MaxTime          \* bound: the clock

ASSUME AuthAssumption ==
  /\ {LinkTtl, IdleTtl, AbsoluteTtl, ChallengeTtl, Freshness, MaxAttempts,
      ChallengeLimit, MaxTime} \subseteq Nat
  /\ IsFiniteSet(Challenges) /\ IsFiniteSet(Codes)

VARIABLES
  now,
  granted,         \* the user has an EVENT_ADMIN or DATA_REVIEWER grant
  link,            \* [Links -> row of personal_access_link]
  session,         \* [Sessions -> row of auth_session]
  challenge,       \* [Challenges -> row of mfa_challenge]
  authenticators,  \* the methods the user has enrolled
  code,            \* [Codes -> {"absent", "unused", "used"}]
  admitted,        \* sessions that passed require_roles(..., fresh_mfa)
  request          \* [Requests -> what a request in progress has read]

vars == <<now, granted, link, session, challenge, authenticators, code,
          admitted, request>>

Method     == {"WEBAUTHN", "TOTP", "RECOVERY_CODE"}
Enrollable == {"WEBAUTHN", "TOTP"}

Link == [status : {"none", "active", "consumed", "revoked"}, expires_at : Nat]

Session == [link : Links,
            state : {"AUTHENTICATED", "MFA_PENDING", "MFA_ENROLLMENT_REQUIRED"},
            authn_level : {"AAL1", "AAL2"}, amr : SUBSET Method, mfa_at : Nat,
            idle_expires_at : Nat, absolute_expires_at : Nat, revoked : BOOLEAN]

Challenge == [session : Sessions, purpose : {"ENROLLMENT", "STEP_UP"},
              method : Method, attempts : Nat, created_at : Nat,
              expires_at : Nat, consumed : BOOLEAN]

None == [none |-> TRUE]

\* A request: exchanging a link (it holds the link's lock), authenticated (it
\* has the session row in memory), or verifying (it holds a challenge's lock).
Request ==
  {None} \cup [kind : {"exchange"}, link : Links, state : {"AUTHENTICATED",
               "MFA_PENDING", "MFA_ENROLLMENT_REQUIRED"}]
         \cup [kind : {"open"}, session : Sessions, seen : Session]
         \cup [kind : {"verify"}, session : Sessions, seen : Session,
               challenge : Challenges, has_codes : BOOLEAN]

TypeOK ==
  /\ now \in 0..MaxTime /\ granted \in BOOLEAN
  /\ link \in [Links -> Link]
  /\ session \in [Sessions -> Session \cup {None}]
  /\ challenge \in [Challenges -> Challenge \cup {None}]
  /\ authenticators \subseteq Enrollable
  /\ code \in [Codes -> {"absent", "unused", "used"}]
  /\ admitted \subseteq Sessions
  /\ request \in [Requests -> Request]

\* A new user, or one that enrolled a factor in an earlier session.
Init ==
  /\ now = 0 /\ granted \in BOOLEAN
  /\ link = [l \in Links |-> [status |-> "none", expires_at |-> 0]]
  /\ session = [s \in Sessions |-> None]
  /\ challenge = [c \in Challenges |-> None]
  /\ admitted = {}
  /\ \/ authenticators = {} /\ code = [k \in Codes |-> "absent"]
     \/ /\ authenticators = {"WEBAUTHN"}
        /\ \E k \in Codes :
             code = [j \in Codes |-> IF j = k THEN "unused" ELSE "absent"]
  /\ request = [r \in Requests |-> None]

Smaller(a, b) == IF a <= b THEN a ELSE b

\* Mutant: the link is read without FOR UPDATE.
LinkLockedNever(l) == FALSE

LinkLocked(l) == \E r \in Requests :
  request[r] # None /\ request[r].kind = "exchange" /\ request[r].link = l
ChallengeLocked(c) == \E r \in Requests :
  request[r] # None /\ request[r].kind = "verify" /\ request[r].challenge = c

-----------------------------------------------------------------------------
(* Personal links.                                                          *)

Live(l) == link[l].status = "active" /\ now < link[l].expires_at

\* The links of the same path that are still good are revoked; the UPDATE
\* waits for one that is being exchanged.
IssueLink(l) ==
  /\ link[l].status = "none"
  /\ \A k \in Links : Live(k) => ~LinkLocked(k)
  /\ link' = [k \in Links |->
       IF k = l THEN [status |-> "active", expires_at |-> now + LinkTtl]
       ELSE IF Live(k) THEN [link[k] EXCEPT !.status = "revoked"] ELSE link[k]]
  /\ UNCHANGED <<now, granted, session, challenge, authenticators, code,
                 admitted, request>>

\* SELECT ... FOR UPDATE of the link, its checks, and what the session's first
\* state depends on.
BeginExchange(r, l) ==
  /\ request[r] = None
  /\ ~LinkLocked(l)
  /\ Live(l)
  /\ request' = [request EXCEPT ![r] =
       [kind |-> "exchange", link |-> l,
        state |-> IF ~granted THEN "AUTHENTICATED"
                  ELSE IF authenticators # {} THEN "MFA_PENDING"
                  ELSE "MFA_ENROLLMENT_REQUIRED"]]
  /\ UNCHANGED <<now, granted, link, session, challenge, authenticators, code,
                 admitted>>

CommitExchange(r, s) ==
  /\ request[r] # None /\ request[r].kind = "exchange"
  /\ session[s] = None
  /\ session' = [session EXCEPT ![s] =
       [link |-> request[r].link, state |-> request[r].state,
        authn_level |-> "AAL1", amr |-> {}, mfa_at |-> 0,
        idle_expires_at |-> now + IdleTtl,
        absolute_expires_at |-> now + AbsoluteTtl, revoked |-> FALSE]]
  /\ link' = [link EXCEPT ![request[r].link].status = "consumed"]
  /\ request' = [request EXCEPT ![r] = None]
  /\ UNCHANGED <<now, granted, challenge, authenticators, code, admitted>>

-----------------------------------------------------------------------------
(* Authenticated requests.                                                  *)

Alive(s) ==
  /\ session[s] # None /\ ~session[s].revoked
  /\ now < session[s].idle_expires_at /\ now < session[s].absolute_expires_at

\* A read of the session moves its idle expiry.
Slid(row) == [row EXCEPT !.idle_expires_at =
                Smaller(now + IdleTtl, row.absolute_expires_at)]

\* _browser_principal: the session is read (without a lock) and slid.
Open(r, s) ==
  /\ request[r] = None
  /\ Alive(s)
  /\ session' = [session EXCEPT ![s] = Slid(@)]
  /\ request' = [request EXCEPT ![r] =
       [kind |-> "open", session |-> s, seen |-> Slid(session[s])]]
  /\ UNCHANGED <<now, granted, link, challenge, authenticators, code, admitted>>

\* A request that finds the session expired revokes it.
RevokeExpired(s) ==
  /\ session[s] # None /\ ~session[s].revoked /\ ~Alive(s)
  /\ session' = [session EXCEPT ![s].revoked = TRUE]
  /\ UNCHANGED <<now, granted, link, challenge, authenticators, code, admitted,
                 request>>

\* A request for a privileged role: the grants are visible at AAL2 only, and
\* the factor must be recent.
Admit(s) ==
  /\ Alive(s) /\ granted
  /\ session[s].authn_level = "AAL2"
  /\ now <= session[s].mfa_at + Freshness
  /\ admitted' = admitted \cup {s}
  /\ session' = [session EXCEPT ![s] = Slid(@)]
  /\ UNCHANGED <<now, granted, link, challenge, authenticators, code, request>>

Logout(r) ==
  /\ request[r] # None /\ request[r].kind = "open"
  /\ session' = [session EXCEPT ![request[r].session].revoked = TRUE]
  /\ request' = [request EXCEPT ![r] = None]
  /\ UNCHANGED <<now, granted, link, challenge, authenticators, code, admitted>>

\* The client goes away, or the handler refuses: locks are released.
Abandon(r) ==
  /\ request[r] # None
  /\ request' = [request EXCEPT ![r] = None]
  /\ UNCHANGED <<now, granted, link, session, challenge, authenticators, code,
                 admitted>>

NewChallenge(r, c, purpose, m) ==
  /\ request[r] # None /\ request[r].kind = "open"
  /\ challenge[c] = None
  /\ granted
  /\ challenge' = [challenge EXCEPT ![c] =
       [session |-> request[r].session, purpose |-> purpose, method |-> m,
        attempts |-> 0, created_at |-> now, expires_at |-> now + ChallengeTtl,
        consumed |-> FALSE]]
  /\ request' = [request EXCEPT ![r] = None]
  /\ UNCHANGED <<now, granted, link, session, authenticators, code, admitted>>

StartEnrollment(r, c, m) == m \in Enrollable /\ NewChallenge(r, c, "ENROLLMENT", m)

\* _rate_limit_challenges counts what is committed.
StartChallenge(r, c, m) ==
  /\ request[r] # None /\ request[r].kind = "open"
  /\ Cardinality({d \in Challenges : /\ challenge[d] # None
                                     /\ challenge[d].session = request[r].session
                                     /\ now <= challenge[d].created_at + ChallengeTtl})
       < ChallengeLimit
  /\ IF m = "RECOVERY_CODE" THEN \E k \in Codes : code[k] = "unused"
                            ELSE m \in authenticators
  /\ NewChallenge(r, c, "STEP_UP", m)

-----------------------------------------------------------------------------
(* Verification of a challenge.                                             *)

\* Mutant: one attempt too many.
AnswerableOnceMore(c) ==
  ~challenge[c].consumed /\ now < challenge[c].expires_at
    /\ challenge[c].attempts <= MaxAttempts

Answerable(c) ==
  ~challenge[c].consumed /\ now < challenge[c].expires_at
    /\ challenge[c].attempts < MaxAttempts

\* SELECT ... FOR UPDATE of the challenge; the count of codes is read unlocked.
BeginVerify(r, c) ==
  /\ request[r] # None /\ request[r].kind = "open"
  /\ challenge[c] # None /\ challenge[c].session = request[r].session
  /\ ~ChallengeLocked(c)
  /\ Answerable(c)
  /\ request' = [request EXCEPT ![r] =
       [kind |-> "verify", session |-> @.session, seen |-> @.seen,
        challenge |-> c, has_codes |-> \E k \in Codes : code[k] # "absent"]]
  /\ UNCHANGED <<now, granted, link, session, challenge, authenticators, code,
                 admitted>>

\* A wrong proof: only the attempt is committed.
VerifyWrong(r) ==
  /\ request[r] # None /\ request[r].kind = "verify"
  /\ challenge' = [challenge EXCEPT ![request[r].challenge].attempts = @ + 1]
  /\ request' = [request EXCEPT ![r] = None]
  /\ UNCHANGED <<now, granted, link, session, authenticators, code, admitted>>

\* Mutant: a one-time password establishes AAL2, too.
EstablishesAal2Always(m) == TRUE

\* mfa_establishes_aal2 of a session that began with a link: a one-time
\* password counts only on top of a password or OIDC.
EstablishesAal2(m) == m \in {"WEBAUTHN", "RECOVERY_CODE"}

\* What the handler makes of the session row it has in memory.
Stepped(row, m) ==
  [row EXCEPT !.amr = @ \cup {m},
              !.authn_level = IF EstablishesAal2(m) THEN "AAL2" ELSE "AAL1",
              !.state = IF EstablishesAal2(m) THEN "AUTHENTICATED" ELSE "MFA_PENDING",
              !.mfa_at = IF EstablishesAal2(m) THEN now ELSE @,
              !.idle_expires_at = Smaller(now + IdleTtl, row.absolute_expires_at)]

\* Mutant: every column is written, changed or not.
FlushedWhole(row, seen, new) == new

\* The UPDATE of the flush: the columns the handler has changed.
Flushed(row, seen, new) ==
  [f \in DOMAIN row |-> IF new[f] = seen[f] THEN row[f] ELSE new[f]]

\* Mutant: a code is accepted whether or not it was used.
UsableCodeAny == {k \in Codes : code[k] # "absent"}

\* The code row is selected FOR UPDATE with used_at IS NULL.
UsableCode == {k \in Codes : code[k] = "unused"}

\* The first enrollment of a user issues a batch of codes.
Issued(r) ==
  IF challenge[request[r].challenge].purpose = "ENROLLMENT" /\ ~request[r].has_codes
    THEN \E k \in Codes : code[k] = "absent" /\ code' = [code EXCEPT ![k] = "unused"]
    ELSE code' = code

VerifyRight(r) ==
  /\ request[r] # None /\ request[r].kind = "verify"
  /\ LET q == request[r]
         m == challenge[q.challenge].method
     IN  /\ IF challenge[q.challenge].purpose = "ENROLLMENT"
              THEN authenticators' = authenticators \cup {m} /\ Issued(r)
              ELSE /\ authenticators' = authenticators
                   /\ IF m = "RECOVERY_CODE"
                        THEN \E k \in UsableCode : code' = [code EXCEPT ![k] = "used"]
                        ELSE m \in authenticators /\ code' = code
         /\ challenge' = [challenge EXCEPT ![q.challenge].attempts = @ + 1,
                                           ![q.challenge].consumed = TRUE]
         /\ session' = [session EXCEPT ![q.session] =
              Flushed(@, q.seen, Stepped(q.seen, m))]
  /\ request' = [request EXCEPT ![r] = None]
  /\ UNCHANGED <<now, granted, link, admitted>>

-----------------------------------------------------------------------------
(* The environment.                                                         *)

Tick == now < MaxTime /\ now' = now + 1 /\ UNCHANGED <<granted, link, session,
          challenge, authenticators, code, admitted, request>>

\* An operator gives or takes a grant.
SetGrant == granted' = ~granted /\ UNCHANGED <<now, link, session, challenge,
              authenticators, code, admitted, request>>

Next ==
  \/ \E l \in Links : IssueLink(l)
  \/ \E r \in Requests, l \in Links : BeginExchange(r, l)
  \/ \E r \in Requests, s \in Sessions : CommitExchange(r, s) \/ Open(r, s)
  \/ \E s \in Sessions : RevokeExpired(s) \/ Admit(s)
  \/ \E r \in Requests : Logout(r) \/ Abandon(r) \/ VerifyWrong(r) \/ VerifyRight(r)
  \/ \E r \in Requests, c \in Challenges, m \in Method :
       StartEnrollment(r, c, m) \/ StartChallenge(r, c, m)
  \/ \E r \in Requests, c \in Challenges : BeginVerify(r, c)
  \/ Tick \/ SetGrant

Spec == Init /\ [][Next]_vars

-----------------------------------------------------------------------------
(* Properties.                                                              *)

\* A personal link opens one session at most, however many exchanges of it
\* overlap, and a link that was revoked opens none.
OneSessionPerLink ==
  /\ \A s, t \in Sessions :
       s # t /\ session[s] # None /\ session[t] # None
         => session[s].link # session[t].link
  /\ \A s \in Sessions :
       session[s] # None => link[session[s].link].status = "consumed"

\* Although the session is written from an unlocked read, its level is AAL2
\* only if a factor that counts was verified in this very session.
FactorBehindAal2 ==
  \A s \in Sessions : session[s] # None /\ session[s].authn_level = "AAL2" =>
    \E c \in Challenges :
      /\ challenge[c] # None /\ challenge[c].session = s /\ challenge[c].consumed
      /\ challenge[c].method \in {"WEBAUTHN", "RECOVERY_CODE"}

\* Every recovery code that is used up has let in one challenge, and no other.
RecoveryOnce ==
  Cardinality({c \in Challenges : /\ challenge[c] # None /\ challenge[c].consumed
                                  /\ challenge[c].method = "RECOVERY_CODE"})
    = Cardinality({k \in Codes : code[k] = "used"})

\* A challenge is answered at most MaxAttempts times, also by requests that
\* overlap.
AttemptsBounded ==
  \A c \in Challenges : challenge[c] # None => challenge[c].attempts <= MaxAttempts

\* A verification that had read the session before its logout does not bring
\* the session back, nor does anything else.
RevokedIsFinal ==
  [][\A s \in Sessions :
       session[s] # None /\ session[s].revoked => session'[s].revoked]_vars

=============================================================================
