----------------------------- MODULE AuthProofs -----------------------------
(***************************************************************************)
(* Proofs about Auth, for any number of links, sessions, challenges and     *)
(* requests, any durations and any clock.                                   *)
(*                                                                          *)
(* The argument is that of the row locks.  A request that exchanges a link  *)
(* or verifies a challenge is the only one that does, and what it checked   *)
(* of the row still holds when it commits, expiry aside; the session row is *)
(* not locked, and none of the properties relies on what was read of it.    *)
(***************************************************************************)
EXTENDS Auth, FiniteSetTheorems, TLAPS

Is(r, k) == request[r] # None /\ request[r].kind = k

\* A link that is being exchanged is active, and is exchanged by one request.
LinksHeld ==
  \A r \in Requests : Is(r, "exchange") =>
    /\ link[request[r].link].status = "active"
    /\ \A q \in Requests : Is(q, "exchange") /\ request[q].link = request[r].link => q = r

\* A challenge that is being verified belongs to the session of the request,
\* may still be answered, time aside, and is verified by one request.
ChallengesHeld ==
  \A r \in Requests : Is(r, "verify") =>
    /\ challenge[request[r].challenge] # None
    /\ challenge[request[r].challenge].session = request[r].session
    /\ ~challenge[request[r].challenge].consumed
    /\ challenge[request[r].challenge].attempts < MaxAttempts
    /\ \A q \in Requests :
         Is(q, "verify") /\ request[q].challenge = request[r].challenge => q = r

\* A request that has read a session has read one that exists.
SessionsRead ==
  \A r \in Requests : Is(r, "open") \/ Is(r, "verify") => session[request[r].session] # None

\* Recovery codes are not enrolled.
CodesNotEnrolled ==
  \A c \in Challenges : challenge[c] # None /\ challenge[c].purpose = "ENROLLMENT" =>
    challenge[c].method \in Enrollable

IInv ==
  /\ TypeOK /\ LinksHeld /\ ChallengesHeld /\ SessionsRead /\ CodesNotEnrolled
  /\ OneSessionPerLink /\ FactorBehindAal2 /\ RecoveryOnce /\ AttemptsBounded

-----------------------------------------------------------------------------
(* The types of rows and requests.                                          *)

\* What is not None is a row.
LEMMA RowTypes ==
  ASSUME TypeOK
  PROVE  /\ None \notin Session /\ None \notin Challenge
         /\ \A s \in Sessions : session[s] # None <=> session[s] \in Session
         /\ \A c \in Challenges : challenge[c] # None <=> challenge[c] \in Challenge
<1>1. None \notin Session
  BY DEF None, Session
<1>2. None \notin Challenge
  BY DEF None, Challenge
<1> QED
  BY <1>1, <1>2 DEF TypeOK

LEMMA RequestTypes ==
  ASSUME TypeOK, NEW r \in Requests
  PROVE  /\ Is(r, "exchange") => /\ request[r].link \in Links
                                 /\ request[r].state \in {"AUTHENTICATED", "MFA_PENDING",
                                                          "MFA_ENROLLMENT_REQUIRED"}
         /\ Is(r, "open") => request[r].session \in Sessions /\ request[r].seen \in Session
         /\ Is(r, "verify") => /\ request[r].session \in Sessions /\ request[r].seen \in Session
                               /\ request[r].challenge \in Challenges
                               /\ request[r].has_codes \in BOOLEAN
<1>1. request[r] \in Request
  BY DEF TypeOK
<1>2. CASE request[r] = None
  BY <1>2 DEF Is
<1>3. CASE request[r] \in [kind : {"exchange"}, link : Links, state : {"AUTHENTICATED",
               "MFA_PENDING", "MFA_ENROLLMENT_REQUIRED"}]
  BY <1>3 DEF Is
<1>4. CASE request[r] \in [kind : {"open"}, session : Sessions, seen : Session]
  BY <1>4 DEF Is
<1>5. CASE request[r] \in [kind : {"verify"}, session : Sessions, seen : Session,
               challenge : Challenges, has_codes : BOOLEAN]
  BY <1>5 DEF Is
<1> QED
  BY <1>1, <1>2, <1>3, <1>4, <1>5 DEF Request

\* The three kinds of request are requests, and none is None.
LEMMA RequestMade ==
  /\ None \in Request
  /\ \A l \in Links, t \in {"AUTHENTICATED", "MFA_PENDING", "MFA_ENROLLMENT_REQUIRED"} :
       [kind |-> "exchange", link |-> l, state |-> t] \in Request \ {None}
  /\ \A s \in Sessions, x \in Session :
       [kind |-> "open", session |-> s, seen |-> x] \in Request \ {None}
  /\ \A s \in Sessions, x \in Session, c \in Challenges, b \in BOOLEAN :
       [kind |-> "verify", session |-> s, seen |-> x, challenge |-> c, has_codes |-> b]
         \in Request \ {None}
<1>1. \A l \in Links, t \in {"AUTHENTICATED", "MFA_PENDING", "MFA_ENROLLMENT_REQUIRED"} :
        [kind |-> "exchange", link |-> l, state |-> t] # None
  BY DEF None
<1>2. \A s \in Sessions, x \in Session : [kind |-> "open", session |-> s, seen |-> x] # None
  BY DEF None
<1>3. \A s \in Sessions, x \in Session, c \in Challenges, b \in BOOLEAN :
        [kind |-> "verify", session |-> s, seen |-> x, challenge |-> c, has_codes |-> b] # None
  BY DEF None
<1> QED
  BY <1>1, <1>2, <1>3 DEF Request

LEMMA Durations ==
  /\ LinkTtl \in Nat /\ IdleTtl \in Nat /\ AbsoluteTtl \in Nat /\ ChallengeTtl \in Nat
  /\ Freshness \in Nat /\ MaxAttempts \in Nat /\ ChallengeLimit \in Nat /\ MaxTime \in Nat
BY AuthAssumption

\* A session that is slid is a session of the same link and level.
LEMMA SlidRow ==
  ASSUME TypeOK, NEW row \in Session
  PROVE  /\ Slid(row) \in Session /\ Slid(row).link = row.link
         /\ Slid(row).authn_level = row.authn_level /\ Slid(row).revoked = row.revoked
<1>1. now \in Nat
  BY Durations DEF TypeOK
<1>2. row.absolute_expires_at \in Nat
  BY DEF Session
<1>3. Smaller(now + IdleTtl, row.absolute_expires_at) \in Nat
  BY <1>1, <1>2, Durations DEF Smaller
<1> QED
  BY <1>3 DEF Slid, Session

\* What the handler writes of a session: the link stays, the revocation stays,
\* and the level is AAL2 only if it was, or if the method establishes it.
LEMMA FlushedRow ==
  ASSUME TypeOK, NEW row \in Session, NEW seen \in Session, NEW m \in Method
  PROVE  LET w == Flushed(row, seen, Stepped(seen, m))
         IN  /\ w \in Session /\ w.link = row.link /\ w.revoked = row.revoked
             /\ w.authn_level = "AAL2" => row.authn_level = "AAL2" \/ EstablishesAal2(m)
<1>. DEFINE new == Stepped(seen, m)
            w == Flushed(row, seen, new)
<1>1. now \in Nat
  BY Durations DEF TypeOK
<1>2. seen.absolute_expires_at \in Nat
  BY DEF Session
<1>3. Smaller(now + IdleTtl, seen.absolute_expires_at) \in Nat
  BY <1>1, <1>2, Durations DEF Smaller
<1>4. /\ new \in Session /\ new.link = seen.link /\ new.revoked = seen.revoked
      /\ new.authn_level = IF EstablishesAal2(m) THEN "AAL2" ELSE "AAL1"
  BY <1>1, <1>3 DEF Stepped, Session
<1> HIDE DEF new
<1>5. w = [f \in DOMAIN row |-> IF new[f] = seen[f] THEN row[f] ELSE new[f]]
  BY DEF Flushed
<1> HIDE DEF w
<1>6. DOMAIN row = {"link", "state", "authn_level", "amr", "mfa_at", "idle_expires_at",
                    "absolute_expires_at", "revoked"}
  BY DEF Session
<1>7. \A f \in DOMAIN row : w[f] \in {row[f], new[f]}
  BY <1>5
<1>8. /\ w.link \in Links /\ w.state \in {"AUTHENTICATED", "MFA_PENDING", "MFA_ENROLLMENT_REQUIRED"}
      /\ w.authn_level \in {"AAL1", "AAL2"} /\ w.amr \in SUBSET Method /\ w.mfa_at \in Nat
      /\ w.idle_expires_at \in Nat /\ w.absolute_expires_at \in Nat /\ w.revoked \in BOOLEAN
  BY <1>4, <1>6, <1>7 DEF Session
<1>9. w \in Session
  BY <1>5, <1>6, <1>8 DEF Session
<1>10. w.link = row.link /\ w.revoked = row.revoked
  BY <1>4, <1>5, <1>6
<1>11. w.authn_level \in {row.authn_level, new.authn_level}
  BY <1>6, <1>7
<1> QED
  BY <1>4, <1>9, <1>10, <1>11 DEF w, new

-----------------------------------------------------------------------------
(* What the parts of the invariant rest on.                                 *)

\* A request ends, or gives way to another one of the same client.
LEMMA RequestEnds ==
  ASSUME TypeOK, NEW r \in Requests, request' = [request EXCEPT ![r] = None]
  PROVE  /\ request' \in [Requests -> Request]
         /\ \A q \in Requests \ {r} : request'[q] = request[q]
         /\ \A k : ~Is(r, k)'
         /\ \A q \in Requests \ {r} : \A k : Is(q, k)' <=> Is(q, k)
<1>1. /\ request' \in [Requests -> Request] /\ request'[r] = None
      /\ \A q \in Requests \ {r} : request'[q] = request[q]
  BY RequestMade DEF TypeOK
<1> QED
  BY <1>1 DEF Is

LEMMA RequestTaken ==
  ASSUME TypeOK, NEW r \in Requests, NEW x \in Request \ {None},
         request' = [request EXCEPT ![r] = x]
  PROVE  /\ request' \in [Requests -> Request] /\ request'[r] = x
         /\ \A q \in Requests \ {r} : request'[q] = request[q]
         /\ \A k : Is(r, k)' <=> x.kind = k
         /\ \A q \in Requests \ {r} : \A k : Is(q, k)' <=> Is(q, k)
<1>1. /\ request' \in [Requests -> Request] /\ request'[r] = x
      /\ \A q \in Requests \ {r} : request'[q] = request[q]
  BY DEF TypeOK
<1> QED
  BY <1>1 DEF Is

\* A step at the end of which no request holds more than it did.
LEMMA LocksKept ==
  ASSUME LinksHeld, ChallengesHeld, SessionsRead,
         \A q \in Requests : request'[q] = request[q] \/ request'[q] = None
  PROVE  /\ (UNCHANGED link) => LinksHeld'
         /\ (UNCHANGED challenge) => ChallengesHeld'
         /\ (\A s \in Sessions : session[s] # None => session'[s] # None)
              /\ TypeOK => SessionsRead'
<1>1. \A q \in Requests : \A k \in {"exchange", "verify", "open"} :
        Is(q, k)' => Is(q, k) /\ request'[q] = request[q]
  BY DEF Is
<1>2. (UNCHANGED link) => LinksHeld'
  BY <1>1 DEF LinksHeld
<1>3. (UNCHANGED challenge) => ChallengesHeld'
  BY <1>1 DEF ChallengesHeld
<1>4. ASSUME TypeOK, \A s \in Sessions : session[s] # None => session'[s] # None
      PROVE  SessionsRead'
  BY <1>1, <1>4, RequestTypes DEF SessionsRead
<1> QED
  BY <1>2, <1>3, <1>4

\* A step that leaves challenges and codes alone.
LEMMA ChallengesUntouched ==
  ASSUME IInv, UNCHANGED <<challenge, code>>
  PROVE  CodesNotEnrolled' /\ RecoveryOnce' /\ AttemptsBounded'
BY DEF IInv, CodesNotEnrolled, RecoveryOnce, AttemptsBounded

\* One session row is written: a row of the same link.
LEMMA RowWritten ==
  ASSUME TypeOK, OneSessionPerLink, NEW s \in Sessions, session[s] # None,
         NEW row \in Session, row.link = session[s].link,
         session' = [session EXCEPT ![s] = row], UNCHANGED link
  PROVE  /\ session' \in [Sessions -> Session \cup {None}] /\ session'[s] = row
         /\ \A t \in Sessions \ {s} : session'[t] = session[t]
         /\ \A t \in Sessions : session'[t] # None <=> session[t] # None
         /\ OneSessionPerLink'
<1>1. /\ session' \in [Sessions -> Session \cup {None}] /\ session'[s] = row
      /\ \A t \in Sessions \ {s} : session'[t] = session[t]
  BY DEF TypeOK
<1>2. row # None
  BY RowTypes
<1>3. \A t \in Sessions : /\ session'[t] # None <=> session[t] # None
                          /\ session'[t].link = session[t].link
  BY <1>1, <1>2
<1>4. OneSessionPerLink'
  BY <1>3 DEF OneSessionPerLink
<1> QED
  BY <1>1, <1>3, <1>4

\* A session that is at AAL2 was, or has its factor now; consumed challenges
\* stay as they are.
LEMMA FactorsKept ==
  ASSUME FactorBehindAal2,
         \A c \in Challenges : challenge[c] # None /\ challenge[c].consumed => challenge'[c] = challenge[c],
         \A s \in Sessions : session'[s] # None /\ session'[s].authn_level = "AAL2" =>
           \/ session[s] # None /\ session[s].authn_level = "AAL2"
           \/ \E c \in Challenges :
                /\ challenge'[c] # None /\ challenge'[c].session = s /\ challenge'[c].consumed
                /\ challenge'[c].method \in {"WEBAUTHN", "RECOVERY_CODE"}
  PROVE  FactorBehindAal2'
<1> SUFFICES ASSUME NEW s \in Sessions, session'[s] # None, session'[s].authn_level = "AAL2"
             PROVE  \E c \in Challenges :
                      /\ challenge'[c] # None /\ challenge'[c].session = s /\ challenge'[c].consumed
                      /\ challenge'[c].method \in {"WEBAUTHN", "RECOVERY_CODE"}
  BY DEF FactorBehindAal2
<1>1. CASE session[s] # None /\ session[s].authn_level = "AAL2"
  BY <1>1 DEF FactorBehindAal2
<1> QED
  BY <1>1

-----------------------------------------------------------------------------
(* The steps.                                                               *)

LEMMA IssueLinkIInv ==
  ASSUME IInv, NEW l \in Links, IssueLink(l)
  PROVE  IInv'
<1>0. TypeOK /\ LinksHeld /\ OneSessionPerLink
  BY DEF IInv
<1>1. UNCHANGED <<now, granted, session, challenge, authenticators, code, admitted, request>>
  BY DEF IssueLink
<1>2. ASSUME NEW k \in Links
      PROVE  /\ link'[k] \in Link
             /\ link[k].status = "consumed" => link'[k] = link[k]
             /\ LinkLocked(k) /\ link[k].status = "active" => link'[k] = link[k]
  <2>1. link'[k] = IF k = l THEN [status |-> "active", expires_at |-> now + LinkTtl]
                   ELSE IF Live(k) THEN [link[k] EXCEPT !.status = "revoked"] ELSE link[k]
    BY DEF IssueLink
  <2>2. link[k] \in Link /\ now + LinkTtl \in Nat
    BY <1>0, Durations DEF TypeOK
  <2>3. link'[k] \in Link
    BY <2>1, <2>2 DEF Link
  <2>4. link[l].status = "none" /\ (Live(k) => link[k].status = "active" /\ ~LinkLocked(k))
    BY DEF IssueLink, Live
  <2> QED
    BY <2>1, <2>3, <2>4
<1>3. link' \in [Links -> Link]
  BY <1>2 DEF IssueLink
<1>4. TypeOK'
  BY <1>0, <1>1, <1>3 DEF TypeOK
<1>5. LinksHeld'
  <2>1. ASSUME NEW r \in Requests, Is(r, "exchange")
        PROVE  link'[request[r].link] = link[request[r].link]
    BY <1>0, <1>2, <2>1, RequestTypes DEF LinksHeld, LinkLocked, Is
  <2> QED
    BY <1>0, <1>1, <2>1 DEF LinksHeld, Is
<1>6. ChallengesHeld' /\ SessionsRead'
  BY <1>0, <1>1, LocksKept DEF IInv
<1>7. CodesNotEnrolled' /\ RecoveryOnce' /\ AttemptsBounded'
  BY <1>1, ChallengesUntouched
<1>8. OneSessionPerLink'
  <2>1. \A s \in Sessions : session[s] # None => session[s].link \in Links
    BY <1>0, RowTypes DEF Session
  <2> QED
    BY <1>0, <1>1, <1>2, <2>1 DEF OneSessionPerLink
<1>9. FactorBehindAal2'
  BY <1>1, FactorsKept DEF IInv
<1> QED
  BY <1>4, <1>5, <1>6, <1>7, <1>8, <1>9 DEF IInv

LEMMA BeginExchangeIInv ==
  ASSUME IInv, NEW r \in Requests, NEW l \in Links, BeginExchange(r, l)
  PROVE  IInv'
<1>0. TypeOK /\ LinksHeld /\ ChallengesHeld /\ SessionsRead /\ OneSessionPerLink
  BY DEF IInv
<1>1. UNCHANGED <<now, granted, link, session, challenge, authenticators, code, admitted>>
  BY DEF BeginExchange
<1>2. PICK x \in Request \ {None} :
        request' = [request EXCEPT ![r] = x] /\ x.kind = "exchange" /\ x.link = l
  BY RequestMade DEF BeginExchange
<1>3. /\ request' \in [Requests -> Request] /\ request'[r] = x /\ Is(r, "exchange")'
      /\ ~Is(r, "open")' /\ ~Is(r, "verify")'
      /\ \A q \in Requests \ {r} : request'[q] = request[q]
      /\ \A q \in Requests \ {r} : \A k : Is(q, k)' <=> Is(q, k)
  <2>1. /\ request' \in [Requests -> Request] /\ request'[r] = x
        /\ \A q \in Requests \ {r} : request'[q] = request[q]
        /\ \A k : Is(r, k)' <=> x.kind = k
        /\ \A q \in Requests \ {r} : \A k : Is(q, k)' <=> Is(q, k)
    BY <1>0, <1>2, RequestTaken
  <2> QED
    BY <1>2, <2>1
<1>4. TypeOK'
  BY <1>0, <1>1, <1>3 DEF TypeOK
<1>5. LinksHeld'
  <2>1. \A q \in Requests : Is(q, "exchange") => request[q].link # l
    BY DEF BeginExchange, LinkLocked, Is
  <2>2. link[l].status = "active"
    BY DEF BeginExchange, Live
  <2>3. ASSUME NEW q \in Requests, Is(q, "exchange")'
        PROVE  /\ link[request'[q].link].status = "active"
               /\ \A p \in Requests : Is(p, "exchange")' /\ request'[p].link = request'[q].link => p = q
    BY <1>0, <1>2, <1>3, <2>1, <2>2, <2>3 DEF LinksHeld
  <2> QED
    BY <1>1, <2>3 DEF LinksHeld
<1>6. ChallengesHeld'
  BY <1>0, <1>1, <1>3 DEF ChallengesHeld
<1>7. SessionsRead'
  BY <1>0, <1>1, <1>3 DEF SessionsRead
<1>8. CodesNotEnrolled' /\ RecoveryOnce' /\ AttemptsBounded'
  BY <1>1, ChallengesUntouched
<1>9. OneSessionPerLink' /\ FactorBehindAal2'
  <2>1. OneSessionPerLink'
    BY <1>0, <1>1 DEF OneSessionPerLink
  <2>2. FactorBehindAal2'
    BY <1>1, FactorsKept DEF IInv
  <2> QED
    BY <2>1, <2>2
<1> QED
  BY <1>4, <1>5, <1>6, <1>7, <1>8, <1>9 DEF IInv

\* The new session takes the link, which none had.
LEMMA CommitExchangeIInv ==
  ASSUME IInv, NEW r \in Requests, NEW s \in Sessions, CommitExchange(r, s)
  PROVE  IInv'
<1>. DEFINE l == request[r].link
<1>0. TypeOK /\ LinksHeld /\ ChallengesHeld /\ SessionsRead /\ OneSessionPerLink
  BY DEF IInv
<1>1. /\ UNCHANGED <<now, granted, challenge, authenticators, code, admitted>>
      /\ Is(r, "exchange") /\ session[s] = None
  BY DEF CommitExchange, Is
<1>2. l \in Links /\ link[l] \in Link /\ link[l].status = "active"
  BY <1>0, <1>1, RequestTypes DEF TypeOK, LinksHeld
<1>3. PICK row \in Session :
        session' = [session EXCEPT ![s] = row] /\ row.link = l /\ row.authn_level = "AAL1"
  <2>1. now + IdleTtl \in Nat /\ now + AbsoluteTtl \in Nat
    BY <1>0, Durations DEF TypeOK
  <2>2. request[r].state \in {"AUTHENTICATED", "MFA_PENDING", "MFA_ENROLLMENT_REQUIRED"}
    BY <1>0, <1>1, RequestTypes
  <2>3. [link |-> l, state |-> request[r].state, authn_level |-> "AAL1", amr |-> {}, mfa_at |-> 0,
         idle_expires_at |-> now + IdleTtl, absolute_expires_at |-> now + AbsoluteTtl,
         revoked |-> FALSE] \in Session
    BY <1>2, <2>1, <2>2 DEF Session
  <2> QED
    BY <2>3 DEF CommitExchange
<1>4. /\ session' \in [Sessions -> Session \cup {None}] /\ session'[s] = row /\ row # None
      /\ \A t \in Sessions \ {s} : session'[t] = session[t]
  BY <1>0, <1>3, RowTypes DEF TypeOK
<1>5. /\ link' \in [Links -> Link] /\ link'[l].status = "consumed"
      /\ \A k \in Links \ {l} : link'[k] = link[k]
  <2>1. [link[l] EXCEPT !.status = "consumed"] \in Link
    BY <1>2 DEF Link
  <2>2. link' = [link EXCEPT ![l] = [link[l] EXCEPT !.status = "consumed"]]
    BY DEF CommitExchange
  <2>3. [link[l] EXCEPT !.status = "consumed"].status = "consumed"
    BY <1>2 DEF Link
  <2> QED
    BY <1>0, <1>2, <2>1, <2>2, <2>3 DEF TypeOK
<1>6. /\ request' \in [Requests -> Request] /\ (\A k : ~Is(r, k)')
      /\ \A q \in Requests \ {r} : request'[q] = request[q]
      /\ \A q \in Requests \ {r} : \A k : Is(q, k)' <=> Is(q, k)
  BY <1>0, RequestEnds DEF CommitExchange
<1> HIDE DEF l
<1>7. TypeOK'
  BY <1>0, <1>1, <1>4, <1>5, <1>6 DEF TypeOK
<1>8. LinksHeld'
  <2>1. ASSUME NEW q \in Requests, Is(q, "exchange")'
        PROVE  link'[request'[q].link].status = "active"
    <3>1. q # r /\ Is(q, "exchange") /\ request'[q] = request[q]
      BY <1>6, <2>1
    <3>2. request[q].link \in Links /\ request[q].link # l
      BY <1>0, <1>1, <3>1, RequestTypes DEF LinksHeld, l
    <3> QED
      BY <1>0, <1>5, <3>1, <3>2 DEF LinksHeld
  <2>2. ASSUME NEW q \in Requests, Is(q, "exchange")',
               NEW p \in Requests, Is(p, "exchange")', request'[p].link = request'[q].link
        PROVE  p = q
    BY <1>0, <1>6, <2>2 DEF LinksHeld
  <2> QED
    BY <2>1, <2>2 DEF LinksHeld
<1>9. ChallengesHeld' /\ SessionsRead'
  <2>1. \A q \in Requests : request'[q] = request[q] \/ request'[q] = None
    BY <1>0 DEF CommitExchange, TypeOK
  <2>2. \A t \in Sessions : session[t] # None => session'[t] # None
    BY <1>1, <1>4
  <2> QED
    BY <1>0, <1>1, <2>1, <2>2, LocksKept
<1>10. CodesNotEnrolled' /\ RecoveryOnce' /\ AttemptsBounded'
  BY <1>1, ChallengesUntouched
<1>11. OneSessionPerLink'
  <2>1. \A t \in Sessions \ {s} : session'[t] # None =>
          session'[t].link \in Links \ {l} /\ link[session'[t].link].status = "consumed"
    BY <1>0, <1>2, <1>4, RowTypes DEF OneSessionPerLink, Session
  <2>2. session'[s].link = l
    BY <1>3, <1>4
  <2>3. \A t \in Sessions : session'[t] # None => link'[session'[t].link].status = "consumed"
    BY <1>5, <2>1, <2>2
  <2>4. ASSUME NEW t \in Sessions, NEW u \in Sessions, t # u, session'[t] # None, session'[u] # None
        PROVE  session'[t].link # session'[u].link
    BY <1>0, <1>4, <2>1, <2>2, <2>4 DEF OneSessionPerLink
  <2> QED
    BY <2>3, <2>4 DEF OneSessionPerLink
<1>12. FactorBehindAal2'
  <2>1. \A t \in Sessions : session'[t] # None /\ session'[t].authn_level = "AAL2" =>
          session[t] # None /\ session[t].authn_level = "AAL2"
    BY <1>3, <1>4
  <2> QED
    BY <1>1, <2>1, FactorsKept DEF IInv
<1> QED
  BY <1>7, <1>8, <1>9, <1>10, <1>11, <1>12 DEF IInv

\* A session is slid or revoked, and a request may have ended.
LEMMA SessionTouchedIInv ==
  ASSUME IInv, NEW s \in Sessions, session[s] # None, NEW row \in Session,
         row.link = session[s].link, row.authn_level = session[s].authn_level,
         session' = [session EXCEPT ![s] = row],
         \/ UNCHANGED request
         \/ \E r \in Requests : request' = [request EXCEPT ![r] = None],
         UNCHANGED <<now, granted, link, challenge, authenticators, code>>,
         admitted' \subseteq Sessions
  PROVE  IInv'
<1>0. TypeOK /\ LinksHeld /\ ChallengesHeld /\ SessionsRead /\ OneSessionPerLink
  BY DEF IInv
<1>1. /\ session' \in [Sessions -> Session \cup {None}] /\ session'[s] = row
      /\ \A t \in Sessions \ {s} : session'[t] = session[t]
      /\ \A t \in Sessions : session'[t] # None <=> session[t] # None
      /\ OneSessionPerLink'
  BY <1>0, RowWritten
<1>2. /\ request' \in [Requests -> Request]
      /\ \A q \in Requests : request'[q] = request[q] \/ request'[q] = None
  <2>1. CASE UNCHANGED request
    BY <1>0, <2>1 DEF TypeOK
  <2>2. CASE \E r \in Requests : request' = [request EXCEPT ![r] = None]
    BY <1>0, <2>2, RequestMade DEF TypeOK
  <2> QED
    BY <2>1, <2>2
<1>3. TypeOK'
  BY <1>0, <1>1, <1>2 DEF TypeOK
<1>4. LinksHeld' /\ ChallengesHeld' /\ SessionsRead'
  BY <1>0, <1>1, <1>2, LocksKept
<1>5. CodesNotEnrolled' /\ RecoveryOnce' /\ AttemptsBounded'
  BY ChallengesUntouched
<1>6. FactorBehindAal2'
  <2>1. \A t \in Sessions : session'[t] # None /\ session'[t].authn_level = "AAL2" =>
          session[t] # None /\ session[t].authn_level = "AAL2"
    BY <1>1
  <2> QED
    BY <2>1, FactorsKept DEF IInv
<1> QED
  BY <1>1, <1>3, <1>4, <1>5, <1>6 DEF IInv

LEMMA OpenIInv ==
  ASSUME IInv, NEW r \in Requests, NEW s \in Sessions, Open(r, s)
  PROVE  IInv'
<1>0. TypeOK /\ LinksHeld /\ ChallengesHeld /\ SessionsRead /\ OneSessionPerLink
  BY DEF IInv
<1>. DEFINE row == Slid(session[s])
<1>1. session[s] # None /\ session[s] \in Session
  BY <1>0, RowTypes DEF Open, Alive
<1>2. /\ row \in Session /\ row.link = session[s].link
      /\ row.authn_level = session[s].authn_level
  BY <1>0, <1>1, SlidRow
<1>3. session' = [session EXCEPT ![s] = row]
  BY DEF Open
<1>4. PICK x \in Request \ {None} :
        request' = [request EXCEPT ![r] = x] /\ x.kind = "open" /\ x.session = s
  BY <1>2, RequestMade DEF Open
<1>5. UNCHANGED <<now, granted, link, challenge, authenticators, code, admitted>>
  BY DEF Open
<1> HIDE DEF row
<1>6. /\ session' \in [Sessions -> Session \cup {None}] /\ session'[s] = row
      /\ \A t \in Sessions \ {s} : session'[t] = session[t]
      /\ \A t \in Sessions : session'[t] # None <=> session[t] # None
      /\ OneSessionPerLink'
  BY <1>0, <1>1, <1>2, <1>3, <1>5, RowWritten
<1>7. /\ request' \in [Requests -> Request] /\ request'[r] = x
      /\ ~Is(r, "exchange")' /\ ~Is(r, "verify")'
      /\ \A q \in Requests \ {r} : request'[q] = request[q]
      /\ \A q \in Requests \ {r} : \A k : Is(q, k)' <=> Is(q, k)
  BY <1>0, <1>4, RequestTaken
<1>8. TypeOK'
  BY <1>0, <1>5, <1>6, <1>7 DEF TypeOK
<1>9. LinksHeld' /\ ChallengesHeld'
  <2>1. LinksHeld'
    BY <1>0, <1>5, <1>7 DEF LinksHeld
  <2>2. ChallengesHeld'
    BY <1>0, <1>5, <1>7 DEF ChallengesHeld
  <2> QED
    BY <2>1, <2>2
<1>10. SessionsRead'
  BY <1>0, <1>1, <1>4, <1>6, <1>7, RequestTypes DEF SessionsRead
<1>11. CodesNotEnrolled' /\ RecoveryOnce' /\ AttemptsBounded'
  BY <1>5, ChallengesUntouched
<1>12. FactorBehindAal2'
  <2>1. \A t \in Sessions : session'[t] # None /\ session'[t].authn_level = "AAL2" =>
          session[t] # None /\ session[t].authn_level = "AAL2"
    BY <1>2, <1>6
  <2> QED
    BY <1>5, <2>1, FactorsKept DEF IInv
<1> QED
  BY <1>6, <1>8, <1>9, <1>10, <1>11, <1>12 DEF IInv

\* The steps that touch no row, or only end a request.
LEMMA NoRowIInv ==
  ASSUME IInv, UNCHANGED <<link, session, challenge, authenticators, code, admitted>>,
         now' \in 0..MaxTime, granted' \in BOOLEAN,
         \/ UNCHANGED request
         \/ \E r \in Requests : request' = [request EXCEPT ![r] = None]
  PROVE  IInv'
<1>0. TypeOK /\ LinksHeld /\ ChallengesHeld /\ SessionsRead /\ OneSessionPerLink
  BY DEF IInv
<1>1. /\ request' \in [Requests -> Request]
      /\ \A q \in Requests : request'[q] = request[q] \/ request'[q] = None
  <2>1. CASE UNCHANGED request
    BY <1>0, <2>1 DEF TypeOK
  <2>2. CASE \E r \in Requests : request' = [request EXCEPT ![r] = None]
    BY <1>0, <2>2, RequestMade DEF TypeOK
  <2> QED
    BY <2>1, <2>2
<1>2. TypeOK'
  BY <1>0, <1>1 DEF TypeOK
<1>3. LinksHeld' /\ ChallengesHeld' /\ SessionsRead'
  BY <1>0, <1>1, LocksKept
<1>4. CodesNotEnrolled' /\ RecoveryOnce' /\ AttemptsBounded'
  BY ChallengesUntouched
<1>5. OneSessionPerLink' /\ FactorBehindAal2'
  <2>1. OneSessionPerLink'
    BY <1>0 DEF OneSessionPerLink
  <2>2. FactorBehindAal2'
    BY FactorsKept DEF IInv
  <2> QED
    BY <2>1, <2>2
<1> QED
  BY <1>2, <1>3, <1>4, <1>5 DEF IInv

LEMMA NewChallengeIInv ==
  ASSUME IInv, NEW r \in Requests, NEW c \in Challenges, NEW m \in Method,
         NEW purpose \in {"ENROLLMENT", "STEP_UP"}, NewChallenge(r, c, purpose, m),
         purpose = "ENROLLMENT" => m \in Enrollable
  PROVE  IInv'
<1>0. /\ TypeOK /\ LinksHeld /\ ChallengesHeld /\ SessionsRead /\ OneSessionPerLink
      /\ CodesNotEnrolled /\ AttemptsBounded /\ RecoveryOnce
  BY DEF IInv
<1>1. /\ UNCHANGED <<now, granted, link, session, authenticators, code, admitted>>
      /\ Is(r, "open") /\ challenge[c] = None
  BY DEF NewChallenge, Is
<1>2. PICK x \in Challenge :
        /\ challenge' = [challenge EXCEPT ![c] = x] /\ x.purpose = purpose /\ x.method = m
        /\ ~x.consumed /\ x.attempts = 0
  <2>1. now \in Nat /\ now + ChallengeTtl \in Nat /\ request[r].session \in Sessions
    BY <1>0, <1>1, RequestTypes, Durations DEF TypeOK
  <2>2. [session |-> request[r].session, purpose |-> purpose, method |-> m, attempts |-> 0,
         created_at |-> now, expires_at |-> now + ChallengeTtl, consumed |-> FALSE] \in Challenge
    BY <2>1 DEF Challenge
  <2> QED
    BY <2>2 DEF NewChallenge
<1>3. /\ challenge' \in [Challenges -> Challenge \cup {None}] /\ challenge'[c] = x /\ x # None
      /\ \A d \in Challenges \ {c} : challenge'[d] = challenge[d]
  BY <1>0, <1>2, RowTypes DEF TypeOK
<1>4. /\ request' \in [Requests -> Request] /\ (\A k : ~Is(r, k)')
      /\ \A q \in Requests \ {r} : request'[q] = request[q]
      /\ \A q \in Requests \ {r} : \A k : Is(q, k)' <=> Is(q, k)
  BY <1>0, RequestEnds DEF NewChallenge
<1>5. TypeOK'
  BY <1>0, <1>1, <1>3, <1>4 DEF TypeOK
<1>6. LinksHeld' /\ SessionsRead'
  <2>1. \A q \in Requests : request'[q] = request[q] \/ request'[q] = None
    BY <1>0 DEF NewChallenge, TypeOK
  <2> QED
    BY <1>0, <1>1, <2>1, LocksKept
<1>7. ChallengesHeld'
  <2>1. \A q \in Requests : Is(q, "verify") =>
          request[q].challenge \in Challenges /\ request[q].challenge # c
    BY <1>0, <1>1, RequestTypes DEF ChallengesHeld
  <2> QED
    BY <1>0, <1>3, <1>4, <2>1 DEF ChallengesHeld
<1>8. CodesNotEnrolled'
  BY <1>0, <1>2, <1>3 DEF CodesNotEnrolled
<1>9. AttemptsBounded'
  BY <1>0, <1>2, <1>3, Durations DEF AttemptsBounded
<1>10. RecoveryOnce'
  <2>1. {d \in Challenges : challenge'[d] # None /\ challenge'[d].consumed
                              /\ challenge'[d].method = "RECOVERY_CODE"}
        = {d \in Challenges : challenge[d] # None /\ challenge[d].consumed
                              /\ challenge[d].method = "RECOVERY_CODE"}
    BY <1>1, <1>2, <1>3
  <2> QED
    BY <1>0, <1>1, <2>1 DEF RecoveryOnce
<1>11. OneSessionPerLink' /\ FactorBehindAal2'
  <2>1. OneSessionPerLink'
    BY <1>0, <1>1 DEF OneSessionPerLink
  <2>2. \A d \in Challenges : challenge[d] # None /\ challenge[d].consumed => challenge'[d] = challenge[d]
    BY <1>1, <1>3
  <2>3. FactorBehindAal2'
    BY <1>1, <2>2, FactorsKept DEF IInv
  <2> QED
    BY <2>1, <2>3
<1> QED
  BY <1>5, <1>6, <1>7, <1>8, <1>9, <1>10, <1>11 DEF IInv

LEMMA BeginVerifyIInv ==
  ASSUME IInv, NEW r \in Requests, NEW c \in Challenges, BeginVerify(r, c)
  PROVE  IInv'
<1>0. TypeOK /\ LinksHeld /\ ChallengesHeld /\ SessionsRead /\ OneSessionPerLink
  BY DEF IInv
<1>1. /\ UNCHANGED <<now, granted, link, session, challenge, authenticators, code, admitted>>
      /\ Is(r, "open") /\ challenge[c] # None /\ challenge[c].session = request[r].session
      /\ ~challenge[c].consumed /\ challenge[c].attempts < MaxAttempts
  BY DEF BeginVerify, Answerable, Is
<1>2. PICK x \in Request \ {None} :
        /\ request' = [request EXCEPT ![r] = x] /\ x.kind = "verify"
        /\ x.session = request[r].session /\ x.challenge = c
  <2>1. request[r].session \in Sessions /\ request[r].seen \in Session
    BY <1>0, <1>1, RequestTypes
  <2>2. request' = [request EXCEPT ![r] =
          [kind |-> "verify", session |-> request[r].session, seen |-> request[r].seen,
           challenge |-> c, has_codes |-> \E k \in Codes : code[k] # "absent"]]
    BY <1>0 DEF BeginVerify, TypeOK
  <2>3. (\E k \in Codes : code[k] # "absent") \in BOOLEAN
    OBVIOUS
  <2> QED
    BY <2>1, <2>2, <2>3, RequestMade
<1>3. /\ request' \in [Requests -> Request] /\ request'[r] = x
      /\ ~Is(r, "exchange")' /\ ~Is(r, "open")' /\ Is(r, "verify")'
      /\ \A q \in Requests \ {r} : request'[q] = request[q]
      /\ \A q \in Requests \ {r} : \A k : Is(q, k)' <=> Is(q, k)
  <2>1. /\ request' \in [Requests -> Request] /\ request'[r] = x
        /\ \A q \in Requests \ {r} : request'[q] = request[q]
        /\ \A k : Is(r, k)' <=> x.kind = k
        /\ \A q \in Requests \ {r} : \A k : Is(q, k)' <=> Is(q, k)
    BY <1>0, <1>2, RequestTaken
  <2> QED
    BY <1>2, <2>1
<1>4. TypeOK'
  BY <1>0, <1>1, <1>3 DEF TypeOK
<1>5. LinksHeld'
  BY <1>0, <1>1, <1>3 DEF LinksHeld
<1>6. ChallengesHeld'
  <2>1. \A q \in Requests : Is(q, "verify") => request[q].challenge # c
    BY DEF BeginVerify, ChallengeLocked, Is
  <2>2. ASSUME NEW q \in Requests, Is(q, "verify")'
        PROVE  /\ challenge[request'[q].challenge] # None
               /\ challenge[request'[q].challenge].session = request'[q].session
               /\ ~challenge[request'[q].challenge].consumed
               /\ challenge[request'[q].challenge].attempts < MaxAttempts
               /\ \A p \in Requests :
                    Is(p, "verify")' /\ request'[p].challenge = request'[q].challenge => p = q
    BY <1>0, <1>1, <1>2, <1>3, <2>1, <2>2 DEF ChallengesHeld
  <2> QED
    BY <1>1, <2>2 DEF ChallengesHeld
<1>7. SessionsRead'
  BY <1>0, <1>1, <1>2, <1>3 DEF SessionsRead
<1>8. CodesNotEnrolled' /\ RecoveryOnce' /\ AttemptsBounded'
  BY <1>1, ChallengesUntouched
<1>9. OneSessionPerLink' /\ FactorBehindAal2'
  <2>1. OneSessionPerLink'
    BY <1>0, <1>1 DEF OneSessionPerLink
  <2>2. FactorBehindAal2'
    BY <1>1, FactorsKept DEF IInv
  <2> QED
    BY <2>1, <2>2
<1> QED
  BY <1>4, <1>5, <1>6, <1>7, <1>8, <1>9 DEF IInv

\* What is so after challenge c was written as x and the request has ended.
Written(c, x) ==
  /\ challenge[c] \in Challenge /\ ~challenge[c].consumed
  /\ challenge' \in [Challenges -> Challenge \cup {None}] /\ challenge'[c] = x /\ x # None
  /\ \A d \in Challenges \ {c} : challenge'[d] = challenge[d]
  /\ request' \in [Requests -> Request]
  /\ \A q \in Requests : request'[q] = request[q] \/ request'[q] = None
  /\ ChallengesHeld' /\ CodesNotEnrolled' /\ AttemptsBounded'

\* The verified challenge is written, and the request ends: what holds of the
\* challenges if the row stays one of its kind.
LEMMA ChallengeWritten ==
  ASSUME IInv, NEW r \in Requests, Is(r, "verify"), NEW c \in Challenges,
         c = request[r].challenge, NEW x \in Challenge,
         x.session = challenge[c].session, x.method = challenge[c].method,
         x.purpose = challenge[c].purpose, x.attempts = challenge[c].attempts + 1,
         challenge' = [challenge EXCEPT ![c] = x],
         request' = [request EXCEPT ![r] = None]
  PROVE  Written(c, x)
<1>0. TypeOK /\ ChallengesHeld /\ CodesNotEnrolled /\ AttemptsBounded
  BY DEF IInv
<1>1. /\ challenge[c] \in Challenge /\ challenge[c] # None /\ ~challenge[c].consumed
      /\ challenge[c].attempts < MaxAttempts
  BY <1>0, RowTypes DEF ChallengesHeld
<1>2. /\ challenge' \in [Challenges -> Challenge \cup {None}] /\ challenge'[c] = x /\ x # None
      /\ \A d \in Challenges \ {c} : challenge'[d] = challenge[d]
  BY <1>0, RowTypes DEF TypeOK
<1>3. /\ request' \in [Requests -> Request] /\ (\A k : ~Is(r, k)')
      /\ \A q \in Requests \ {r} : request'[q] = request[q]
      /\ \A q \in Requests \ {r} : \A k : Is(q, k)' <=> Is(q, k)
  BY <1>0, RequestEnds
<1>4. \A q \in Requests : request'[q] = request[q] \/ request'[q] = None
  BY <1>0 DEF TypeOK
<1>5. ChallengesHeld'
  <2>1. ASSUME NEW q \in Requests, Is(q, "verify")'
        PROVE  /\ q # r /\ Is(q, "verify") /\ request'[q] = request[q]
               /\ challenge'[request[q].challenge] = challenge[request[q].challenge]
    <3>1. q # r /\ Is(q, "verify") /\ request'[q] = request[q]
      BY <1>3, <2>1
    <3>2. request[q].challenge \in Challenges /\ request[q].challenge # c
      BY <1>0, <3>1, RequestTypes DEF ChallengesHeld
    <3> QED
      BY <1>2, <3>1, <3>2
  <2>2. ASSUME NEW q \in Requests, Is(q, "verify")',
               NEW p \in Requests, Is(p, "verify")', request'[p].challenge = request'[q].challenge
        PROVE  p = q
    BY <1>0, <2>1, <2>2 DEF ChallengesHeld
  <2>3. ASSUME NEW q \in Requests, Is(q, "verify")'
        PROVE  /\ challenge'[request'[q].challenge] # None
               /\ challenge'[request'[q].challenge].session = request'[q].session
               /\ ~challenge'[request'[q].challenge].consumed
               /\ challenge'[request'[q].challenge].attempts < MaxAttempts
    BY <1>0, <2>1, <2>3 DEF ChallengesHeld
  <2> QED
    BY <2>2, <2>3 DEF ChallengesHeld
<1>6. CodesNotEnrolled'
  BY <1>0, <1>1, <1>2 DEF CodesNotEnrolled
<1>7. AttemptsBounded'
  <2>1. x.attempts <= MaxAttempts
    BY <1>1, Durations DEF Challenge
  <2> QED
    BY <1>0, <1>2, <2>1 DEF AttemptsBounded
<1> QED
  BY <1>1, <1>2, <1>3, <1>4, <1>5, <1>6, <1>7 DEF Written

\* One more element in each of two finite sets that have as many.
LEMMA OneMoreEach ==
  ASSUME NEW S, NEW T, IsFiniteSet(S), IsFiniteSet(T), Cardinality(S) = Cardinality(T),
         NEW a, a \notin S, NEW b, b \notin T
  PROVE  Cardinality(S \cup {a}) = Cardinality(T \cup {b})
BY FS_AddElement

LEMMA VerifyWrongIInv ==
  ASSUME IInv, NEW r \in Requests, VerifyWrong(r)
  PROVE  IInv'
<1>. DEFINE c == request[r].challenge
            x == [challenge[c] EXCEPT !.attempts = challenge[c].attempts + 1]
<1>0. /\ TypeOK /\ LinksHeld /\ ChallengesHeld /\ SessionsRead /\ OneSessionPerLink
      /\ RecoveryOnce
  BY DEF IInv
<1>1. /\ UNCHANGED <<now, granted, link, session, authenticators, code, admitted>>
      /\ Is(r, "verify") /\ request' = [request EXCEPT ![r] = None]
      /\ challenge' = [challenge EXCEPT ![c] = x]
  BY DEF VerifyWrong, Is
<1>2. c \in Challenges /\ challenge[c] \in Challenge
  BY <1>0, <1>1, RequestTypes, RowTypes DEF ChallengesHeld
<1>3. /\ x \in Challenge /\ x.session = challenge[c].session /\ x.method = challenge[c].method
      /\ x.purpose = challenge[c].purpose /\ x.attempts = challenge[c].attempts + 1
      /\ x.consumed = challenge[c].consumed
  BY <1>2 DEF Challenge
<1> HIDE DEF c, x
<1>4. /\ challenge[c] \in Challenge /\ ~challenge[c].consumed
      /\ challenge' \in [Challenges -> Challenge \cup {None}] /\ challenge'[c] = x /\ x # None
      /\ \A d \in Challenges \ {c} : challenge'[d] = challenge[d]
      /\ request' \in [Requests -> Request]
      /\ \A q \in Requests : request'[q] = request[q] \/ request'[q] = None
      /\ ChallengesHeld' /\ CodesNotEnrolled' /\ AttemptsBounded'
  <2>1. c = request[r].challenge
    BY DEF c
  <2>2. Written(c, x)
    BY <1>1, <1>2, <1>3, <2>1, ChallengeWritten
  <2> QED
    BY <2>2 DEF Written
<1>5. TypeOK'
  BY <1>0, <1>1, <1>4 DEF TypeOK
<1>6. LinksHeld' /\ SessionsRead'
  BY <1>0, <1>1, <1>4, LocksKept
<1>7. RecoveryOnce'
  <2>1. {d \in Challenges : challenge'[d] # None /\ challenge'[d].consumed
                              /\ challenge'[d].method = "RECOVERY_CODE"}
        = {d \in Challenges : challenge[d] # None /\ challenge[d].consumed
                              /\ challenge[d].method = "RECOVERY_CODE"}
    BY <1>3, <1>4
  <2> QED
    BY <1>0, <1>1, <2>1 DEF RecoveryOnce
<1>8. OneSessionPerLink' /\ FactorBehindAal2'
  <2>1. OneSessionPerLink'
    BY <1>0, <1>1 DEF OneSessionPerLink
  <2>2. \A d \in Challenges : challenge[d] # None /\ challenge[d].consumed => challenge'[d] = challenge[d]
    BY <1>4
  <2>3. FactorBehindAal2'
    BY <1>1, <2>2, FactorsKept DEF IInv
  <2> QED
    BY <2>1, <2>3
<1> QED
  BY <1>4, <1>5, <1>6, <1>7, <1>8 DEF IInv

\* The right answer: the challenge is consumed, with the recovery code if that
\* is the factor, and the session is written from what was read of it.
LEMMA VerifyRightIInv ==
  ASSUME IInv, NEW r \in Requests, VerifyRight(r)
  PROVE  IInv'
<1>. DEFINE q == request[r]
            c == q.challenge
            s == q.session
            m == challenge[c].method
            x == [[challenge[c] EXCEPT !.attempts = challenge[c].attempts + 1] EXCEPT !.consumed = TRUE]
            row == Flushed(session[s], q.seen, Stepped(q.seen, m))
            Spent(ch) == {d \in Challenges : ch[d] # None /\ ch[d].consumed
                                               /\ ch[d].method = "RECOVERY_CODE"}
            Used(co) == {k \in Codes : co[k] = "used"}
<1>0. /\ TypeOK /\ LinksHeld /\ ChallengesHeld /\ SessionsRead /\ OneSessionPerLink
      /\ CodesNotEnrolled /\ RecoveryOnce
  BY DEF IInv
<1>1. /\ UNCHANGED <<now, granted, link, admitted>>
      /\ Is(r, "verify") /\ request' = [request EXCEPT ![r] = None]
  BY DEF VerifyRight, Is
<1>2. /\ c \in Challenges /\ challenge[c] \in Challenge /\ challenge[c].session = s
      /\ s \in Sessions /\ q.seen \in Session /\ session[s] # None /\ session[s] \in Session
      /\ m \in Method
  <2>1. c \in Challenges /\ s \in Sessions /\ q.seen \in Session
    BY <1>0, <1>1, RequestTypes
  <2>2. challenge[c] # None /\ challenge[c].session = s /\ session[s] # None
    BY <1>0, <1>1 DEF ChallengesHeld, SessionsRead
  <2>3. challenge[c] \in Challenge /\ session[s] \in Session
    BY <1>0, <2>1, <2>2, RowTypes
  <2> QED
    BY <2>1, <2>2, <2>3 DEF Challenge
<1>3. /\ x \in Challenge /\ x.session = s /\ x.method = m
      /\ x.purpose = challenge[c].purpose /\ x.attempts = challenge[c].attempts + 1
      /\ x.consumed = TRUE
  <2>. DEFINE y == challenge[c]
              z == [y EXCEPT !.attempts = y.attempts + 1]
  <2>1. y \in Challenge /\ y.session = s /\ y.method = m
    BY <1>2
  <2>2. /\ z \in Challenge /\ z.session = y.session /\ z.method = y.method
        /\ z.purpose = y.purpose /\ z.attempts = y.attempts + 1
    BY <2>1 DEF Challenge
  <2>3. x = [z EXCEPT !.consumed = TRUE]
    OBVIOUS
  <2> HIDE DEF x, y, z, c, s, m
  <2>4. /\ x \in Challenge /\ x.session = z.session /\ x.method = z.method
        /\ x.purpose = z.purpose /\ x.attempts = z.attempts /\ x.consumed = TRUE
    BY <2>2, <2>3 DEF Challenge
  <2> QED
    BY <2>1, <2>2, <2>4 DEF y
<1>4. /\ row \in Session /\ row.link = session[s].link
      /\ row.authn_level = "AAL2" => session[s].authn_level = "AAL2" \/ EstablishesAal2(m)
  <2>1. row = Flushed(session[s], q.seen, Stepped(q.seen, m))
    OBVIOUS
  <2> HIDE DEF row, q, s, m
  <2> QED
    BY <1>0, <1>2, <2>1, FlushedRow
<1>5. /\ challenge' = [challenge EXCEPT ![c] = x] /\ session' = [session EXCEPT ![s] = row]
  BY <1>0, <1>2 DEF VerifyRight, TypeOK
<1>6. /\ authenticators' \subseteq Enrollable
      /\ code' \in [Codes -> {"absent", "unused", "used"}]
      /\ IF m = "RECOVERY_CODE"
           THEN \E k \in Codes : code[k] = "unused" /\ Used(code') = Used(code) \cup {k}
           ELSE Used(code') = Used(code)
  <2>1. CASE challenge[c].purpose = "ENROLLMENT"
    <3>1. m \in Enrollable /\ m # "RECOVERY_CODE"
      BY <1>0, <1>2, <2>1, RowTypes DEF CodesNotEnrolled, Enrollable
    <3>2. authenticators' = authenticators \cup {m} /\ Issued(r)
      BY <2>1 DEF VerifyRight
    <3>3. CASE code' = code
      BY <1>0, <3>1, <3>2, <3>3 DEF TypeOK
    <3>4. CASE \E k \in Codes : code[k] = "absent" /\ code' = [code EXCEPT ![k] = "unused"]
      BY <1>0, <3>1, <3>2, <3>4 DEF TypeOK
    <3> QED
      BY <3>2, <3>3, <3>4 DEF Issued
  <2>2. CASE challenge[c].purpose # "ENROLLMENT"
    <3>1. authenticators' = authenticators
      BY <2>2 DEF VerifyRight
    <3>2. CASE m = "RECOVERY_CODE"
      <4>1. PICK k \in Codes : code[k] = "unused" /\ code' = [code EXCEPT ![k] = "used"]
        BY <2>2, <3>2 DEF VerifyRight, UsableCode
      <4>2. Used(code') = Used(code) \cup {k}
        BY <1>0, <4>1 DEF TypeOK
      <4> QED
        BY <1>0, <3>1, <3>2, <4>1, <4>2 DEF TypeOK
    <3>3. CASE m # "RECOVERY_CODE"
      BY <1>0, <2>2, <3>1, <3>3 DEF VerifyRight, TypeOK
    <3> QED
      BY <3>2, <3>3
  <2> QED
    BY <2>1, <2>2
<1>7. c = request[r].challenge /\ x.session = challenge[c].session /\ x.method = challenge[c].method
  BY <1>2, <1>3
<1> HIDE DEF x, row, q, c, s
<1>8. /\ challenge[c] \in Challenge /\ ~challenge[c].consumed
      /\ challenge' \in [Challenges -> Challenge \cup {None}] /\ challenge'[c] = x /\ x # None
      /\ \A d \in Challenges \ {c} : challenge'[d] = challenge[d]
      /\ request' \in [Requests -> Request]
      /\ \A p \in Requests : request'[p] = request[p] \/ request'[p] = None
      /\ ChallengesHeld' /\ CodesNotEnrolled' /\ AttemptsBounded'
  <2>1. Written(c, x)
    BY <1>1, <1>2, <1>3, <1>5, <1>7, ChallengeWritten
  <2> QED
    BY <2>1 DEF Written
<1>9. /\ session' \in [Sessions -> Session \cup {None}] /\ session'[s] = row
      /\ \A t \in Sessions \ {s} : session'[t] = session[t]
      /\ \A t \in Sessions : session'[t] # None <=> session[t] # None
      /\ OneSessionPerLink'
  BY <1>0, <1>1, <1>2, <1>4, <1>5, RowWritten
<1>10. TypeOK'
  BY <1>0, <1>1, <1>6, <1>8, <1>9 DEF TypeOK
<1>11. LinksHeld' /\ SessionsRead'
  BY <1>0, <1>1, <1>8, <1>9, LocksKept
<1>12. RecoveryOnce'
  <2>1. IsFiniteSet(Spent(challenge)) /\ IsFiniteSet(Used(code))
    <3>1. IsFiniteSet(Challenges) /\ IsFiniteSet(Codes)
      BY AuthAssumption
    <3> QED
      BY <3>1, FS_Subset
  <2>2. Cardinality(Spent(challenge)) = Cardinality(Used(code))
    BY <1>0 DEF RecoveryOnce
  <2>3. CASE m = "RECOVERY_CODE"
    <3>1. PICK k \in Codes : code[k] = "unused" /\ Used(code') = Used(code) \cup {k}
      BY <1>6, <2>3
    <3>2. Spent(challenge') = Spent(challenge) \cup {c}
      BY <1>2, <1>3, <1>8, <2>3
    <3>3. k \notin Used(code) /\ c \notin Spent(challenge)
      BY <1>8, <3>1
    <3> HIDE DEF Spent, Used
    <3>4. Cardinality(Spent(challenge')) = Cardinality(Used(code'))
      BY <2>1, <2>2, <3>1, <3>2, <3>3, OneMoreEach
    <3> QED
      BY <3>4 DEF RecoveryOnce, Spent, Used
  <2>4. CASE m # "RECOVERY_CODE"
    <3>1. Spent(challenge') = Spent(challenge) /\ Used(code') = Used(code)
      BY <1>2, <1>3, <1>6, <1>8, <2>4
    <3> QED
      BY <2>2, <3>1 DEF RecoveryOnce
  <2> QED
    BY <2>3, <2>4
<1>13. FactorBehindAal2'
  <2>1. \A d \in Challenges : challenge[d] # None /\ challenge[d].consumed => challenge'[d] = challenge[d]
    BY <1>8
  <2>2. ASSUME NEW t \in Sessions, session'[t] # None, session'[t].authn_level = "AAL2"
        PROVE  \/ session[t] # None /\ session[t].authn_level = "AAL2"
               \/ \E d \in Challenges :
                    /\ challenge'[d] # None /\ challenge'[d].session = t /\ challenge'[d].consumed
                    /\ challenge'[d].method \in {"WEBAUTHN", "RECOVERY_CODE"}
    <3>1. CASE t # s
      BY <1>9, <2>2, <3>1
    <3>2. CASE t = s /\ session[s].authn_level # "AAL2"
      <4>1. EstablishesAal2(m)
        BY <1>4, <1>9, <2>2, <3>2
      <4> QED
        BY <1>2, <1>3, <1>8, <3>2, <4>1 DEF EstablishesAal2
    <3> QED
      BY <1>2, <3>1, <3>2
  <2> QED
    BY <2>1, <2>2, FactorsKept DEF IInv
<1> QED
  BY <1>8, <1>9, <1>10, <1>11, <1>12, <1>13 DEF IInv

-----------------------------------------------------------------------------
(* The invariant.                                                           *)

LEMMA InitIInv == Init => IInv
<1> SUFFICES ASSUME Init PROVE IInv
  OBVIOUS
<1>1. TypeOK
  <2>1. now \in 0..MaxTime
    BY Durations DEF Init
  <2>2. request \in [Requests -> Request]
    BY RequestMade DEF Init
  <2>3. link \in [Links -> Link]
    BY DEF Init, Link
  <2>4. authenticators \subseteq Enrollable /\ code \in [Codes -> {"absent", "unused", "used"}]
    BY DEF Init, Enrollable
  <2> QED
    BY <2>1, <2>2, <2>3, <2>4 DEF Init, TypeOK
<1>2. \A r \in Requests, k \in {"exchange", "open", "verify"} : ~Is(r, k)
  BY DEF Init, Is
<1>3. LinksHeld /\ ChallengesHeld /\ SessionsRead
  BY <1>2 DEF LinksHeld, ChallengesHeld, SessionsRead
<1>4. CodesNotEnrolled /\ OneSessionPerLink /\ FactorBehindAal2 /\ AttemptsBounded
  BY DEF Init, CodesNotEnrolled, OneSessionPerLink, FactorBehindAal2, AttemptsBounded
<1>5. RecoveryOnce
  <2>1. {c \in Challenges : /\ challenge[c] # None /\ challenge[c].consumed
                            /\ challenge[c].method = "RECOVERY_CODE"} = {}
    BY DEF Init
  <2>2. {k \in Codes : code[k] = "used"} = {}
    BY DEF Init
  <2> QED
    BY <2>1, <2>2 DEF RecoveryOnce
<1> QED
  BY <1>1, <1>3, <1>4, <1>5 DEF IInv

LEMMA NextIInv == IInv /\ [Next]_vars => IInv'
<1> SUFFICES ASSUME IInv, [Next]_vars PROVE IInv'
  OBVIOUS
<1>0. TypeOK
  BY DEF IInv
<1>1. CASE UNCHANGED vars
  BY <1>0, <1>1, NoRowIInv DEF vars, TypeOK
<1>2. ASSUME NEW l \in Links, IssueLink(l) PROVE IInv'
  BY <1>2, IssueLinkIInv
<1>3. ASSUME NEW r \in Requests, NEW l \in Links, BeginExchange(r, l) PROVE IInv'
  BY <1>3, BeginExchangeIInv
<1>4. ASSUME NEW r \in Requests, NEW s \in Sessions, CommitExchange(r, s) PROVE IInv'
  BY <1>4, CommitExchangeIInv
<1>5. ASSUME NEW r \in Requests, NEW s \in Sessions, Open(r, s) PROVE IInv'
  BY <1>5, OpenIInv
<1>6. ASSUME NEW s \in Sessions, session[s] # None
      PROVE  LET row == [session[s] EXCEPT !.revoked = TRUE]
             IN  /\ row \in Session /\ row.link = session[s].link
                 /\ row.authn_level = session[s].authn_level
  <2>1. session[s] \in Session
    BY <1>0, <1>6, RowTypes
  <2> QED
    BY <2>1 DEF Session
<1>7. ASSUME NEW s \in Sessions, RevokeExpired(s) PROVE IInv'
  <2>. DEFINE row == [session[s] EXCEPT !.revoked = TRUE]
  <2>1. session' = [session EXCEPT ![s] = row] /\ session[s] # None
    BY <1>7 DEF RevokeExpired
  <2>2. /\ row \in Session /\ row.link = session[s].link
        /\ row.authn_level = session[s].authn_level
    BY <1>6, <2>1
  <2>3. /\ UNCHANGED <<now, granted, link, challenge, authenticators, code, request>>
        /\ admitted' \subseteq Sessions
    BY <1>0, <1>7 DEF RevokeExpired, TypeOK
  <2> HIDE DEF row
  <2> QED
    BY <2>1, <2>2, <2>3, SessionTouchedIInv
<1>8. ASSUME NEW s \in Sessions, Admit(s) PROVE IInv'
  <2>. DEFINE row == Slid(session[s])
  <2>1. session' = [session EXCEPT ![s] = row] /\ session[s] # None
    BY <1>8 DEF Admit, Alive
  <2>2. /\ row \in Session /\ row.link = session[s].link
        /\ row.authn_level = session[s].authn_level
    BY <1>0, <2>1, SlidRow, RowTypes
  <2>3. /\ UNCHANGED <<now, granted, link, challenge, authenticators, code, request>>
        /\ admitted' \subseteq Sessions
    BY <1>0, <1>8 DEF Admit, TypeOK
  <2> HIDE DEF row
  <2> QED
    BY <2>1, <2>2, <2>3, SessionTouchedIInv
<1>9. ASSUME NEW r \in Requests, Logout(r) PROVE IInv'
  <2>. DEFINE s == request[r].session
              row == [session[s] EXCEPT !.revoked = TRUE]
  <2>1. Is(r, "open") /\ session' = [session EXCEPT ![s] = row]
    BY <1>9 DEF Logout, Is
  <2>2. s \in Sessions /\ session[s] # None
    BY <1>0, <2>1, RequestTypes DEF IInv, SessionsRead
  <2>3. /\ row \in Session /\ row.link = session[s].link
        /\ row.authn_level = session[s].authn_level
    BY <1>6, <2>2
  <2>4. /\ UNCHANGED <<now, granted, link, challenge, authenticators, code>>
        /\ admitted' \subseteq Sessions /\ request' = [request EXCEPT ![r] = None]
    BY <1>0, <1>9 DEF Logout, TypeOK
  <2> HIDE DEF row, s
  <2> QED
    BY <2>1, <2>2, <2>3, <2>4, SessionTouchedIInv
<1>10. ASSUME NEW r \in Requests, Abandon(r) PROVE IInv'
  BY <1>0, <1>10, NoRowIInv DEF Abandon, TypeOK
<1>11. ASSUME NEW r \in Requests, VerifyWrong(r) PROVE IInv'
  BY <1>11, VerifyWrongIInv
<1>12. ASSUME NEW r \in Requests, VerifyRight(r) PROVE IInv'
  BY <1>12, VerifyRightIInv
<1>13. ASSUME NEW r \in Requests, NEW c \in Challenges, NEW m \in Method, StartEnrollment(r, c, m)
       PROVE  IInv'
  BY <1>13, NewChallengeIInv DEF StartEnrollment
<1>14. ASSUME NEW r \in Requests, NEW c \in Challenges, NEW m \in Method, StartChallenge(r, c, m)
       PROVE  IInv'
  BY <1>14, NewChallengeIInv DEF StartChallenge
<1>15. ASSUME NEW r \in Requests, NEW c \in Challenges, BeginVerify(r, c) PROVE IInv'
  BY <1>15, BeginVerifyIInv
<1>16. CASE Tick
  <2>1. now' \in 0..MaxTime
    BY <1>0, <1>16, Durations DEF Tick, TypeOK
  <2> QED
    BY <1>0, <1>16, <2>1, NoRowIInv DEF Tick, TypeOK
<1>17. CASE SetGrant
  BY <1>0, <1>17, NoRowIInv DEF SetGrant, TypeOK
<1> QED
  BY <1>1, <1>2, <1>3, <1>4, <1>5, <1>7, <1>8, <1>9, <1>10, <1>11, <1>12, <1>13, <1>14,
     <1>15, <1>16, <1>17 DEF Next

LEMMA SpecIInv == Spec => []IInv
BY InitIInv, NextIInv, PTL DEF Spec

-----------------------------------------------------------------------------
(* The theorems.                                                            *)

\* Every row and every request keeps its type.
THEOREM AuthTypeCorrect == Spec => []TypeOK
<1>1. IInv => TypeOK
  BY DEF IInv
<1> QED
  BY <1>1, SpecIInv, PTL

\* A personal link opens one session at most, and a revoked one none.
THEOREM LinkOnce == Spec => []OneSessionPerLink
<1>1. IInv => OneSessionPerLink
  BY DEF IInv
<1> QED
  BY <1>1, SpecIInv, PTL

\* A session is at AAL2 only if a factor that counts was verified in it.
THEOREM Aal2Earned == Spec => []FactorBehindAal2
<1>1. IInv => FactorBehindAal2
  BY DEF IInv
<1> QED
  BY <1>1, SpecIInv, PTL

\* As many recovery codes are used up as challenges were passed with one.
THEOREM CodeOnce == Spec => []RecoveryOnce
<1>1. IInv => RecoveryOnce
  BY DEF IInv
<1> QED
  BY <1>1, SpecIInv, PTL

\* No challenge is answered more often than it may be.
THEOREM AttemptsLimited == Spec => []AttemptsBounded
<1>1. IInv => AttemptsBounded
  BY DEF IInv
<1> QED
  BY <1>1, SpecIInv, PTL

\* No step brings a revoked session back.
THEOREM RevocationFinal == Spec => RevokedIsFinal
<1>. DEFINE Final == \A s \in Sessions : session[s] # None /\ session[s].revoked => session'[s].revoked
<1>1. IInv /\ [Next]_vars => [Final]_vars
  <2> SUFFICES ASSUME IInv, Next, NEW s \in Sessions, session[s] # None, session[s].revoked
               PROVE  session'[s].revoked
    OBVIOUS
  <2>0. TypeOK /\ SessionsRead /\ ChallengesHeld /\ session[s] \in Session
    BY RowTypes DEF IInv
  <2>1. ASSUME NEW t \in Sessions, RevokeExpired(t) PROVE session'[s].revoked
    <3>1. session' = [session EXCEPT ![t] = [session[t] EXCEPT !.revoked = TRUE]]
          /\ session[t] \in Session
      BY <2>0, <2>1, RowTypes DEF RevokeExpired
    <3>2. [session[t] EXCEPT !.revoked = TRUE].revoked
      BY <3>1 DEF Session
    <3> QED
      BY <2>0, <3>1, <3>2 DEF TypeOK
  <2>2. ASSUME NEW t \in Sessions, Admit(t) PROVE session'[s].revoked
    <3>1. session' = [session EXCEPT ![t] = Slid(session[t])] /\ t # s
      BY <2>2 DEF Admit, Alive
    <3> QED
      BY <2>0, <3>1 DEF TypeOK
  <2>3. ASSUME NEW r \in Requests, NEW t \in Sessions, Open(r, t) PROVE session'[s].revoked
    <3>1. session' = [session EXCEPT ![t] = Slid(session[t])] /\ t # s
      BY <2>3 DEF Open, Alive
    <3> QED
      BY <2>0, <3>1 DEF TypeOK
  <2>4. ASSUME NEW r \in Requests, NEW t \in Sessions, CommitExchange(r, t) PROVE session'[s].revoked
    <3>1. session[t] = None
      BY <2>4 DEF CommitExchange
    <3>2. session'[s] = session[s]
      BY <2>0, <2>4, <3>1 DEF CommitExchange, TypeOK
    <3> QED
      BY <3>2
  <2>5. ASSUME NEW r \in Requests, Logout(r) PROVE session'[s].revoked
    <3>. DEFINE t == request[r].session
    <3>1. t \in Sessions /\ session[t] \in Session
      <4>1. Is(r, "open")
        BY <2>5 DEF Logout, Is
      <4> QED
        BY <2>0, <4>1, RequestTypes, RowTypes DEF SessionsRead
    <3>2. session' = [session EXCEPT ![t] = [session[t] EXCEPT !.revoked = TRUE]]
      BY <2>5 DEF Logout
    <3>3. [session[t] EXCEPT !.revoked = TRUE].revoked
      BY <3>1 DEF Session
    <3> QED
      BY <2>0, <3>1, <3>2, <3>3 DEF TypeOK
  <2>6. ASSUME NEW r \in Requests, VerifyRight(r) PROVE session'[s].revoked
    <3>. DEFINE q == request[r]
                t == q.session
                m == challenge[q.challenge].method
                row == Flushed(session[t], q.seen, Stepped(q.seen, m))
    <3>1. Is(r, "verify")
      BY <2>6 DEF VerifyRight, Is
    <3>2. q.seen \in Session /\ t \in Sessions /\ q.challenge \in Challenges
      BY <2>0, <3>1, RequestTypes
    <3>3. session[t] \in Session /\ challenge[q.challenge] \in Challenge
      BY <2>0, <3>1, <3>2, RowTypes DEF SessionsRead, ChallengesHeld
    <3>4. m \in Method
      BY <3>3 DEF Challenge
    <3>5. session' = [session EXCEPT ![t] = row]
      BY <2>6 DEF VerifyRight
    <3>6. row = Flushed(session[t], q.seen, Stepped(q.seen, m))
      OBVIOUS
    <3> HIDE DEF q, t, m, row
    <3>7. row.revoked = session[t].revoked
      BY <2>0, <3>2, <3>3, <3>4, <3>6, FlushedRow
    <3> QED
      BY <2>0, <3>2, <3>5, <3>7 DEF TypeOK
  <2>7. CASE UNCHANGED session
    BY <2>7
  <2>8. \/ UNCHANGED session
        \/ \E t \in Sessions : RevokeExpired(t) \/ Admit(t)
        \/ \E r \in Requests, t \in Sessions : CommitExchange(r, t) \/ Open(r, t)
        \/ \E r \in Requests : Logout(r) \/ VerifyRight(r)
    BY DEF Next, IssueLink, BeginExchange, Abandon, VerifyWrong, StartEnrollment,
       StartChallenge, NewChallenge, BeginVerify, Tick, SetGrant
  <2> QED
    BY <2>1, <2>2, <2>3, <2>4, <2>5, <2>6, <2>7, <2>8
<1>2. Spec => [][Final]_vars
  BY <1>1, SpecIInv, PTL DEF Spec
<1> QED
  BY <1>2 DEF RevokedIsFinal
=============================================================================
