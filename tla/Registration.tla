----------------------------- MODULE Registration -----------------------------
(***************************************************************************)
(* Invitations, one-time codes, registration and client sessions:          *)
(* services.ts, session.ts and the routes under client/invitations.        *)
(*                                                                         *)
(* A request checks its invitation, then reads the newest challenge, both  *)
(* outside any transaction; then it either counts a wrong code or          *)
(* registers the client in one READ COMMITTED transaction, which begins by *)
(* writing (upsert) the client's row, and keeps it locked.                 *)
(*                                                                         *)
(* Lifetimes are long: an invitation, a challenge or a session may expire  *)
(* at any moment, those that are older before those that are newer.        *)
(* Locale, time zone and audit rows are left out.                          *)
(***************************************************************************)
EXTENDS Integers, Sequences, FiniteSets

CONSTANTS
    Phone,              \* normalized numbers: each is one client
    Invitation,         \* invitation tokens
    Staff,
    Browser,            \* each has one request in flight at a time
    MaxAttempts,        \* attempts a challenge allows
    MaxChallenges,      \* bound on the challenges created
    MaxSessions         \* bound on the sessions opened

ASSUME RegistrationAssumption ==
    /\ IsFiniteSet(Browser)
    /\ Browser # {}
    /\ MaxAttempts \in Nat \ {0}
    /\ MaxChallenges \in Nat
    /\ MaxSessions \in Nat

VARIABLES
    otp,                \* OTP_VERIFICATION_ENABLED
    allowlisted,        \* staff who hear of registrations
    invitation,
    challenge,          \* verification challenges, in the order of creation
    client,             \* phones with a client row
    consents,           \* number of consent records of a phone and a type
    events,             \* (phone, staff) of the registration events
    session,            \* session rows, in the order of creation
    cookie,             \* the session a browser presents, or 0
    req,                \* the request of a browser
    alone               \* no two requests have overlapped so far (history)

rows == <<invitation, challenge, client, consents, events, session>>

vars == <<otp, allowlisted, rows, cookie, req, alone>>

ConsentType == {"PRIVACY_NOTICE", "TRANSACTIONAL_MESSAGES"}

Idle == [pc |-> "idle"]

\* "created": the row is there, the SMS with the token is not sent.
Invited == [state : {"created", "sent"}, phone : Phone, expired : BOOLEAN,
            accepted : BOOLEAN]

NoInvitation == [state |-> "none"]

Challenge == [phone : Phone, attempts : Nat, consumed : BOOLEAN,
              expired : BOOLEAN]

Session == [phone : Phone, challenge : Nat, live : BOOLEAN]

\* code is the challenge a request has read, 0 when none is asked for.
RequestState ==
    {Idle}
        \cup [pc : {"posted"}, invitation : Invitation]
        \cup [pc : {"wrong", "proven"}, phone : Phone, code : Nat,
              invitation : Invitation]
        \cup [pc : {"registering"}, phone : Phone, code : Nat,
              invitation : Invitation, missing : SUBSET ConsentType,
              untold : SUBSET Staff]
        \cup [pc : {"answered"}, session : 1..MaxSessions]

TypeOK ==
    /\ otp \in BOOLEAN
    /\ allowlisted \in SUBSET Staff
    /\ invitation \in [Invitation -> Invited \cup {NoInvitation}]
    /\ challenge \in Seq(Challenge)
    /\ client \in SUBSET Phone
    /\ consents \in [Phone -> [ConsentType -> Nat]]
    /\ events \in SUBSET (Phone \X Staff)
    /\ session \in Seq(Session)
    /\ cookie \in [Browser -> 0..Len(session)]
    /\ req \in [Browser -> RequestState]
    /\ alone \in BOOLEAN

Init ==
    /\ otp \in BOOLEAN
    /\ allowlisted \in SUBSET Staff
    /\ invitation = [i \in Invitation |-> NoInvitation]
    /\ challenge = <<>>
    /\ client = {}
    /\ consents = [p \in Phone |-> [k \in ConsentType |-> 0]]
    /\ events = {}
    /\ session = <<>>
    /\ cookie = [b \in Browser |-> 0]
    /\ req = [b \in Browser |-> Idle]
    /\ alone = TRUE

----------------------------------------------------------------------------
(* Invitations, by staff or by the worker at the public page.              *)

CreateInvitation(i, p) ==
    /\ invitation[i] = NoInvitation
    /\ invitation' = [invitation EXCEPT ![i] =
         [state |-> "created", phone |-> p, expired |-> FALSE, accepted |-> FALSE]]
    /\ UNCHANGED <<otp, allowlisted, challenge, client, consents, events, session,
                   cookie, req, alone>>

\* The SMS carries the only copy of the token: if it fails, nobody has it.
SendInvitation(i) ==
    /\ invitation[i].state = "created"
    /\ invitation' = [invitation EXCEPT ![i].state = "sent"]
    /\ UNCHANGED <<otp, allowlisted, challenge, client, consents, events, session,
                   cookie, req, alone>>

\* getInvitationPreview, for a browser that has the token.
Valid(i) == invitation[i].state = "sent" /\ ~invitation[i].expired

----------------------------------------------------------------------------
(* One-time codes.                                                         *)

Begin(b, st) ==
    /\ req[b] = Idle
    /\ req' = [req EXCEPT ![b] = st]
    /\ alone' = (alone /\ \A x \in Browser : req[x] = Idle)
    /\ UNCHANGED <<otp, allowlisted, rows, cookie>>

\* requestOtp: a new challenge each time, stored before its SMS is tried.
RequestCode(i, p) ==
    /\ otp
    /\ Valid(i)
    /\ p = invitation[i].phone
    /\ Len(challenge) < MaxChallenges
    /\ challenge' = Append(challenge, [phone |-> p, attempts |-> 0,
                                       consumed |-> FALSE, expired |-> FALSE])
    /\ UNCHANGED <<otp, allowlisted, invitation, client, consents, events, session,
                   cookie, req, alone>>

Unconsumed(p) == {n \in 1..Len(challenge) : /\ challenge[n].phone = p
                                            /\ ~challenge[n].consumed}

Newest(n, p) == n \in Unconsumed(p) /\ \A m \in Unconsumed(p) : m <= n

\* faulty: the attempt after the last is let through
TriedTooOften(n) == challenge[n].attempts > MaxAttempts

Locked(n) == challenge[n].attempts >= MaxAttempts

\* verifyOtpAndRegister: the invitation first.  The route is open also where no
\* codes are asked for.
PostCode(b, i) ==
    /\ Valid(i)
    /\ Begin(b, [pc |-> "posted", invitation |-> i])

\* Then the newest challenge of the phone, which is typed with the code, as it
\* is by now; and the comparison of the code.
CheckCode(b, p, right) ==
    /\ req[b].pc = "posted"
    /\ \E n \in 1..Len(challenge) :
         /\ Newest(n, p)
         /\ ~challenge[n].expired
         /\ ~Locked(n)
         /\ req' = [req EXCEPT ![b] =
              [pc |-> IF right THEN "proven" ELSE "wrong", phone |-> p,
               code |-> n, invitation |-> req[b].invitation]]
    /\ UNCHANGED <<otp, allowlisted, rows, cookie, alone>>

\* The increment is one UPDATE statement.
CountAttempt(b) ==
    /\ req[b].pc = "wrong"
    /\ challenge' = [challenge EXCEPT ![req[b].code].attempts = @ + 1]
    /\ req' = [req EXCEPT ![b] = Idle]
    /\ UNCHANGED <<otp, allowlisted, invitation, client, consents, events, session,
                   cookie, alone>>

----------------------------------------------------------------------------
(* Registration.                                                           *)

\* registerClientForInvitation: no code, the phone of the invitation.
AskDirectly(b, i, p) ==
    /\ ~otp
    /\ Valid(i)
    /\ p = invitation[i].phone
    /\ Begin(b, [pc |-> "proven", phone |-> p, code |-> 0, invitation |-> i])

\* faulty: the client is looked up and created, and no row is locked
NoClientLock(b) == TRUE

\* The upsert waits for a transaction that wrote the client's row.
ClientUnlocked(b) ==
    \A x \in Browser \ {b} :
        ~(req[x].pc = "registering" /\ req[x].phone = req[b].phone)

\* The upsert of the client, and the reads that follow it.
LockClient(b) ==
    LET p == req[b].phone
    IN  /\ req[b].pc = "proven"
        /\ ClientUnlocked(b)
        /\ req' = [req EXCEPT ![b] =
             [pc |-> "registering", phone |-> p, code |-> req[b].code,
              invitation |-> req[b].invitation,
              missing |-> {k \in ConsentType : consents[p][k] = 0},
              untold |-> {s \in allowlisted : <<p, s>> \notin events}]]
        /\ UNCHANGED <<otp, allowlisted, rows, cookie, alone>>

\* faulty: the challenge stays open
LeftOpen(n) == challenge

Consumed(n) == IF n = 0 THEN challenge
                        ELSE [challenge EXCEPT ![n].consumed = TRUE]

\* faulty: the row before the one that is inserted
PreviousSession == Len(session)

NewSession == Len(session) + 1

\* The writes of finalizeClientRegistration.  An event that exists by now
\* breaks the unique key, and the transaction is rolled back.
CommitRegistration(b) ==
    LET p == req[b].phone
    IN  /\ req[b].pc = "registering"
        /\ Len(session) < MaxSessions
        /\ \A s \in req[b].untold : <<p, s>> \notin events
        /\ client' = client \cup {p}
        /\ challenge' = Consumed(req[b].code)
        /\ invitation' = [invitation EXCEPT ![req[b].invitation].accepted = TRUE]
        /\ consents' = [consents EXCEPT ![p] =
             [k \in ConsentType |-> IF k \in req[b].missing
                                    THEN consents[p][k] + 1 ELSE consents[p][k]]]
        /\ events' = events \cup ({p} \X req[b].untold)
        /\ session' = Append(session, [phone |-> p, challenge |-> req[b].code,
                                       live |-> TRUE])
        /\ req' = [req EXCEPT ![b] = [pc |-> "answered", session |-> NewSession]]
        /\ UNCHANGED <<otp, allowlisted, cookie, alone>>

\* The request fails or its transaction is rolled back; an answer may be lost
\* with the cookie in it.
Abort(b) ==
    /\ req[b] # Idle
    /\ req' = [req EXCEPT ![b] = Idle]
    /\ UNCHANGED <<otp, allowlisted, rows, cookie, alone>>

----------------------------------------------------------------------------
(* Sessions.                                                               *)

\* commitSessionCookie.
ReceiveCookie(b) ==
    /\ req[b].pc = "answered"
    /\ cookie' = [cookie EXCEPT ![b] = req[b].session]
    /\ req' = [req EXCEPT ![b] = Idle]
    /\ UNCHANGED <<otp, allowlisted, rows, alone>>

\* getSession: a cookie without a live row is removed.
GetSession(b) ==
    /\ cookie[b] # 0
    /\ ~session[cookie[b]].live
    /\ cookie' = [cookie EXCEPT ![b] = 0]
    /\ UNCHANGED <<otp, allowlisted, rows, req, alone>>

\* destroySession: the row goes, then the cookie; the answer may be lost.
SignOut(b) ==
    /\ cookie[b] # 0
    /\ session' = [session EXCEPT ![cookie[b]].live = FALSE]
    /\ cookie' \in {cookie, [cookie EXCEPT ![b] = 0]}
    /\ UNCHANGED <<otp, allowlisted, invitation, challenge, client, consents, events,
                   req, alone>>

----------------------------------------------------------------------------
(* Time passes.                                                            *)

ExpireInvitation(i) ==
    /\ Valid(i)
    /\ invitation' = [invitation EXCEPT ![i].expired = TRUE]
    /\ UNCHANGED <<otp, allowlisted, challenge, client, consents, events, session,
                   cookie, req, alone>>

ExpireChallenge(n) ==
    /\ ~challenge[n].expired
    /\ \A m \in 1..(n - 1) : challenge[m].expired
    /\ challenge' = [challenge EXCEPT ![n].expired = TRUE]
    /\ UNCHANGED <<otp, allowlisted, invitation, client, consents, events, session,
                   cookie, req, alone>>

ExpireSession(n) ==
    /\ session[n].live
    /\ \A m \in 1..(n - 1) : ~session[m].live
    /\ session' = [session EXCEPT ![n].live = FALSE]
    /\ UNCHANGED <<otp, allowlisted, invitation, challenge, client, consents, events,
                   cookie, req, alone>>

Next ==
    \/ \E i \in Invitation : \/ \E p \in Phone : CreateInvitation(i, p)
                             \/ \E p \in Phone : RequestCode(i, p)
                             \/ SendInvitation(i)
                             \/ ExpireInvitation(i)
    \/ \E b \in Browser :
         \/ \E i \in Invitation : PostCode(b, i)
         \/ \E p \in Phone, right \in BOOLEAN : CheckCode(b, p, right)
         \/ \E i \in Invitation, p \in Phone : AskDirectly(b, i, p)
         \/ CountAttempt(b)
         \/ LockClient(b)
         \/ CommitRegistration(b)
         \/ Abort(b)
         \/ ReceiveCookie(b)
         \/ GetSession(b)
         \/ SignOut(b)
    \/ \E n \in 1..Len(challenge) : ExpireChallenge(n)
    \/ \E n \in 1..Len(session) : ExpireSession(n)

Spec == Init /\ [][Next]_vars

----------------------------------------------------------------------------
(* Properties.                                                             *)

\* A registration is stored whole and once, however many requests register one
\* phone: a client has one consent record of each kind, every allowlisted staff
\* member has the event, an invitation was accepted; and a session belongs to
\* a client.
RegistrationIsWhole ==
    /\ \A p \in Phone, k \in ConsentType :
         consents[p][k] = IF p \in client THEN 1 ELSE 0
    /\ events = client \X allowlisted
    /\ client # {} => \E i \in Invitation : /\ invitation[i] # NoInvitation
                                            /\ invitation[i].accepted
    /\ \A n \in 1..Len(session) : session[n].phone \in client

\* The limit is read before an attempt is counted: requests that overlap may
\* pass it, but no more than are in flight together.
AttemptsBounded ==
    \A n \in 1..Len(challenge) :
        challenge[n].attempts <= MaxAttempts - 1 + Cardinality(Browser)

\* "single-use" codes (docs/SECURITY.md:62): a session that was opened with a
\* code has used up a challenge of its client, and while requests do not
\* overlap no other session was opened with it.
CodesAreSpent ==
    \A n \in 1..Len(session) :
        LET c == session[n].challenge
        IN  c # 0 => /\ c \in 1..Len(challenge)
                     /\ challenge[c].consumed
                     /\ challenge[c].phone = session[n].phone
                     /\ alone => \A m \in 1..Len(session) :
                                    session[m].challenge = c => m = n
=============================================================================
