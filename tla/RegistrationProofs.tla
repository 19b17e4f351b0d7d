-------------------------- MODULE RegistrationProofs --------------------------
(***************************************************************************)
(* Proofs about Registration, for any number of phones, browsers, attempts *)
(* and challenges.                                                         *)
(***************************************************************************)
EXTENDS Registration, FiniteSetTheorems, SequenceTheorems, TLAPS

\* A request in flight has read a valid invitation and, from then on, a
\* challenge of its phone; an answer carries a session.
Reads ==
    \A b \in Browser :
        /\ req[b].pc = "wrong" => req[b].code # 0
        /\ req[b].pc \in {"posted", "wrong", "proven", "registering"} =>
             invitation[req[b].invitation].state = "sent"
        /\ req[b].pc \in {"wrong", "proven", "registering"} /\ req[b].code # 0 =>
             /\ req[b].code \in 1..Len(challenge)
             /\ challenge[req[b].code].phone = req[b].phone
        /\ req[b].pc = "answered" => req[b].session \in 1..Len(session)

TInv == TypeOK /\ Reads

\* One transaction has the client's row, and what it read still holds.
Reserved ==
    \A b \in Browser : req[b].pc = "registering" =>
        /\ \A x \in Browser \ {b} :
             ~(req[x].pc = "registering" /\ req[x].phone = req[b].phone)
        /\ req[b].missing = {k \in ConsentType : consents[req[b].phone][k] = 0}
        /\ req[b].untold = {s \in allowlisted : <<req[b].phone, s>> \notin events}

WInv == Reserved /\ RegistrationIsWhole

\* An attempt is charged to its challenge from the moment it passed the limit.
Wrong(n) == {b \in Browser : req[b].pc = "wrong" /\ req[b].code = n}

Charged ==
    \A n \in 1..Len(challenge) :
        challenge[n].attempts + Cardinality(Wrong(n))
            <= MaxAttempts - 1 + Cardinality(Browser)

\* While no two requests have overlapped, what a request has read is current.
Apart ==
    alone =>
        /\ \A b, x \in Browser : b # x => req[b] = Idle \/ req[x] = Idle
        /\ \A b \in Browser :
             req[b].pc \in {"proven", "registering"} /\ req[b].code # 0
             => ~challenge[req[b].code].consumed

SpentInv == Apart /\ CodesAreSpent

IInv == TInv /\ WInv /\ Charged /\ SpentInv

----------------------------------------------------------------------------
(* Types.                                                                  *)

\* A request begins, or goes on.
LEMMA BeginTyped ==
    ASSUME TInv, NEW b \in Browser, NEW st \in RequestState,
           req' = [req EXCEPT ![b] = st], alone' \in BOOLEAN,
           UNCHANGED <<otp, allowlisted, rows, cookie>>,
           st.pc \in {"posted", "wrong", "proven"},
           st.pc = "wrong" => st.code # 0,
           invitation[st.invitation].state = "sent",
           st.pc # "posted" /\ st.code # 0 => /\ st.code \in 1..Len(challenge)
                                             /\ challenge[st.code].phone = st.phone
    PROVE  TInv'
  <1>1. /\ \A x \in Browser \ {b} : req'[x] = req[x]
        /\ req'[b] = st
        /\ req' \in [Browser -> RequestState]
    BY DEF TInv, TypeOK
  <1> QED
    BY <1>1 DEF TInv, TypeOK, Reads, rows

\* A request ends, and no row is gone.
LEMMA EndTyped ==
    ASSUME TInv, NEW b \in Browser, req' = [req EXCEPT ![b] = Idle],
           UNCHANGED <<invitation, session>>,
           Len(challenge') = Len(challenge),
           \A n \in 1..Len(challenge) : challenge'[n].phone = challenge[n].phone
    PROVE  Reads' /\ req' \in [Browser -> RequestState]
  <1>1. /\ \A x \in Browser \ {b} : req'[x] = req[x]
        /\ req'[b] = Idle
        /\ req' \in [Browser -> RequestState]
    BY DEF TInv, TypeOK, RequestState
  <1> QED
    BY <1>1 DEF TInv, Reads, Idle

\* A challenge that is written keeps its place and its phone.
LEMMA ChallengeWritten ==
    ASSUME TInv, NEW n \in 1..Len(challenge), NEW v \in Challenge,
           challenge' = [challenge EXCEPT ![n] = v], v.phone = challenge[n].phone
    PROVE  /\ challenge' \in Seq(Challenge)
           /\ Len(challenge') = Len(challenge)
           /\ \A m \in 1..Len(challenge) : /\ challenge'[m] = IF m = n THEN v ELSE challenge[m]
                                           /\ challenge'[m].phone = challenge[m].phone
  <1>1. challenge \in Seq(Challenge)
    BY DEF TInv, TypeOK
  <1> QED
    BY <1>1, ExceptSeq

\* So does a session.
LEMMA SessionWritten ==
    ASSUME TInv, NEW n \in 1..Len(session), NEW v \in Session,
           session' = [session EXCEPT ![n] = v]
    PROVE  /\ session' \in Seq(Session)
           /\ Len(session') = Len(session)
           /\ \A m \in 1..Len(session) : session'[m] = IF m = n THEN v ELSE session[m]
  <1>1. session \in Seq(Session)
    BY DEF TInv, TypeOK
  <1> QED
    BY <1>1, ExceptSeq

\* What a request in flight carries.
LEMMA FlightTyped ==
    ASSUME TInv, NEW b \in Browser, req[b].pc \in {"posted", "wrong", "proven", "registering"}
    PROVE  /\ req[b].invitation \in Invitation
           /\ req[b].pc # "posted" => req[b].phone \in Phone /\ req[b].code \in Nat
  <1>1. req[b] \in RequestState
    BY DEF TInv, TypeOK
  <1> QED
    BY <1>1 DEF RequestState, Idle

\* The types of a registration in progress.
LEMMA TransactionTyped ==
    ASSUME TInv, NEW b \in Browser, req[b].pc = "registering"
    PROVE  req[b].missing \in SUBSET ConsentType /\ req[b].untold \in SUBSET Staff
  <1>1. req[b] \in RequestState
    BY DEF TInv, TypeOK
  <1> QED
    BY <1>1 DEF RequestState, Idle

\* The types of an updated challenge.
LEMMA ChallengeTyped ==
    ASSUME TInv, NEW n \in 1..Len(challenge)
    PROVE  /\ challenge[n] \in Challenge
           /\ [challenge[n] EXCEPT !.attempts = @ + 1] \in Challenge
           /\ [challenge[n] EXCEPT !.consumed = TRUE] \in Challenge
           /\ [challenge[n] EXCEPT !.expired = TRUE] \in Challenge
           /\ [challenge[n] EXCEPT !.attempts = @ + 1].phone = challenge[n].phone
           /\ [challenge[n] EXCEPT !.consumed = TRUE].phone = challenge[n].phone
           /\ [challenge[n] EXCEPT !.expired = TRUE].phone = challenge[n].phone
  <1>1. challenge[n] \in Challenge
    BY DEF TInv, TypeOK
  <1>2. PICK r \in Challenge : r = challenge[n]
    BY <1>1
  <1>3. r = [phone |-> r.phone, attempts |-> r.attempts, consumed |-> r.consumed,
             expired |-> r.expired]
    BY DEF Challenge
  <1>4. r.phone \in Phone /\ r.attempts \in Nat /\ r.consumed \in BOOLEAN /\ r.expired \in BOOLEAN
    BY DEF Challenge
  <1>5. /\ [r EXCEPT !.attempts = @ + 1] \in Challenge
        /\ [r EXCEPT !.attempts = @ + 1].phone = r.phone
    BY <1>3, <1>4 DEF Challenge
  <1>6. /\ [r EXCEPT !.consumed = TRUE] \in Challenge
        /\ [r EXCEPT !.consumed = TRUE].phone = r.phone
    BY <1>3, <1>4 DEF Challenge
  <1>7. /\ [r EXCEPT !.expired = TRUE] \in Challenge
        /\ [r EXCEPT !.expired = TRUE].phone = r.phone
    BY <1>3, <1>4 DEF Challenge
  <1> QED
    BY <1>1, <1>2, <1>5, <1>6, <1>7

\* The types of an updated session.
LEMMA SessionTyped ==
    ASSUME TInv, NEW n \in 1..Len(session)
    PROVE  /\ session[n] \in Session
           /\ [session[n] EXCEPT !.live = FALSE] \in Session
  <1>1. session[n] \in Session
    BY DEF TInv, TypeOK
  <1> QED
    BY <1>1 DEF Session

\* The initial rows have their types.
LEMMA InitTyped == Init => TInv
  BY DEF Init, TInv, TypeOK, Reads, Idle, RequestState, ConsentType

\* What is done to an invitation keeps the types.
LEMMA InvitationTyped ==
    ASSUME TInv, NEW i \in Invitation,
           \/ \E p \in Phone : CreateInvitation(i, p) \/ RequestCode(i, p)
           \/ SendInvitation(i)
           \/ ExpireInvitation(i)
    PROVE  TInv'
  <1>1. ASSUME NEW p \in Phone, CreateInvitation(i, p) PROVE TInv'
    <2>1. \A j \in Invitation : invitation[j].state = "sent" => invitation'[j].state = "sent"
      BY <1>1 DEF CreateInvitation, NoInvitation, TInv, TypeOK
    <2>2. invitation' \in [Invitation -> Invited \cup {NoInvitation}]
      BY <1>1 DEF CreateInvitation, Invited, TInv, TypeOK
    <2>3. Reads'
      BY <1>1, <2>1, FlightTyped DEF CreateInvitation, TInv, Reads
    <2> QED
      BY <1>1, <2>2, <2>3 DEF CreateInvitation, TInv, TypeOK
  <1>2. ASSUME NEW p \in Phone, RequestCode(i, p) PROVE TInv'
    <2> DEFINE v == [phone |-> p, attempts |-> 0, consumed |-> FALSE, expired |-> FALSE]
    <2>1. v \in Challenge /\ challenge \in Seq(Challenge)
      BY DEF Challenge, TInv, TypeOK
    <2>2. challenge' = Append(challenge, v)
      BY <1>2 DEF RequestCode
    <2>3. /\ challenge' \in Seq(Challenge)
          /\ Len(challenge') = Len(challenge) + 1
          /\ \A n \in 1..Len(challenge) : challenge'[n] = challenge[n]
      BY <2>1, <2>2, AppendProperties
    <2> QED
      BY <1>2, <2>3 DEF RequestCode, TInv, TypeOK, Reads
  <1>3. CASE SendInvitation(i)
    <2>1. invitation[i] \in Invited
      BY <1>3 DEF SendInvitation, NoInvitation, TInv, TypeOK
    <2>2. invitation' \in [Invitation -> Invited \cup {NoInvitation}]
      BY <1>3, <2>1 DEF SendInvitation, Invited, TInv, TypeOK
    <2>3. \A j \in Invitation : invitation[j].state = "sent" => invitation'[j].state = "sent"
      BY <1>3, <2>1 DEF SendInvitation, Invited, TInv, TypeOK
    <2>4. Reads'
      BY <1>3, <2>3, FlightTyped DEF SendInvitation, TInv, Reads
    <2> QED
      BY <1>3, <2>2, <2>4 DEF SendInvitation, TInv, TypeOK
  <1>4. CASE ExpireInvitation(i)
    <2>1. invitation[i] \in Invited
      BY <1>4 DEF ExpireInvitation, Valid, NoInvitation, TInv, TypeOK
    <2>2. invitation' \in [Invitation -> Invited \cup {NoInvitation}]
      BY <1>4, <2>1 DEF ExpireInvitation, Invited, TInv, TypeOK
    <2>3. \A j \in Invitation : invitation[j].state = "sent" => invitation'[j].state = "sent"
      BY <1>4, <2>1 DEF ExpireInvitation, Invited, TInv, TypeOK
    <2>4. Reads'
      BY <1>4, <2>3, FlightTyped DEF ExpireInvitation, TInv, Reads
    <2> QED
      BY <1>4, <2>2, <2>4 DEF ExpireInvitation, TInv, TypeOK
  <1> QED
    BY <1>1, <1>2, <1>3, <1>4

\* A request reads its invitation or its challenge.
Asks(b) ==
    \/ \E i \in Invitation : PostCode(b, i)
    \/ \E p \in Phone, right \in BOOLEAN : CheckCode(b, p, right)
    \/ \E i \in Invitation, p \in Phone : AskDirectly(b, i, p)

\* Reading the invitation and the challenge keeps the types.
LEMMA CheckTyped ==
    ASSUME TInv, NEW b \in Browser, Asks(b)
    PROVE  TInv'
  <1>1. ASSUME NEW p \in Phone, NEW right \in BOOLEAN, CheckCode(b, p, right) PROVE TInv'
    <2>1. PICK n \in 1..Len(challenge) :
            /\ Newest(n, p)
            /\ req' = [req EXCEPT ![b] =
                 [pc |-> IF right THEN "proven" ELSE "wrong", phone |-> p,
                  code |-> n, invitation |-> req[b].invitation]]
      BY <1>1 DEF CheckCode
    <2>2. challenge[n].phone = p /\ n \in Nat /\ n # 0
      BY <2>1 DEF Newest, Unconsumed
    <2>3. req[b].invitation \in Invitation /\ invitation[req[b].invitation].state = "sent"
      BY <1>1, FlightTyped DEF CheckCode, TInv, Reads
    <2>4. [pc |-> IF right THEN "proven" ELSE "wrong", phone |-> p,
           code |-> n, invitation |-> req[b].invitation] \in RequestState
      BY <2>2, <2>3 DEF RequestState
    <2>5. alone' \in BOOLEAN /\ UNCHANGED <<otp, allowlisted, rows, cookie>>
      BY <1>1 DEF CheckCode, TInv, TypeOK
    <2> QED
      BY <2>1, <2>2, <2>3, <2>4, <2>5, BeginTyped
  <1>2. ASSUME NEW i \in Invitation, NEW p \in Phone, AskDirectly(b, i, p) PROVE TInv'
    <2>1. invitation[i].state = "sent"
      BY <1>2 DEF AskDirectly, Valid
    <2>2. [pc |-> "proven", phone |-> p, code |-> 0, invitation |-> i] \in RequestState
      BY DEF RequestState
    <2>3. alone' \in BOOLEAN /\ UNCHANGED <<otp, allowlisted, rows, cookie>>
      BY <1>2 DEF AskDirectly, Begin, TInv, TypeOK
    <2> QED
      BY <1>2, <2>1, <2>2, <2>3, BeginTyped DEF AskDirectly, Begin
  <1>3. ASSUME NEW i \in Invitation, PostCode(b, i) PROVE TInv'
    <2>1. invitation[i].state = "sent"
      BY <1>3 DEF PostCode, Valid
    <2>2. [pc |-> "posted", invitation |-> i] \in RequestState
      BY DEF RequestState
    <2>3. alone' \in BOOLEAN /\ UNCHANGED <<otp, allowlisted, rows, cookie>>
      BY <1>3 DEF PostCode, Begin, TInv, TypeOK
    <2> QED
      BY <1>3, <2>1, <2>2, <2>3, BeginTyped DEF PostCode, Begin
  <1> QED
    BY <1>1, <1>2, <1>3 DEF Asks

\* Counting a wrong code keeps the types.
LEMMA CountTyped ==
    ASSUME TInv, NEW b \in Browser, CountAttempt(b)
    PROVE  /\ TInv'
           /\ req[b].code \in 1..Len(challenge)
           /\ Len(challenge') = Len(challenge)
           /\ \A n \in 1..Len(challenge) :
                challenge'[n] = IF n = req[b].code
                                THEN [challenge[n] EXCEPT !.attempts = @ + 1]
                                ELSE challenge[n]
  <1>1. req[b].code \in 1..Len(challenge)
    BY DEF CountAttempt, TInv, Reads
  <1>2. challenge \in Seq(Challenge)
    BY DEF TInv, TypeOK
  <1> DEFINE n == req[b].code
             v == [challenge[n] EXCEPT !.attempts = @ + 1]
  <1>3. v \in Challenge /\ v.phone = challenge[n].phone
    BY <1>1, <1>2, ChallengeTyped DEF Challenge
  <1>4. challenge' = [challenge EXCEPT ![n] = v]
    BY <1>1, <1>2 DEF CountAttempt
  <1>5. /\ challenge' \in Seq(Challenge)
        /\ Len(challenge') = Len(challenge)
        /\ \A m \in 1..Len(challenge) : /\ challenge'[m] = IF m = n THEN v ELSE challenge[m]
                                        /\ challenge'[m].phone = challenge[m].phone
    <2> HIDE DEF n, v
    <2> QED
      BY <1>1, <1>3, <1>4, ChallengeWritten DEF n
  <1>6. Reads' /\ req' \in [Browser -> RequestState]
    BY <1>5, EndTyped DEF CountAttempt
  <1> QED
    BY <1>1, <1>5, <1>6 DEF CountAttempt, TInv, TypeOK

\* Locking the client's row keeps the types.
LEMMA LockTyped ==
    ASSUME TInv, NEW b \in Browser, LockClient(b)
    PROVE  TInv'
  <1>1. req[b] \in [pc : {"wrong", "proven"}, phone : Phone, code : Nat,
                    invitation : Invitation]
    BY DEF LockClient, TInv, TypeOK, RequestState, Idle
  <1>2. req'[b] \in RequestState /\ req' \in [Browser -> RequestState]
    BY <1>1 DEF LockClient, TInv, TypeOK, RequestState
  <1> QED
    BY <1>1, <1>2 DEF LockClient, rows, TInv, TypeOK, Reads

\* What a registration writes.
LEMMA CommitEffect ==
    ASSUME TInv, NEW b \in Browser, CommitRegistration(b)
    PROVE  /\ req[b] \in [pc : {"registering"}, phone : Phone, code : Nat,
                          invitation : Invitation, missing : SUBSET ConsentType,
                          untold : SUBSET Staff]
           /\ challenge' \in Seq(Challenge)
           /\ Len(challenge') = Len(challenge)
           /\ \A n \in 1..Len(challenge) :
                challenge'[n] = IF n = req[b].code
                                THEN [challenge[n] EXCEPT !.consumed = TRUE]
                                ELSE challenge[n]
           /\ session' \in Seq(Session)
           /\ Len(session') = Len(session) + 1
           /\ \A n \in 1..Len(session) : session'[n] = session[n]
           /\ session'[Len(session) + 1] =
                [phone |-> req[b].phone, challenge |-> req[b].code, live |-> TRUE]
  <1>1. req[b] \in [pc : {"registering"}, phone : Phone, code : Nat,
                    invitation : Invitation, missing : SUBSET ConsentType,
                    untold : SUBSET Staff]
    <2>1. req[b] \in RequestState /\ req[b].pc = "registering"
      BY DEF CommitRegistration, TInv, TypeOK
    <2> QED
      BY <2>1 DEF RequestState, Idle
  <1>2. challenge \in Seq(Challenge) /\ session \in Seq(Session)
    BY DEF TInv, TypeOK
  <1>3. /\ challenge' \in Seq(Challenge)
        /\ Len(challenge') = Len(challenge)
        /\ \A n \in 1..Len(challenge) :
             challenge'[n] = IF n = req[b].code
                             THEN [challenge[n] EXCEPT !.consumed = TRUE]
                             ELSE challenge[n]
    <2>1. CASE req[b].code = 0
      BY <1>2, <2>1 DEF CommitRegistration, Consumed
    <2>2. CASE req[b].code # 0
      <3> DEFINE n == req[b].code
                 v == [challenge[n] EXCEPT !.consumed = TRUE]
      <3>1. n \in 1..Len(challenge)
        BY <2>2 DEF CommitRegistration, TInv, Reads
      <3>2. v \in Challenge
        BY <3>1, ChallengeTyped
      <3>3. challenge' = [challenge EXCEPT ![n] = v]
        BY <1>2, <2>2, <3>1 DEF CommitRegistration, Consumed
      <3>4. /\ challenge' \in Seq(Challenge)
            /\ Len(challenge') = Len(challenge)
            /\ \A j \in 1..Len(challenge) : challenge'[j] = IF j = n THEN v ELSE challenge[j]
        <4> HIDE DEF n, v
        <4> QED
          BY <1>2, <3>1, <3>2, <3>3, ExceptSeq
      <3> QED
        BY <3>4
    <2> QED
      BY <2>1, <2>2
  <1>4. [phone |-> req[b].phone, challenge |-> req[b].code, live |-> TRUE] \in Session
    BY <1>1 DEF Session
  <1> QED
    BY <1>1, <1>2, <1>3, <1>4, AppendProperties DEF CommitRegistration

\* The commit of a registration keeps the types.
LEMMA CommitTyped ==
    ASSUME TInv, NEW b \in Browser, CommitRegistration(b)
    PROVE  TInv'
  <1> DEFINE r == req[b]
  <1>1. /\ r.phone \in Phone /\ r.invitation \in Invitation
        /\ r.missing \subseteq ConsentType /\ r.untold \subseteq Staff
    BY CommitEffect
  <1>2. invitation' \in [Invitation -> Invited \cup {NoInvitation}]
    <2>1. invitation[r.invitation] \in Invited
      BY <1>1 DEF CommitRegistration, TInv, TypeOK, Reads, NoInvitation
    <2> QED
      BY <1>1, <2>1 DEF CommitRegistration, TInv, TypeOK, Invited
  <1>3. \A i \in Invitation : invitation'[i].state = invitation[i].state
    BY <1>1 DEF CommitRegistration, TInv, TypeOK, Reads, NoInvitation, Invited
  <1>4. consents' \in [Phone -> [ConsentType -> Nat]]
    BY <1>1 DEF CommitRegistration, TInv, TypeOK
  <1>5. /\ NewSession = Len(session) + 1
        /\ NewSession \in 1..MaxSessions
    BY RegistrationAssumption DEF CommitRegistration, NewSession, TInv, TypeOK
  <1>6. req' \in [Browser -> RequestState]
    BY <1>5 DEF CommitRegistration, TInv, TypeOK, RequestState
  <1>7. client' \in SUBSET Phone /\ events' \in SUBSET (Phone \X Staff)
    BY <1>1 DEF CommitRegistration, TInv, TypeOK
  <1>8. cookie' \in [Browser -> 0..Len(session')]
    BY CommitEffect DEF CommitRegistration, TInv, TypeOK
  <1>9. TypeOK'
    BY <1>2, <1>4, <1>6, <1>7, <1>8, CommitEffect
    DEF CommitRegistration, TInv, TypeOK
  <1>10. Reads'
    <2>1. \A x \in Browser \ {b} : req'[x] = req[x]
      BY DEF CommitRegistration, TInv, TypeOK
    <2>2. req'[b] = [pc |-> "answered", session |-> Len(session) + 1]
      BY <1>5 DEF CommitRegistration, TInv, TypeOK
    <2>3. \A n \in 1..Len(challenge) : challenge'[n].phone = challenge[n].phone
      BY CommitEffect, ChallengeTyped
    <2>4. Len(session) \in Nat
      BY DEF TInv, TypeOK
    <2>5. Len(challenge') = Len(challenge) /\ Len(session') = Len(session) + 1
      BY CommitEffect
    <2>6. ASSUME NEW x \in Browser \ {b}
          PROVE  /\ req'[x].pc = "wrong" => req'[x].code # 0
                 /\ req'[x].pc \in {"posted", "wrong", "proven", "registering"} =>
                      invitation'[req'[x].invitation].state = "sent"
                 /\ req'[x].pc \in {"wrong", "proven", "registering"} /\ req'[x].code # 0 =>
                      /\ req'[x].code \in 1..Len(challenge')
                      /\ challenge'[req'[x].code].phone = req'[x].phone
                 /\ req'[x].pc = "answered" => req'[x].session \in 1..Len(session')
      BY <1>3, <2>1, <2>3, <2>4, <2>5, FlightTyped DEF TInv, Reads
    <2> QED
      BY <2>2, <2>4, <2>5, <2>6 DEF Reads
  <1> QED
    BY <1>9, <1>10 DEF TInv

\* What happens after the registration (a lost answer, the cookie, reading and
\* closing a session) keeps the types.
LEMMA SessionsTyped ==
    ASSUME TInv, NEW b \in Browser,
           Abort(b) \/ ReceiveCookie(b) \/ GetSession(b) \/ SignOut(b)
    PROVE  TInv'
  <1>1. CASE Abort(b)
    BY <1>1, EndTyped DEF Abort, rows, TInv, TypeOK
  <1>2. CASE ReceiveCookie(b)
    <2>1. req[b].session \in 0..Len(session)
      BY <1>2 DEF ReceiveCookie, TInv, TypeOK, Reads
    <2> QED
      BY <1>2, <2>1, EndTyped DEF ReceiveCookie, rows, TInv, TypeOK
  <1>3. CASE GetSession(b)
    BY <1>3 DEF GetSession, rows, TInv, TypeOK, Reads
  <1>4. CASE SignOut(b)
    <2> DEFINE n == cookie[b]
               v == [session[n] EXCEPT !.live = FALSE]
    <2>1. n \in 1..Len(session) /\ session \in Seq(Session)
      BY <1>4 DEF SignOut, TInv, TypeOK
    <2>2. v \in Session /\ session' = [session EXCEPT ![n] = v]
      BY <1>4, <2>1, SessionTyped DEF SignOut
    <2>3. session' \in Seq(Session) /\ Len(session') = Len(session)
      <3> HIDE DEF n, v
      <3> QED
        BY <2>1, <2>2, SessionWritten
    <2>4. cookie' \in [Browser -> 0..Len(session)]
      BY <1>4, <2>1 DEF SignOut, TInv, TypeOK
    <2> QED
      BY <1>4, <2>3, <2>4 DEF SignOut, TInv, TypeOK, Reads
  <1> QED
    BY <1>1, <1>2, <1>3, <1>4

\* The expiry of challenges and sessions keeps the types.
LEMMA ExpiryTyped ==
    ASSUME TInv,
           \/ \E n \in 1..Len(challenge) : ExpireChallenge(n)
           \/ \E n \in 1..Len(session) : ExpireSession(n)
    PROVE  TInv'
  <1>1. ASSUME NEW n \in 1..Len(challenge), ExpireChallenge(n) PROVE TInv'
    <2> DEFINE v == [challenge[n] EXCEPT !.expired = TRUE]
    <2>1. v \in Challenge /\ v.phone = challenge[n].phone
      BY <1>1, ChallengeTyped DEF Challenge
    <2>2. challenge' = [challenge EXCEPT ![n] = v]
      BY <1>1 DEF ExpireChallenge, TInv, TypeOK
    <2>3. /\ challenge' \in Seq(Challenge)
          /\ Len(challenge') = Len(challenge)
          /\ \A m \in 1..Len(challenge) : challenge'[m].phone = challenge[m].phone
      <3> HIDE DEF v
      <3> QED
        BY <1>1, <2>1, <2>2, ChallengeWritten
    <2> QED
      BY <1>1, <2>3 DEF ExpireChallenge, TInv, TypeOK, Reads
  <1>2. ASSUME NEW n \in 1..Len(session), ExpireSession(n) PROVE TInv'
    <2> DEFINE v == [session[n] EXCEPT !.live = FALSE]
    <2>1. v \in Session
      BY <1>2, SessionTyped
    <2>2. session' = [session EXCEPT ![n] = v]
      BY <1>2 DEF ExpireSession, TInv, TypeOK
    <2>3. session' \in Seq(Session) /\ Len(session') = Len(session)
      <3> HIDE DEF v
      <3> QED
        BY <1>2, <2>1, <2>2, SessionWritten
    <2> QED
      BY <1>2, <2>3 DEF ExpireSession, TInv, TypeOK, Reads
  <1> QED
    BY <1>1, <1>2

----------------------------------------------------------------------------
(* Frames: what the steps that write no consents, no attempt and no new    *)
(* session leave as it was.                                                *)

\* A step that leaves client, consents and events alone leaves them whole.
LEMMA WholeKept ==
    ASSUME TInv, WInv, UNCHANGED <<allowlisted, client, consents, events>>,
           \A b \in Browser : req'[b].pc = "registering" => req'[b] = req[b],
           \A i \in Invitation : invitation[i] # NoInvitation /\ invitation[i].accepted
             => invitation'[i] # NoInvitation /\ invitation'[i].accepted,
           \A n \in 1..Len(session') : session'[n].phone \in client
    PROVE  WInv'
  <1>1. Reserved'
    BY DEF WInv, Reserved
  <1>2. RegistrationIsWhole'
    BY DEF WInv, RegistrationIsWhole
  <1> QED
    BY <1>1, <1>2 DEF WInv

\* No more requests than browsers are about to count a wrong code.
LEMMA WrongTyped ==
    ASSUME NEW n
    PROVE  /\ IsFiniteSet(Wrong(n))
           /\ Cardinality(Wrong(n)) \in Nat
           /\ Cardinality(Wrong(n)) <= Cardinality(Browser)
           /\ Cardinality(Browser) \in Nat
  <1>1. Wrong(n) \in SUBSET Browser /\ IsFiniteSet(Browser)
    BY RegistrationAssumption DEF Wrong
  <1> QED
    BY <1>1, FS_Subset, FS_CardinalityType

\* A step that charges no challenge keeps the attempts bounded.
LEMMA ChargedKept ==
    ASSUME TInv, Charged, Len(challenge') = Len(challenge),
           \A n \in 1..Len(challenge) : challenge'[n].attempts = challenge[n].attempts,
           \A b \in Browser : req'[b].pc = "wrong" => req'[b] = req[b]
    PROVE  Charged'
  <1> SUFFICES ASSUME NEW n \in 1..Len(challenge)
               PROVE  challenge'[n].attempts
                        + Cardinality({b \in Browser : req'[b].pc = "wrong" /\ req'[b].code = n})
                        <= MaxAttempts - 1 + Cardinality(Browser)
    BY DEF Charged, Wrong
  <1> DEFINE W == {b \in Browser : req'[b].pc = "wrong" /\ req'[b].code = n}
  <1>1. W \in SUBSET Wrong(n)
    BY DEF Wrong
  <1>2. Cardinality(W) \in Nat /\ Cardinality(W) <= Cardinality(Wrong(n))
    BY <1>1, WrongTyped, FS_Subset, FS_CardinalityType
  <1>3. challenge[n].attempts \in Nat
    BY ChallengeTyped DEF Challenge
  <1>4. challenge[n].attempts + Cardinality(Wrong(n)) <= MaxAttempts - 1 + Cardinality(Browser)
    BY DEF Charged
  <1> HIDE DEF W
  <1>5. challenge'[n].attempts + Cardinality(W) <= MaxAttempts - 1 + Cardinality(Browser)
    BY <1>2, <1>3, <1>4, WrongTyped, RegistrationAssumption
  <1> QED
    BY <1>5 DEF W

\* A step that opens no session keeps the codes spent.
LEMMA SpentKept ==
    ASSUME TInv, SpentInv, UNCHANGED alone,
           Len(challenge') \in Nat, Len(challenge) <= Len(challenge'),
           \A n \in 1..Len(challenge) : /\ challenge'[n].consumed = challenge[n].consumed
                                        /\ challenge'[n].phone = challenge[n].phone,
           Len(session') = Len(session),
           \A n \in 1..Len(session) : /\ session'[n].challenge = session[n].challenge
                                      /\ session'[n].phone = session[n].phone,
           \A b \in Browser :
             /\ req[b] = Idle => req'[b] = Idle
             /\ req'[b].pc \in {"proven", "registering"} =>
                  /\ req[b].pc \in {"proven", "registering"}
                  /\ req'[b].code = req[b].code
    PROVE  SpentInv'
  <1>1. Len(challenge) \in Nat
    BY DEF TInv, TypeOK
  <1>2. Apart'
    BY <1>1 DEF TInv, Reads, SpentInv, Apart
  <1>3. CodesAreSpent'
    BY <1>1 DEF SpentInv, CodesAreSpent
  <1> QED
    BY <1>2, <1>3 DEF SpentInv

\* A session that ends keeps its client and its challenge.
LEMMA SessionFlagged ==
    ASSUME TInv, NEW n \in 1..Len(session),
           session' = [session EXCEPT ![n] = [session[n] EXCEPT !.live = FALSE]]
    PROVE  /\ Len(session') = Len(session)
           /\ \A m \in 1..Len(session) : /\ session'[m].phone = session[m].phone
                                         /\ session'[m].challenge = session[m].challenge
  <1> DEFINE v == [session[n] EXCEPT !.live = FALSE]
  <1>1. session[n] \in Session /\ v \in Session
    BY SessionTyped
  <1>2. v.phone = session[n].phone /\ v.challenge = session[n].challenge
    BY <1>1 DEF Session
  <1> HIDE DEF v
  <1>3. /\ Len(session') = Len(session)
        /\ \A m \in 1..Len(session) : session'[m] = IF m = n THEN v ELSE session[m]
    BY <1>1, SessionWritten DEF v
  <1> QED
    BY <1>2, <1>3

\* A step that only ends requests and sessions keeps the invariant.
LEMMA QuietKeeps ==
    ASSUME IInv, TInv',
           UNCHANGED <<otp, allowlisted, invitation, challenge, client, consents, events,
                       alone>>,
           \A x \in Browser : req'[x] = req[x] \/ req'[x] = Idle,
           Len(session') = Len(session),
           \A n \in 1..Len(session) : /\ session'[n].phone = session[n].phone
                                      /\ session'[n].challenge = session[n].challenge
    PROVE  IInv'
  <1>1. WInv'
    BY WholeKept DEF IInv, WInv, RegistrationIsWhole, Idle
  <1>2. Charged'
    BY ChargedKept DEF IInv, Idle
  <1>3. SpentInv'
    <2>1. Len(challenge) \in Nat
      BY DEF IInv, TInv, TypeOK
    <2> QED
      BY <2>1, SpentKept DEF IInv, Idle
  <1> QED
    BY <1>1, <1>2, <1>3 DEF IInv

----------------------------------------------------------------------------
(* Every step keeps the invariant.                                         *)

\* Inviting keeps the invariant.
LEMMA InvitationKeeps ==
    ASSUME IInv, NEW i \in Invitation,
           \/ \E p \in Phone : CreateInvitation(i, p)
           \/ SendInvitation(i)
           \/ ExpireInvitation(i)
    PROVE  IInv'
  <1>1. TInv'
    BY InvitationTyped DEF IInv
  <1>2. UNCHANGED <<otp, allowlisted, challenge, client, consents, events, session,
                    cookie, req, alone>>
    BY DEF CreateInvitation, SendInvitation, ExpireInvitation
  <1>3. \A j \in Invitation : invitation[j] # NoInvitation /\ invitation[j].accepted
             => invitation'[j] # NoInvitation /\ invitation'[j].accepted
    <2>1. ASSUME NEW p \in Phone, CreateInvitation(i, p)
          PROVE  \A j \in Invitation \ {i} : invitation'[j] = invitation[j]
      BY <2>1 DEF CreateInvitation, IInv, TInv, TypeOK
    <2>2. CASE \E p \in Phone : CreateInvitation(i, p)
      BY <2>1, <2>2 DEF CreateInvitation
    <2>3. CASE SendInvitation(i)
      <3>1. invitation[i] \in Invited
        BY <2>3 DEF SendInvitation, NoInvitation, IInv, TInv, TypeOK
      <3> QED
        BY <2>3, <3>1 DEF SendInvitation, NoInvitation, Invited, IInv, TInv, TypeOK
    <2>4. CASE ExpireInvitation(i)
      <3>1. invitation[i] \in Invited
        BY <2>4 DEF ExpireInvitation, Valid, NoInvitation, IInv, TInv, TypeOK
      <3> QED
        BY <2>4, <3>1 DEF ExpireInvitation, NoInvitation, Invited, IInv, TInv, TypeOK
    <2> QED
      BY <2>2, <2>3, <2>4
  <1>4. WInv'
    BY <1>2, <1>3, WholeKept DEF IInv, WInv, RegistrationIsWhole
  <1>5. Charged'
    BY <1>2, ChargedKept DEF IInv
  <1>6. SpentInv'
    BY <1>2, SpentKept DEF IInv, TInv, TypeOK
  <1> QED
    BY <1>1, <1>4, <1>5, <1>6 DEF IInv

\* Requesting a code keeps the invariant.
LEMMA RequestKeeps ==
    ASSUME IInv, NEW i \in Invitation, NEW p \in Phone, RequestCode(i, p)
    PROVE  IInv'
  <1> DEFINE v == [phone |-> p, attempts |-> 0, consumed |-> FALSE, expired |-> FALSE]
  <1>1. TInv'
    BY InvitationTyped DEF IInv
  <1>2. v \in Challenge /\ challenge \in Seq(Challenge)
    BY DEF Challenge, IInv, TInv, TypeOK
  <1>3. /\ Len(challenge') = Len(challenge) + 1
        /\ \A n \in 1..Len(challenge) : challenge'[n] = challenge[n]
        /\ challenge'[Len(challenge) + 1] = v
    BY <1>2, AppendProperties DEF RequestCode
  <1>4. UNCHANGED <<otp, allowlisted, invitation, client, consents, events, session,
                    cookie, req, alone>>
    BY DEF RequestCode
  <1>5. WInv'
    BY <1>4, WholeKept DEF IInv, WInv, RegistrationIsWhole
  <1>6. Charged'
    <2>1. \A n \in 1..Len(challenge) :
            challenge'[n].attempts + Cardinality(Wrong(n)) <= MaxAttempts - 1 + Cardinality(Browser)
      BY <1>3 DEF IInv, Charged
    <2>2. 0 + Cardinality(Wrong(Len(challenge) + 1)) <= MaxAttempts - 1 + Cardinality(Browser)
      BY WrongTyped, RegistrationAssumption
    <2>3. Len(challenge) \in Nat
      BY <1>2
    <2>4. \A n \in 1..Len(challenge') :
            challenge'[n].attempts + Cardinality(Wrong(n)) <= MaxAttempts - 1 + Cardinality(Browser)
      BY <1>3, <2>1, <2>2, <2>3
    <2>5. \A n \in 1..Len(challenge') :
            Wrong(n) = {b \in Browser : req'[b].pc = "wrong" /\ req'[b].code = n}
      BY <1>4 DEF Wrong
    <2> QED
      BY <2>4, <2>5 DEF Charged, Wrong
  <1>7. SpentInv'
    BY <1>2, <1>3, <1>4, SpentKept DEF IInv
  <1> QED
    BY <1>1, <1>5, <1>6, <1>7 DEF IInv

\* Reading the invitation and the challenge keeps the invariant.
LEMMA CheckKeeps ==
    ASSUME IInv, NEW b \in Browser, Asks(b)
    PROVE  IInv'
  <1>1. TInv'
    BY CheckTyped DEF IInv
  <1> DEFINE Starts(st) ==
               /\ req' = [req EXCEPT ![b] = st]
               /\ req[b] = Idle \/ req[b].pc = "posted"
               /\ alone' => alone /\ (req[b] # Idle \/ \A x \in Browser : req[x] = Idle)
               /\ UNCHANGED <<otp, allowlisted, rows, cookie>>
               /\ st.pc \in {"posted", "proven", "wrong"}
               /\ st.pc = "wrong" => ~Locked(st.code)
               /\ st.pc # "posted" /\ st.code # 0 => st.code \in Unconsumed(st.phone)
  <1>2. PICK st : Starts(st)
    <2>1. ASSUME NEW i \in Invitation, NEW p \in Phone, AskDirectly(b, i, p)
          PROVE  Starts([pc |-> "proven", phone |-> p, code |-> 0, invitation |-> i])
      BY <2>1 DEF AskDirectly, Begin
    <2>2. ASSUME NEW p \in Phone, NEW right \in BOOLEAN, CheckCode(b, p, right)
          PROVE  \E st : Starts(st)
      <3>1. PICK n \in 1..Len(challenge) :
              /\ Newest(n, p)
              /\ ~Locked(n)
              /\ req' = [req EXCEPT ![b] =
                   [pc |-> IF right THEN "proven" ELSE "wrong", phone |-> p,
                    code |-> n, invitation |-> req[b].invitation]]
        BY <2>2 DEF CheckCode
      <3>2. req[b].pc = "posted" /\ req[b] # Idle
        BY <2>2 DEF CheckCode, Idle
      <3>3. Starts([pc |-> IF right THEN "proven" ELSE "wrong", phone |-> p,
                    code |-> n, invitation |-> req[b].invitation])
        BY <2>2, <3>1, <3>2 DEF CheckCode, Newest
      <3> QED
        BY <3>3
    <2>3. ASSUME NEW i \in Invitation, PostCode(b, i)
          PROVE  Starts([pc |-> "posted", invitation |-> i])
      BY <2>3 DEF PostCode, Begin
    <2> HIDE DEF Starts
    <2> QED
      BY <2>1, <2>2, <2>3 DEF Asks
  <1>3. /\ req[b] = Idle \/ req[b].pc = "posted"
        /\ req'[b] = st
        /\ \A x \in Browser \ {b} : req'[x] = req[x]
        /\ alone' => alone /\ (req[b] # Idle \/ \A x \in Browser : req[x] = Idle)
        /\ UNCHANGED <<otp, allowlisted, rows, cookie>>
    BY <1>2 DEF IInv, TInv, TypeOK
  <1>4. WInv'
    BY <1>2, <1>3, WholeKept DEF rows, IInv, WInv, RegistrationIsWhole
  <1>5. Charged'
    <2> SUFFICES ASSUME NEW n \in 1..Len(challenge)
                 PROVE  challenge[n].attempts
                          + Cardinality({x \in Browser : req'[x].pc = "wrong" /\ req'[x].code = n})
                          <= MaxAttempts - 1 + Cardinality(Browser)
      BY <1>3 DEF Charged, Wrong, rows
    <2> DEFINE W == {x \in Browser : req'[x].pc = "wrong" /\ req'[x].code = n}
    <2>1. W \in SUBSET Browser /\ IsFiniteSet(Browser)
      BY RegistrationAssumption
    <2>2. /\ Cardinality(W) \in Nat /\ Cardinality(W) <= Cardinality(Browser)
          /\ Cardinality(Browser) \in Nat
      BY <2>1, FS_Subset, FS_CardinalityType
    <2>3. challenge[n].attempts \in Nat
      BY ChallengeTyped DEF Challenge, IInv
    <2>4. CASE st.pc = "wrong" /\ st.code = n
      <3>1. challenge[n].attempts <= MaxAttempts - 1
        BY <1>2, <2>3, <2>4, RegistrationAssumption DEF Locked
      <3> HIDE DEF W
      <3>2. challenge[n].attempts + Cardinality(W) <= MaxAttempts - 1 + Cardinality(Browser)
        BY <2>2, <2>3, <3>1, RegistrationAssumption
      <3> QED
        BY <3>2 DEF W
    <2>5. CASE ~(st.pc = "wrong" /\ st.code = n)
      <3>1. W = Wrong(n)
        BY <1>3, <2>5 DEF Wrong, Idle
      <3> QED
        BY <3>1 DEF IInv, Charged
    <2> QED
      BY <2>4, <2>5
  <1>6. SpentInv'
    <2>1. Apart'
      <3>1. /\ alone => \A y, x \in Browser : y # x => req[y] = Idle \/ req[x] = Idle
            /\ alone => \A x \in Browser :
                 req[x].pc \in {"proven", "registering"} /\ req[x].code # 0
                 => ~challenge[req[x].code].consumed
        BY DEF IInv, SpentInv, Apart
      <3>2. ASSUME alone' PROVE \A x \in Browser \ {b} : req'[x] = Idle
        BY <1>3, <3>1, <3>2
      <3>3. ASSUME alone', NEW x \in Browser, req'[x].pc \in {"proven", "registering"},
                   req'[x].code # 0
            PROVE  ~challenge'[req'[x].code].consumed
        BY <1>2, <1>3, <3>2, <3>3 DEF Unconsumed, rows, Idle
      <3> QED
        BY <3>2, <3>3 DEF Apart
    <2>2. CodesAreSpent'
      BY <1>3 DEF IInv, SpentInv, CodesAreSpent, rows
    <2> QED
      BY <2>1, <2>2 DEF SpentInv
  <1> QED
    BY <1>1, <1>4, <1>5, <1>6 DEF IInv

\* Counting a wrong code keeps the invariant.
LEMMA CountKeeps ==
    ASSUME IInv, NEW b \in Browser, CountAttempt(b)
    PROVE  IInv'
  <1>1. /\ TInv'
        /\ req[b].code \in 1..Len(challenge)
        /\ Len(challenge') = Len(challenge)
        /\ \A n \in 1..Len(challenge) :
             challenge'[n] = IF n = req[b].code
                             THEN [challenge[n] EXCEPT !.attempts = @ + 1]
                             ELSE challenge[n]
    BY CountTyped DEF IInv
  <1>2. /\ req[b].pc = "wrong" /\ req'[b] = Idle
        /\ \A x \in Browser \ {b} : req'[x] = req[x]
        /\ UNCHANGED <<otp, allowlisted, invitation, client, consents, events, session,
                       cookie, alone>>
    BY DEF CountAttempt, IInv, TInv, TypeOK
  <1>3. \A n \in 1..Len(challenge) :
          /\ challenge'[n].consumed = challenge[n].consumed
          /\ challenge'[n].phone = challenge[n].phone
          /\ challenge[n].attempts \in Nat
          /\ challenge'[n].attempts = IF n = req[b].code THEN challenge[n].attempts + 1
                                                         ELSE challenge[n].attempts
    <2> SUFFICES ASSUME NEW n \in 1..Len(challenge)
                 PROVE  /\ challenge'[n].consumed = challenge[n].consumed
                        /\ challenge'[n].phone = challenge[n].phone
                        /\ challenge[n].attempts \in Nat
                        /\ challenge'[n].attempts = IF n = req[b].code
                                                    THEN challenge[n].attempts + 1
                                                    ELSE challenge[n].attempts
      OBVIOUS
    <2>1. PICK r \in Challenge : r = challenge[n]
      BY ChallengeTyped DEF IInv
    <2>2. r = [phone |-> r.phone, attempts |-> r.attempts, consumed |-> r.consumed,
               expired |-> r.expired]
          /\ r.attempts \in Nat
      BY DEF Challenge
    <2>3. CASE n = req[b].code
      <3>1. challenge'[n] = [r EXCEPT !.attempts = @ + 1]
        BY <1>1, <2>1, <2>3
      <3> QED
        BY <2>1, <2>2, <2>3, <3>1
    <2>4. CASE n # req[b].code
      BY <1>1, <2>1, <2>2, <2>4
    <2> QED
      BY <2>3, <2>4
  <1>4. WInv'
    BY <1>2, WholeKept DEF IInv, WInv, RegistrationIsWhole, Idle
  <1>5. Charged'
    <2> SUFFICES ASSUME NEW n \in 1..Len(challenge)
                 PROVE  challenge'[n].attempts
                          + Cardinality({x \in Browser : req'[x].pc = "wrong" /\ req'[x].code = n})
                          <= MaxAttempts - 1 + Cardinality(Browser)
      BY <1>1 DEF Charged, Wrong
    <2> DEFINE W == {x \in Browser : req'[x].pc = "wrong" /\ req'[x].code = n}
    <2>1. challenge[n].attempts + Cardinality(Wrong(n)) <= MaxAttempts - 1 + Cardinality(Browser)
      BY DEF IInv, Charged
    <2>2. CASE n = req[b].code
      <3>1. b \in Wrong(n) /\ W = Wrong(n) \ {b}
        BY <1>2, <2>2 DEF Wrong, Idle
      <3>2. /\ Cardinality(Wrong(n)) \in Nat
            /\ Cardinality(W) = Cardinality(Wrong(n)) - 1
        <4> HIDE DEF W
        <4> QED
          BY <3>1, WrongTyped, FS_RemoveElement
      <3> HIDE DEF W
      <3>3. challenge'[n].attempts + Cardinality(W) <= MaxAttempts - 1 + Cardinality(Browser)
        BY <1>3, <2>1, <2>2, <3>2, WrongTyped, RegistrationAssumption
      <3> QED
        BY <3>3 DEF W
    <2>3. CASE n # req[b].code
      <3>1. W = Wrong(n)
        BY <1>2, <2>3 DEF Wrong, Idle
      <3> QED
        BY <1>3, <2>1, <2>3, <3>1
    <2> QED
      BY <2>2, <2>3
  <1>6. SpentInv'
    <2>1. \A x \in Browser :
            /\ req[x] = Idle => req'[x] = Idle
            /\ req'[x].pc \in {"proven", "registering"} => req'[x] = req[x]
      BY <1>2 DEF Idle
    <2>2. Len(challenge) \in Nat
      BY DEF IInv, TInv, TypeOK
    <2>3. TInv /\ SpentInv
      BY DEF IInv
    <2> QED
      BY <1>1, <1>2, <1>3, <2>1, <2>2, <2>3, SpentKept
  <1> QED
    BY <1>1, <1>4, <1>5, <1>6 DEF IInv

\* Locking the client's row keeps the invariant.
LEMMA LockKeeps ==
    ASSUME IInv, NEW b \in Browser, LockClient(b)
    PROVE  IInv'
  <1>1. TInv'
    BY LockTyped DEF IInv
  <1>2. /\ req[b].pc = "proven"
        /\ req'[b].pc = "registering"
        /\ req'[b].phone = req[b].phone
        /\ req'[b].code = req[b].code
        /\ req'[b].missing = {k \in ConsentType : consents[req[b].phone][k] = 0}
        /\ req'[b].untold = {s \in allowlisted : <<req[b].phone, s>> \notin events}
        /\ \A x \in Browser \ {b} : req'[x] = req[x]
        /\ UNCHANGED <<otp, allowlisted, rows, cookie, alone>>
    BY DEF LockClient, IInv, TInv, TypeOK
  <1>3. \A x \in Browser \ {b} : ~(req[x].pc = "registering" /\ req[x].phone = req[b].phone)
    BY DEF LockClient, ClientUnlocked
  <1>4. WInv'
    <2>1. Reserved'
      BY <1>2, <1>3 DEF IInv, WInv, Reserved, rows
    <2>2. RegistrationIsWhole'
      BY <1>2 DEF IInv, WInv, RegistrationIsWhole, rows
    <2> QED
      BY <2>1, <2>2 DEF WInv
  <1>5. Charged'
    BY <1>2, ChargedKept DEF IInv, rows
  <1>6. SpentInv'
    <2>1. \A x \in Browser :
            /\ req[x] = Idle => req'[x] = Idle
            /\ req'[x].pc \in {"proven", "registering"} =>
                 /\ req[x].pc \in {"proven", "registering"}
                 /\ req'[x].code = req[x].code
      BY <1>2 DEF Idle
    <2>2. Len(challenge) \in Nat
      BY DEF IInv, TInv, TypeOK
    <2>3. TInv /\ SpentInv /\ UNCHANGED <<challenge, session, alone>>
      BY <1>2 DEF IInv, rows
    <2> QED
      BY <2>1, <2>2, <2>3, SpentKept
  <1> QED
    BY <1>1, <1>4, <1>5, <1>6 DEF IInv

\* The commit of a registration keeps the invariant.
LEMMA CommitKeeps ==
    ASSUME IInv, NEW b \in Browser, CommitRegistration(b)
    PROVE  IInv'
  <1> DEFINE p == req[b].phone
             c == req[b].code
  <1>1. TInv' /\ TInv
    BY CommitTyped DEF IInv
  <1>2. /\ p \in Phone /\ c \in Nat /\ req[b].invitation \in Invitation
        /\ req[b].missing \in SUBSET ConsentType
        /\ req[b].untold \in SUBSET Staff
    BY <1>1, FlightTyped, TransactionTyped DEF CommitRegistration
  <1>3. /\ req[b].pc = "registering"
        /\ req'[b].pc = "answered" /\ req'[b] # Idle
        /\ \A x \in Browser \ {b} : req'[x] = req[x]
        /\ UNCHANGED <<otp, allowlisted, cookie, alone>>
        /\ client' = client \cup {p}
        /\ events' = events \cup ({p} \X req[b].untold)
    BY <1>1 DEF CommitRegistration, TInv, TypeOK, Idle
  <1>4. \A q \in Phone, k \in ConsentType :
          consents'[q][k] = IF q = p /\ k \in req[b].missing THEN consents[q][k] + 1
                                                             ELSE consents[q][k]
    BY <1>1, <1>2 DEF CommitRegistration, TInv, TypeOK
  <1>5. /\ req[b].missing = {k \in ConsentType : consents[p][k] = 0}
        /\ req[b].untold = {s \in allowlisted : <<p, s>> \notin events}
        /\ \A x \in Browser \ {b} : ~(req[x].pc = "registering" /\ req[x].phone = p)
    BY <1>3 DEF IInv, WInv, Reserved
  <1>6. /\ Len(challenge') = Len(challenge)
        /\ \A n \in 1..Len(challenge) :
             challenge'[n] = IF n = c THEN [challenge[n] EXCEPT !.consumed = TRUE]
                                      ELSE challenge[n]
        /\ Len(session') = Len(session) + 1
        /\ \A n \in 1..Len(session) : session'[n] = session[n]
        /\ session'[Len(session) + 1].phone = p
        /\ session'[Len(session) + 1].challenge = c
        /\ Len(session) \in Nat /\ Len(challenge) \in Nat
    <2>1. Len(session) \in Nat /\ Len(challenge) \in Nat
      BY <1>1 DEF TInv, TypeOK
    <2>2. session'[Len(session) + 1] = [phone |-> p, challenge |-> c, live |-> TRUE]
      BY <1>1, CommitEffect
    <2>3. /\ session'[Len(session) + 1].phone = p
          /\ session'[Len(session) + 1].challenge = c
      BY <2>2
    <2> QED
      BY <1>1, <2>1, <2>3, CommitEffect
  <1>7. \A n \in 1..Len(challenge) :
          /\ challenge'[n].phone = challenge[n].phone
          /\ challenge'[n].attempts = challenge[n].attempts
          /\ challenge'[n].consumed = (challenge[n].consumed \/ n = c)
    <2> SUFFICES ASSUME NEW n \in 1..Len(challenge)
                 PROVE  /\ challenge'[n].phone = challenge[n].phone
                        /\ challenge'[n].attempts = challenge[n].attempts
                        /\ challenge'[n].consumed = (challenge[n].consumed \/ n = c)
      OBVIOUS
    <2>1. PICK r \in Challenge : r = challenge[n]
      BY <1>1, ChallengeTyped
    <2>2. r = [phone |-> r.phone, attempts |-> r.attempts, consumed |-> r.consumed,
               expired |-> r.expired]
      BY DEF Challenge
    <2>3. CASE n = c
      <3>1. challenge'[n] = [r EXCEPT !.consumed = TRUE]
        BY <1>6, <2>1, <2>3
      <3> QED
        BY <2>1, <2>2, <2>3, <3>1
    <2>4. CASE n # c
      <3>1. challenge'[n] = challenge[n] /\ challenge[n].consumed \in BOOLEAN
        BY <1>6, <2>1, <2>4 DEF Challenge
      <3> QED
        BY <2>4, <3>1
    <2> QED
      BY <2>3, <2>4
  <1>8. WInv'
    <2>1. \A q \in Phone, k \in ConsentType :
            consents'[q][k] = IF q \in client' THEN 1 ELSE 0
      BY <1>2, <1>3, <1>4, <1>5 DEF IInv, WInv, RegistrationIsWhole
    <2>2. events' = client' \X allowlisted'
      <3>1. events = client \X allowlisted
        BY DEF IInv, WInv, RegistrationIsWhole
      <3>2. ASSUME NEW e PROVE e \in events' <=> e \in client' \X allowlisted'
        BY <1>3, <1>5, <3>1
      <3> QED
        <4>1. events' \subseteq client' \X allowlisted'
          BY <3>2
        <4>2. client' \X allowlisted' \subseteq events'
          BY <3>2
        <4> QED
          BY <4>1, <4>2
    <2>3. \E i \in Invitation : invitation'[i] # NoInvitation /\ invitation'[i].accepted
      <3> DEFINE i == req[b].invitation
      <3>1. invitation[i] \in Invited
        BY <1>1, <1>2, <1>3 DEF TInv, TypeOK, Reads, NoInvitation
      <3>2. invitation'[i] = [invitation[i] EXCEPT !.accepted = TRUE]
        BY <1>1, <1>2 DEF CommitRegistration, TInv, TypeOK
      <3>3. invitation'[i].accepted /\ invitation'[i].state # "none"
        BY <3>1, <3>2 DEF Invited
      <3> QED
        BY <1>2, <3>3 DEF NoInvitation
    <2>4. \A n \in 1..Len(session') : session'[n].phone \in client'
      <3>1. \A n \in 1..Len(session) : session[n].phone \in client
        BY DEF IInv, WInv, RegistrationIsWhole
      <3>2. \A n \in 1..Len(session') : n \in 1..Len(session) \/ n = Len(session) + 1
        BY <1>6
      <3> QED
        BY <1>3, <1>6, <3>1, <3>2
    <2>5. RegistrationIsWhole'
      BY <2>1, <2>2, <2>3, <2>4 DEF RegistrationIsWhole
    <2>6. Reserved'
      <3> SUFFICES ASSUME NEW x \in Browser, req'[x].pc = "registering"
                   PROVE  /\ \A y \in Browser \ {x} :
                               ~(req'[y].pc = "registering" /\ req'[y].phone = req'[x].phone)
                          /\ req'[x].missing
                               = {k \in ConsentType : consents'[req'[x].phone][k] = 0}
                          /\ req'[x].untold
                               = {s \in allowlisted' : <<req'[x].phone, s>> \notin events'}
        BY DEF Reserved
      <3>1. x # b /\ req'[x] = req[x] /\ req[x].pc = "registering" /\ req[x].phone # p
        BY <1>3, <1>5
      <3>2. /\ \A y \in Browser \ {x} :
                 ~(req[y].pc = "registering" /\ req[y].phone = req[x].phone)
            /\ req[x].missing = {k \in ConsentType : consents[req[x].phone][k] = 0}
            /\ req[x].untold = {s \in allowlisted : <<req[x].phone, s>> \notin events}
        BY <3>1 DEF IInv, WInv, Reserved
      <3>3. req[x].phone \in Phone
        BY <1>1, <3>1, FlightTyped
      <3>4. \A k \in ConsentType : consents'[req[x].phone][k] = consents[req[x].phone][k]
        BY <1>4, <3>1, <3>3
      <3>5. \A s \in allowlisted : <<req[x].phone, s>> \in events' <=> <<req[x].phone, s>> \in events
        BY <1>3, <3>1
      <3>6. \A y \in Browser \ {x} :
                 ~(req'[y].pc = "registering" /\ req'[y].phone = req'[x].phone)
        BY <1>3, <3>1, <3>2
      <3> QED
        BY <1>3, <3>1, <3>2, <3>4, <3>5, <3>6
    <2> QED
      BY <2>5, <2>6 DEF WInv
  <1>9. Charged'
    BY <1>1, <1>3, <1>6, <1>7, ChargedKept DEF IInv
  <1>10. c # 0 => c \in 1..Len(challenge) /\ challenge[c].phone = p
    BY <1>1, <1>3 DEF TInv, Reads
  <1>11. Apart'
    <2> SUFFICES ASSUME alone
                 PROVE  /\ \A y, x \in Browser : y # x => req'[y] = Idle \/ req'[x] = Idle
                        /\ \A y \in Browser :
                             req'[y].pc \in {"proven", "registering"} /\ req'[y].code # 0
                             => ~challenge'[req'[y].code].consumed
      BY <1>3 DEF Apart
    <2>1. req[b] # Idle
      BY <1>3 DEF Idle
    <2>2. \A x \in Browser \ {b} : req[x] = Idle
      BY <2>1 DEF IInv, SpentInv, Apart
    <2> QED
      BY <1>3, <2>2 DEF Idle
  <1>12. CodesAreSpent'
    <2>1. \A n \in 1..Len(session) :
            LET d == session[n].challenge
            IN  d # 0 => /\ d \in 1..Len(challenge)
                         /\ challenge[d].consumed
                         /\ challenge[d].phone = session[n].phone
                         /\ alone => \A m \in 1..Len(session) :
                                        session[m].challenge = d => m = n
      BY DEF IInv, SpentInv, CodesAreSpent
    <2>2. c # 0 /\ alone => ~challenge[c].consumed
      BY <1>3 DEF IInv, SpentInv, Apart
    <2>3. \A n \in 1..Len(session) : c # 0 /\ alone => session[n].challenge # c
      BY <2>1, <2>2
    <2> HIDE DEF p, c
    <2>4. ASSUME NEW n \in 1..Len(session'), session'[n].challenge # 0
          PROVE  /\ session'[n].challenge \in 1..Len(challenge')
                 /\ challenge'[session'[n].challenge].consumed
                 /\ challenge'[session'[n].challenge].phone = session'[n].phone
                 /\ alone => \A m \in 1..Len(session') :
                               session'[m].challenge = session'[n].challenge => m = n
      <3>1. \A m \in 1..Len(session') : m \in 1..Len(session) \/ m = Len(session) + 1
        BY <1>6
      <3>2. CASE n \in 1..Len(session)
        <4> DEFINE d == session[n].challenge
        <4>1. d # 0 /\ session'[n] = session[n]
          BY <1>6, <2>4, <3>2
        <4>2. /\ d \in 1..Len(challenge) /\ challenge[d].consumed
              /\ challenge[d].phone = session[n].phone
              /\ alone => \A m \in 1..Len(session) : session[m].challenge = d => m = n
          BY <2>1, <3>2, <4>1
        <4>3. alone => d # c
          BY <2>3, <3>2, <4>1
        <4>4. /\ challenge'[d].consumed
              /\ challenge'[d].phone = session[n].phone
          BY <1>7, <4>2
        <4>5. ASSUME alone, NEW m \in 1..Len(session'), session'[m].challenge = d
              PROVE  m = n
          <5>1. m \in 1..Len(session)
            BY <1>6, <3>1, <4>3, <4>5
          <5> QED
            BY <1>6, <4>2, <4>5, <5>1
        <4> QED
          BY <1>6, <4>1, <4>2, <4>4, <4>5
      <3>3. CASE n = Len(session) + 1
        <4>1. session'[n].challenge = c /\ session'[n].phone = p /\ c # 0
          BY <1>6, <2>4, <3>3
        <4>2. c \in 1..Len(challenge) /\ challenge'[c].phone = p /\ challenge'[c].consumed
          BY <1>7, <1>10, <4>1
        <4>3. ASSUME alone, NEW m \in 1..Len(session'), session'[m].challenge = c
              PROVE  m = n
          BY <1>6, <2>3, <3>1, <3>3, <4>1, <4>3
        <4> QED
          BY <1>6, <4>1, <4>2, <4>3
      <3> QED
        BY <3>1, <3>2, <3>3
    <2> QED
      BY <1>3, <2>4 DEF CodesAreSpent
  <1> QED
    BY <1>1, <1>8, <1>9, <1>11, <1>12 DEF IInv, SpentInv

\* What happens after the registration keeps the invariant.
LEMMA SessionsKeep ==
    ASSUME IInv, NEW b \in Browser,
           Abort(b) \/ ReceiveCookie(b) \/ GetSession(b) \/ SignOut(b)
    PROVE  IInv'
  <1>1. TInv' /\ TInv
    BY SessionsTyped DEF IInv
  <1>2. /\ UNCHANGED <<otp, allowlisted, invitation, challenge, client, consents, events,
                       alone>>
        /\ \A x \in Browser : req'[x] = req[x] \/ req'[x] = Idle
    BY <1>1 DEF Abort, ReceiveCookie, GetSession, SignOut, rows, TInv, TypeOK
  <1>3. /\ Len(session') = Len(session)
        /\ \A n \in 1..Len(session) : /\ session'[n].phone = session[n].phone
                                      /\ session'[n].challenge = session[n].challenge
    <2>1. CASE SignOut(b)
      <3>1. cookie[b] \in 1..Len(session)
        BY <1>1, <2>1 DEF SignOut, TInv, TypeOK
      <3>2. session' = [session EXCEPT ![cookie[b]] = [session[cookie[b]] EXCEPT !.live = FALSE]]
        BY <1>1, <2>1 DEF SignOut, TInv, TypeOK
      <3> QED
        BY <1>1, <3>1, <3>2, SessionFlagged
    <2>2. CASE ~SignOut(b)
      BY <2>2 DEF Abort, ReceiveCookie, GetSession, rows
    <2> QED
      BY <2>1, <2>2
  <1> QED
    BY <1>2, <1>3, <1>1, QuietKeeps

\* Expiry keeps the invariant.
LEMMA ExpiryKeeps ==
    ASSUME IInv,
           \/ \E n \in 1..Len(challenge) : ExpireChallenge(n)
           \/ \E n \in 1..Len(session) : ExpireSession(n)
    PROVE  IInv'
  <1>1. TInv' /\ TInv
    BY ExpiryTyped DEF IInv
  <1>2. ASSUME NEW n \in 1..Len(session), ExpireSession(n) PROVE IInv'
    <2>1. session' = [session EXCEPT ![n] = [session[n] EXCEPT !.live = FALSE]]
      BY <1>1, <1>2 DEF ExpireSession, TInv, TypeOK
    <2>2. /\ Len(session') = Len(session)
          /\ \A m \in 1..Len(session) : /\ session'[m].phone = session[m].phone
                                        /\ session'[m].challenge = session[m].challenge
      BY <1>1, <2>1, SessionFlagged
    <2> QED
      BY <1>1, <1>2, <2>2, QuietKeeps DEF ExpireSession
  <1>3. ASSUME NEW n \in 1..Len(challenge), ExpireChallenge(n) PROVE IInv'
    <2> DEFINE v == [challenge[n] EXCEPT !.expired = TRUE]
    <2>1. v \in Challenge /\ v.phone = challenge[n].phone
      BY <1>1, ChallengeTyped
    <2>2. challenge' = [challenge EXCEPT ![n] = v]
      BY <1>1, <1>3 DEF ExpireChallenge, TInv, TypeOK
    <2>3. v.attempts = challenge[n].attempts /\ v.consumed = challenge[n].consumed
      <3>1. challenge[n] \in Challenge
        BY <1>1, ChallengeTyped
      <3> QED
        BY <3>1 DEF Challenge
    <2>4. /\ Len(challenge') = Len(challenge)
          /\ \A m \in 1..Len(challenge) : /\ challenge'[m].attempts = challenge[m].attempts
                                          /\ challenge'[m].consumed = challenge[m].consumed
                                          /\ challenge'[m].phone = challenge[m].phone
      <3> HIDE DEF v
      <3> QED
        BY <1>1, <2>1, <2>2, <2>3, ChallengeWritten
    <2>5. UNCHANGED <<otp, allowlisted, invitation, client, consents, events, session,
                      cookie, req, alone>>
      BY <1>3 DEF ExpireChallenge
    <2>6. WInv'
      BY <1>1, <2>5, WholeKept DEF IInv, WInv, RegistrationIsWhole
    <2>7. Charged'
      BY <1>1, <2>4, <2>5, ChargedKept DEF IInv
    <2>8. SpentInv'
      <3>1. Len(challenge) \in Nat
        BY <1>1 DEF TInv, TypeOK
      <3> QED
        BY <1>1, <2>4, <2>5, <3>1, SpentKept DEF IInv
    <2> QED
      BY <1>1, <2>6, <2>7, <2>8 DEF IInv
  <1> QED
    BY <1>2, <1>3

\* The invariant holds initially.
LEMMA InitIInv == Init => IInv
  <1> SUFFICES ASSUME Init PROVE IInv
    OBVIOUS
  <1>1. TInv
    BY InitTyped
  <1>2. WInv
    BY DEF Init, WInv, Reserved, RegistrationIsWhole, Idle
  <1>3. Charged /\ SpentInv
    BY DEF Init, Charged, SpentInv, Apart, CodesAreSpent, Idle
  <1> QED
    BY <1>1, <1>2, <1>3 DEF IInv

\* Every step keeps the invariant.
LEMMA NextIInv == IInv /\ [Next]_vars => IInv'
  <1> SUFFICES ASSUME IInv, [Next]_vars PROVE IInv'
    OBVIOUS
  <1>1. ASSUME NEW i \in Invitation,
               \/ \E p \in Phone : CreateInvitation(i, p) \/ RequestCode(i, p)
               \/ SendInvitation(i)
               \/ ExpireInvitation(i)
        PROVE  IInv'
    BY <1>1, InvitationKeeps, RequestKeeps
  <1>2. ASSUME NEW b \in Browser, Asks(b) PROVE IInv'
    BY <1>2, CheckKeeps
  <1>3. ASSUME NEW b \in Browser, CountAttempt(b) PROVE IInv'
    BY <1>3, CountKeeps
  <1>4. ASSUME NEW b \in Browser, LockClient(b) PROVE IInv'
    BY <1>4, LockKeeps
  <1>5. ASSUME NEW b \in Browser, CommitRegistration(b) PROVE IInv'
    BY <1>5, CommitKeeps
  <1>6. ASSUME NEW b \in Browser,
               Abort(b) \/ ReceiveCookie(b) \/ GetSession(b) \/ SignOut(b)
        PROVE  IInv'
    BY <1>6, SessionsKeep
  <1>7. ASSUME \/ \E n \in 1..Len(challenge) : ExpireChallenge(n)
               \/ \E n \in 1..Len(session) : ExpireSession(n)
        PROVE  IInv'
    BY <1>7, ExpiryKeeps
  <1>8. CASE UNCHANGED vars
    BY <1>8 DEF vars, rows, IInv, TInv, TypeOK, Reads, WInv, Reserved, RegistrationIsWhole,
                Charged, Wrong, SpentInv, Apart, CodesAreSpent
  <1> QED
    BY <1>1, <1>2, <1>3, <1>4, <1>5, <1>6, <1>7, <1>8 DEF Next, Asks

\* The invariant holds in every reachable state.
LEMMA Invariance == Spec => []IInv
  BY InitIInv, NextIInv, PTL DEF Spec

----------------------------------------------------------------------------
(* Theorems.                                                               *)

\* Type correctness: in particular a cookie names a session row that was
\* written (commitSessionCookie after the transaction).
THEOREM TypeCorrect == Spec => []TypeOK
  <1>1. IInv => TypeOK
    BY DEF IInv, TInv
  <1> QED
    BY <1>1, Invariance, PTL

\* However many requests register one phone at once, the consents and the
\* events are stored once each, with the client and an accepted invitation
\* (finalizeClientRegistration).
THEOREM RegistrationSafety == Spec => []RegistrationIsWhole
  <1>1. IInv => RegistrationIsWhole
    BY DEF IInv, WInv
  <1> QED
    BY <1>1, Invariance, PTL

\* A challenge takes at most one attempt beyond its limit for every further
\* request in flight (verifyOtpAndRegister).
THEOREM AttemptsSafety == Spec => []AttemptsBounded
  <1>1. IInv => AttemptsBounded
    <2> SUFFICES ASSUME IInv, NEW n \in 1..Len(challenge)
                 PROVE  challenge[n].attempts <= MaxAttempts - 1 + Cardinality(Browser)
      BY DEF AttemptsBounded
    <2>1. challenge[n].attempts \in Nat
      BY ChallengeTyped DEF Challenge, IInv
    <2>2. challenge[n].attempts + Cardinality(Wrong(n)) <= MaxAttempts - 1 + Cardinality(Browser)
      BY DEF IInv, Charged
    <2> QED
      BY <2>1, <2>2, WrongTyped, RegistrationAssumption
  <1> QED
    BY <1>1, Invariance, PTL

\* A session that was opened with a code has spent a challenge of its client,
\* and it is the only one while requests do not overlap.
THEOREM SpentSafety == Spec => []CodesAreSpent
  <1>1. IInv => CodesAreSpent
    BY DEF IInv, SpentInv
  <1> QED
    BY <1>1, Invariance, PTL

----------------------------------------------------------------------------
(* Sessions.                                                               *)

\* The sessions a browser can present: the one its cookie names, and the one
\* an answer on its way to it carries.
Held(b) == {n \in 1..Len(session) : \/ n = cookie[b]
                                    \/ req[b].pc = "answered" /\ n = req[b].session}

\* No two browsers hold one session, however their registrations interleave,
\* even if they register the same phone with the same code: one that signs out
\* signs out nobody else (createSession, commitSessionCookie, destroySession).
SessionsArePrivate ==
    \A b, x \in Browser : b # x => Held(b) \cap Held(x) = {}

\* What was used up stays used up: a session that ended is not revived, a
\* challenge that was consumed, expired or locked does not open again, and an
\* accepted invitation and a client stay.
OpensNothing ==
    /\ \A n \in 1..Len(session) : n \in 1..Len(session') /\ (session'[n].live => session[n].live)
    /\ \A n \in 1..Len(challenge) :
         /\ n \in 1..Len(challenge')
         /\ challenge[n].consumed => challenge'[n].consumed
         /\ challenge[n].expired => challenge'[n].expired
         /\ Locked(n) => Locked(n)'
    /\ \A i \in Invitation :
         invitation[i] # NoInvitation /\ invitation[i].accepted => invitation'[i].accepted
    /\ client \subseteq client'

NothingComesBack == [][OpensNothing]_vars

\* What a step does to the session rows: a registration adds one that is live,
\* a sign-out or the clock ends one, and no other step writes them.
LEMMA SessionRows ==
    ASSUME TInv, [Next]_vars
    PROVE  /\ Len(session) \in Nat
           /\ Len(session') \in Nat
           /\ Len(session) <= Len(session')
           /\ \A n \in 1..Len(session) : session'[n].live => session[n].live
           /\ (\A b \in Browser : ~CommitRegistration(b)) => Len(session') = Len(session)
  <1>1. Len(session) \in Nat /\ session \in Seq(Session)
    BY DEF TInv, TypeOK
  <1>2. ASSUME NEW n \in 1..Len(session),
               session' = [session EXCEPT ![n] = [session[n] EXCEPT !.live = FALSE]]
        PROVE  /\ Len(session') = Len(session)
               /\ \A m \in 1..Len(session) : session'[m].live => session[m].live
    <2> DEFINE v == [session[n] EXCEPT !.live = FALSE]
    <2>1. v \in Session /\ ~v.live
      BY SessionTyped DEF Session
    <2>2. /\ Len(session') = Len(session)
          /\ \A m \in 1..Len(session) : session'[m] = IF m = n THEN v ELSE session[m]
      <3>1. session' = [session EXCEPT ![n] = v]
        BY <1>2
      <3> HIDE DEF v
      <3> QED
        BY <2>1, <3>1, SessionWritten
    <2> QED
      BY <2>1, <2>2
  <1>3. ASSUME NEW b \in Browser, CommitRegistration(b)
        PROVE  Len(session') = Len(session) + 1 /\ \A n \in 1..Len(session) : session'[n] = session[n]
    BY <1>3, CommitEffect
  <1>4. ASSUME NEW b \in Browser, SignOut(b)
        PROVE  /\ Len(session') = Len(session)
               /\ \A m \in 1..Len(session) : session'[m].live => session[m].live
    <2>1. cookie[b] \in 1..Len(session)
      BY <1>4 DEF SignOut, TInv, TypeOK
    <2>2. session' = [session EXCEPT ![cookie[b]] = [session[cookie[b]] EXCEPT !.live = FALSE]]
      BY <1>1, <1>4, <2>1 DEF SignOut
    <2> QED
      BY <1>2, <2>1, <2>2
  <1>5. ASSUME NEW n \in 1..Len(session), ExpireSession(n)
        PROVE  /\ Len(session') = Len(session)
               /\ \A m \in 1..Len(session) : session'[m].live => session[m].live
    <2>1. session' = [session EXCEPT ![n] = [session[n] EXCEPT !.live = FALSE]]
      BY <1>1, <1>5 DEF ExpireSession
    <2> QED
      BY <1>2, <2>1
  <1>6. ASSUME \A b \in Browser : ~CommitRegistration(b) /\ ~SignOut(b),
               \A n \in 1..Len(session) : ~ExpireSession(n)
        PROVE  session' = session
    BY <1>6 DEF Next, vars, rows, CreateInvitation, RequestCode, SendInvitation,
                ExpireInvitation, PostCode, CheckCode, AskDirectly, Begin, CountAttempt, LockClient,
                Abort, ReceiveCookie, GetSession, ExpireChallenge
  <1> QED
    BY <1>1, <1>3, <1>4, <1>5, <1>6

\* No step gives a browser a session another step has opened.
LEMMA HeldKept ==
    ASSUME TInv, [Next]_vars, NEW b \in Browser, ~CommitRegistration(b)
    PROVE  /\ \/ cookie'[b] \in {0, cookie[b]}
              \/ req[b].pc = "answered" /\ cookie'[b] = req[b].session
           /\ req'[b].pc = "answered" => req'[b] = req[b]
  <1>1. cookie \in [Browser -> 0..Len(session)] /\ req \in [Browser -> RequestState]
    BY DEF TInv, TypeOK
  <1>2. ASSUME NEW x \in Browser, NEW st, Begin(x, st), st.pc # "answered"
        PROVE  /\ cookie'[b] = cookie[b]
               /\ req'[b].pc = "answered" => req'[b] = req[b]
    BY <1>1, <1>2 DEF Begin
  <1>3. ASSUME NEW x \in Browser, Asks(x)
        PROVE  /\ cookie'[b] = cookie[b]
               /\ req'[b].pc = "answered" => req'[b] = req[b]
    <2>1. ASSUME NEW p \in Phone, NEW right \in BOOLEAN, CheckCode(x, p, right)
          PROVE  /\ cookie'[b] = cookie[b]
                 /\ req'[b].pc = "answered" => req'[b] = req[b]
      BY <1>1, <2>1 DEF CheckCode
    <2>2. ASSUME NEW i \in Invitation, PostCode(x, i)
          PROVE  /\ cookie'[b] = cookie[b]
                 /\ req'[b].pc = "answered" => req'[b] = req[b]
      BY <1>2, <2>2 DEF PostCode
    <2>3. ASSUME NEW i \in Invitation, NEW p \in Phone, AskDirectly(x, i, p)
          PROVE  /\ cookie'[b] = cookie[b]
                 /\ req'[b].pc = "answered" => req'[b] = req[b]
      BY <1>2, <2>3 DEF AskDirectly
    <2> QED
      BY <1>3, <2>1, <2>2, <2>3 DEF Asks
  <1>4. ASSUME NEW x \in Browser,
               CountAttempt(x) \/ LockClient(x) \/ CommitRegistration(x) \/ Abort(x)
        PROVE  /\ cookie'[b] = cookie[b]
               /\ req'[b].pc = "answered" => req'[b] = req[b]
    <2>1. CASE x # b \/ ~CommitRegistration(x)
      BY <1>1, <1>4, <2>1 DEF CountAttempt, LockClient, CommitRegistration, Abort, Idle, rows
    <2> QED
      BY <1>4, <2>1
  <1>5. ASSUME NEW x \in Browser, ReceiveCookie(x) \/ GetSession(x) \/ SignOut(x)
        PROVE  /\ \/ cookie'[b] \in {0, cookie[b]}
                  \/ req[b].pc = "answered" /\ cookie'[b] = req[b].session
               /\ req'[b].pc = "answered" => req'[b] = req[b]
    BY <1>1, <1>5 DEF ReceiveCookie, GetSession, SignOut, Idle
  <1>6. ASSUME \/ UNCHANGED vars
               \/ \E i \in Invitation : \/ \E p \in Phone : CreateInvitation(i, p)
                                        \/ \E p \in Phone : RequestCode(i, p)
                                        \/ SendInvitation(i)
                                        \/ ExpireInvitation(i)
               \/ \E n \in 1..Len(challenge) : ExpireChallenge(n)
               \/ \E n \in 1..Len(session) : ExpireSession(n)
        PROVE  cookie' = cookie /\ req' = req
    BY <1>6 DEF vars, CreateInvitation, RequestCode, SendInvitation, ExpireInvitation,
                ExpireChallenge, ExpireSession
  <1> QED
    BY <1>3, <1>4, <1>5, <1>6 DEF Next, Asks

\* A session row is new to all browsers when one gets it.
LEMMA PrivateStep == TInv /\ SessionsArePrivate /\ [Next]_vars => SessionsArePrivate'
  <1> SUFFICES ASSUME TInv, SessionsArePrivate, [Next]_vars,
                      NEW b \in Browser, NEW x \in Browser, b # x,
                      NEW n \in Held(b)', n \in Held(x)'
               PROVE  FALSE
    BY DEF SessionsArePrivate
  <1>1. /\ cookie \in [Browser -> 0..Len(session)]
        /\ Len(session) \in Nat /\ Len(session') \in Nat
    BY SessionRows DEF TInv, TypeOK
  <1>2. CASE \A y \in Browser : ~CommitRegistration(y)
    <2>1. Len(session') = Len(session)
      BY <1>2, SessionRows
    <2>2. n \in Held(b) /\ n \in Held(x)
      BY <1>1, <1>2, <2>1, HeldKept DEF Held
    <2> QED
      BY <2>2 DEF SessionsArePrivate
  <1>3. ASSUME NEW y \in Browser, CommitRegistration(y) PROVE FALSE
    <2>1. /\ Len(session') = Len(session) + 1
          /\ cookie' = cookie
          /\ \A z \in Browser \ {y} : req'[z] = req[z]
          /\ req'[y] = [pc |-> "answered", session |-> Len(session) + 1]
      BY <1>3, CommitEffect DEF CommitRegistration, NewSession, TInv, TypeOK
    <2>2. \A z \in Browser \ {y} : Held(z)' \subseteq Held(z)
      BY <1>1, <2>1 DEF Held, TInv, Reads
    <2>3. Held(y)' \subseteq Held(y) \cup {Len(session) + 1}
      BY <1>1, <2>1 DEF Held
    <2>4. \A z \in Browser : Held(z) \subseteq 1..Len(session)
      BY DEF Held
    <2>5. n # Len(session) + 1
      BY <1>1, <2>2, <2>4
    <2> QED
      BY <2>2, <2>3, <2>5 DEF SessionsArePrivate
  <1> QED
    BY <1>2, <1>3

\* No two browsers hold one session.
THEOREM PrivateSafety == Spec => []SessionsArePrivate
  <1>1. Init => SessionsArePrivate
    BY DEF Init, SessionsArePrivate, Held
  <1>2. IInv /\ SessionsArePrivate /\ [Next]_vars => SessionsArePrivate'
    BY PrivateStep DEF IInv
  <1> QED
    BY <1>1, <1>2, Invariance, PTL DEF Spec

\* A step counts an attempt, uses up or expires one challenge, or adds one.
LEMMA ChallengeRows ==
    ASSUME TInv, [Next]_vars, NEW n \in 1..Len(challenge)
    PROVE  /\ n \in 1..Len(challenge')
           /\ challenge'[n].phone = challenge[n].phone
           /\ challenge[n].consumed => challenge'[n].consumed
           /\ challenge[n].expired => challenge'[n].expired
           /\ challenge[n].attempts <= challenge'[n].attempts
  <1>1. Len(challenge) \in Nat /\ challenge \in Seq(Challenge)
    BY DEF TInv, TypeOK
  <1>2. challenge[n] \in Challenge /\ challenge[n].attempts \in Nat
    BY ChallengeTyped DEF Challenge
  <1>3. /\ [challenge[n] EXCEPT !.attempts = @ + 1].attempts = challenge[n].attempts + 1
        /\ [challenge[n] EXCEPT !.attempts = @ + 1].consumed = challenge[n].consumed
        /\ [challenge[n] EXCEPT !.attempts = @ + 1].expired = challenge[n].expired
        /\ [challenge[n] EXCEPT !.consumed = TRUE].attempts = challenge[n].attempts
        /\ [challenge[n] EXCEPT !.consumed = TRUE].consumed
        /\ [challenge[n] EXCEPT !.consumed = TRUE].expired = challenge[n].expired
        /\ [challenge[n] EXCEPT !.expired = TRUE].attempts = challenge[n].attempts
        /\ [challenge[n] EXCEPT !.expired = TRUE].consumed = challenge[n].consumed
        /\ [challenge[n] EXCEPT !.expired = TRUE].expired
        /\ [challenge[n] EXCEPT !.attempts = @ + 1].phone = challenge[n].phone
        /\ [challenge[n] EXCEPT !.consumed = TRUE].phone = challenge[n].phone
        /\ [challenge[n] EXCEPT !.expired = TRUE].phone = challenge[n].phone
    BY <1>2 DEF Challenge
  <1>4. ASSUME NEW i \in Invitation, NEW p \in Phone, RequestCode(i, p)
        PROVE  n \in 1..Len(challenge') /\ challenge'[n] = challenge[n]
    <2> DEFINE v == [phone |-> p, attempts |-> 0, consumed |-> FALSE, expired |-> FALSE]
    <2>1. v \in Challenge /\ challenge' = Append(challenge, v)
      BY <1>4 DEF RequestCode, Challenge
    <2> QED
      BY <1>1, <2>1, AppendProperties
  <1>5. ASSUME NEW b \in Browser, CountAttempt(b)
        PROVE  /\ Len(challenge') = Len(challenge)
               /\ challenge'[n] \in {challenge[n], [challenge[n] EXCEPT !.attempts = @ + 1]}
    BY <1>5, CountTyped
  <1>6. ASSUME NEW b \in Browser, CommitRegistration(b)
        PROVE  /\ Len(challenge') = Len(challenge)
               /\ challenge'[n] \in {challenge[n], [challenge[n] EXCEPT !.consumed = TRUE]}
    BY <1>6, CommitEffect
  <1>7. ASSUME NEW m \in 1..Len(challenge), ExpireChallenge(m)
        PROVE  /\ Len(challenge') = Len(challenge)
               /\ challenge'[n] \in {challenge[n], [challenge[n] EXCEPT !.expired = TRUE]}
    <2> DEFINE v == [challenge[m] EXCEPT !.expired = TRUE]
    <2>1. /\ v \in Challenge /\ v.phone = challenge[m].phone
          /\ challenge' = [challenge EXCEPT ![m] = v]
      BY <1>1, <1>7, ChallengeTyped DEF ExpireChallenge
    <2>2. /\ Len(challenge') = Len(challenge)
          /\ challenge'[n] = IF n = m THEN v ELSE challenge[n]
      <3> HIDE DEF v
      <3> QED
        BY <2>1, ChallengeWritten
    <2> QED
      BY <2>2
  <1>8. ASSUME \A i \in Invitation, p \in Phone : ~RequestCode(i, p),
               \A b \in Browser : ~CountAttempt(b) /\ ~CommitRegistration(b),
               \A m \in 1..Len(challenge) : ~ExpireChallenge(m)
        PROVE  challenge' = challenge
    BY <1>8 DEF Next, vars, rows, CreateInvitation, SendInvitation, ExpireInvitation,
                PostCode, CheckCode, AskDirectly, Begin, LockClient, Abort, ReceiveCookie,
                GetSession, SignOut, ExpireSession
  <1>9. CASE Len(challenge') = Len(challenge)
             /\ challenge'[n] \in {challenge[n],
                                   [challenge[n] EXCEPT !.attempts = @ + 1],
                                   [challenge[n] EXCEPT !.consumed = TRUE],
                                   [challenge[n] EXCEPT !.expired = TRUE]}
    <2>1. /\ challenge[n].consumed => challenge'[n].consumed
          /\ challenge[n].expired => challenge'[n].expired
          /\ challenge'[n].phone = challenge[n].phone
      BY <1>3, <1>9
    <2>2. challenge'[n].attempts \in {challenge[n].attempts, challenge[n].attempts + 1}
      BY <1>3, <1>9
    <2>3. challenge[n].attempts <= challenge'[n].attempts
      BY <1>2, <2>2
    <2> QED
      BY <1>9, <2>1, <2>3
  <1>10. CASE n \in 1..Len(challenge') /\ challenge'[n] = challenge[n]
    BY <1>2, <1>10
  <1> QED
    BY <1>4, <1>5, <1>6, <1>7, <1>8, <1>9, <1>10

\* An invitation that was accepted and a client that is registered stay.
LEMMA AcceptedStays ==
    ASSUME TInv, [Next]_vars
    PROVE  /\ \A i \in Invitation :
                invitation[i] # NoInvitation /\ invitation[i].accepted => invitation'[i].accepted
           /\ client \subseteq client'
  <1>1. invitation \in [Invitation -> Invited \cup {NoInvitation}]
    BY DEF TInv, TypeOK
  <1>2. ASSUME NEW i \in Invitation, NEW p \in Phone, CreateInvitation(i, p)
        PROVE  \A j \in Invitation : invitation[j] # NoInvitation => invitation'[j] = invitation[j]
    BY <1>1, <1>2 DEF CreateInvitation
  <1>3. ASSUME NEW i \in Invitation, SendInvitation(i) \/ ExpireInvitation(i)
        PROVE  \A j \in Invitation :
                 invitation[j] # NoInvitation => invitation'[j].accepted = invitation[j].accepted
    BY <1>1, <1>3 DEF SendInvitation, ExpireInvitation, Invited
  <1>4. ASSUME NEW b \in Browser, CommitRegistration(b)
        PROVE  /\ \A j \in Invitation :
                    invitation[j] # NoInvitation /\ invitation[j].accepted => invitation'[j].accepted
               /\ client \subseteq client'
    BY <1>1, <1>4 DEF CommitRegistration, Invited
  <1>5. ASSUME \A b \in Browser : ~CommitRegistration(b)
        PROVE  client' = client
    BY <1>5 DEF Next, vars, rows, CreateInvitation, SendInvitation, ExpireInvitation, RequestCode,
                PostCode, CheckCode, AskDirectly, Begin, CountAttempt, LockClient, Abort, ReceiveCookie,
                GetSession, SignOut, ExpireSession, ExpireChallenge
  <1>6. ASSUME \A b \in Browser : ~CommitRegistration(b),
               \A i \in Invitation : /\ \A p \in Phone : ~CreateInvitation(i, p)
                                     /\ ~SendInvitation(i) /\ ~ExpireInvitation(i)
        PROVE  invitation' = invitation
    BY <1>6 DEF Next, vars, rows, RequestCode,
                PostCode, CheckCode, AskDirectly, Begin, CountAttempt, LockClient, Abort, ReceiveCookie,
                GetSession, SignOut, ExpireSession, ExpireChallenge
  <1> QED
    BY <1>2, <1>3, <1>4, <1>5, <1>6

\* Nothing that was used up opens again.
THEOREM UsedUpSafety == Spec => NothingComesBack
  <1>1. TInv /\ TInv' /\ [Next]_vars => [OpensNothing]_vars
    <2> SUFFICES ASSUME TInv, TInv', [Next]_vars PROVE OpensNothing
      OBVIOUS
    <2>1. \A n \in 1..Len(session) : n \in 1..Len(session') /\ (session'[n].live => session[n].live)
      BY SessionRows
    <2>2. ASSUME NEW n \in 1..Len(challenge)
          PROVE  /\ n \in 1..Len(challenge')
                 /\ challenge[n].consumed => challenge'[n].consumed
                 /\ challenge[n].expired => challenge'[n].expired
                 /\ Locked(n) => Locked(n)'
      <3>1. n \in 1..Len(challenge')
        BY ChallengeRows
      <3>2. challenge'[n].attempts \in Nat /\ challenge[n].attempts \in Nat
        <4>1. challenge \in Seq(Challenge) /\ challenge' \in Seq(Challenge)
          BY DEF TInv, TypeOK
        <4>2. challenge[n] \in Challenge /\ challenge'[n] \in Challenge
          BY <3>1, <4>1
        <4> QED
          BY <4>2 DEF Challenge
      <3> QED
        BY <3>1, <3>2, ChallengeRows, RegistrationAssumption DEF Locked
    <2> QED
      BY <2>1, <2>2, AcceptedStays DEF OpensNothing
  <1>2. IInv => TInv
    BY DEF IInv
  <1> QED
    BY <1>1, <1>2, Invariance, PTL DEF Spec, NothingComesBack

----------------------------------------------------------------------------
(* Admission.                                                              *)

\* What stands behind a registration of phone p: a code of p that was used up
\* or, where no codes are asked for, an accepted invitation to p.
Grounds(p) ==
    IF otp
    THEN \E n \in 1..Len(challenge) : challenge[n].phone = p /\ challenge[n].consumed
    ELSE \E i \in Invitation : /\ invitation[i] # NoInvitation
                               /\ invitation[i].phone = p
                               /\ invitation[i].accepted

\* Nobody becomes a client without having answered for the number, whatever
\* overlaps and whatever expires meanwhile (verifyOtpAndRegister,
\* registerClientForInvitation).
AdmittedOnGrounds == \A p \in client : Grounds(p)

\* A request that may register has read what will be its grounds.
Grounded ==
    \A b \in Browser : req[b].pc \in {"proven", "registering"} =>
        IF otp THEN req[b].code # 0
               ELSE invitation[req[b].invitation].phone = req[b].phone

\* Where no codes are asked for there is no challenge a code could answer.
NoCodes == ~otp => Len(challenge) = 0

AdmissionInv == AdmittedOnGrounds /\ Grounded /\ NoCodes

\* An invitation keeps its phone.
LEMMA InvitationRows ==
    ASSUME TInv, [Next]_vars, NEW i \in Invitation, invitation[i] # NoInvitation
    PROVE  /\ invitation'[i] # NoInvitation
           /\ invitation'[i].phone = invitation[i].phone
  <1>1. invitation[i] \in Invited /\ invitation \in [Invitation -> Invited \cup {NoInvitation}]
    BY DEF TInv, TypeOK
  <1>2. \A r \in Invited : r # NoInvitation
    BY DEF Invited, NoInvitation
  <1>3. ASSUME NEW j \in Invitation, NEW p \in Phone, CreateInvitation(j, p)
        PROVE  invitation'[i] = invitation[i]
    BY <1>1, <1>3 DEF CreateInvitation
  <1>4. ASSUME NEW j \in Invitation, SendInvitation(j) \/ ExpireInvitation(j)
        PROVE  invitation'[i] \in Invited /\ invitation'[i].phone = invitation[i].phone
    <2>1. invitation'[i] \in {invitation[i], [invitation[i] EXCEPT !.state = "sent"],
                              [invitation[i] EXCEPT !.expired = TRUE]}
      BY <1>1, <1>4 DEF SendInvitation, ExpireInvitation
    <2>2. /\ [invitation[i] EXCEPT !.state = "sent"] \in Invited
          /\ [invitation[i] EXCEPT !.expired = TRUE] \in Invited
          /\ [invitation[i] EXCEPT !.state = "sent"].phone = invitation[i].phone
          /\ [invitation[i] EXCEPT !.expired = TRUE].phone = invitation[i].phone
      BY <1>1 DEF Invited
    <2> QED
      BY <1>1, <2>1, <2>2
  <1>5. ASSUME NEW b \in Browser, CommitRegistration(b)
        PROVE  invitation'[i] \in Invited /\ invitation'[i].phone = invitation[i].phone
    <2>1. invitation'[i] \in {invitation[i], [invitation[i] EXCEPT !.accepted = TRUE]}
      BY <1>1, <1>5 DEF CommitRegistration
    <2>2. /\ [invitation[i] EXCEPT !.accepted = TRUE] \in Invited
          /\ [invitation[i] EXCEPT !.accepted = TRUE].phone = invitation[i].phone
      BY <1>1 DEF Invited
    <2> QED
      BY <1>1, <2>1, <2>2
  <1>6. ASSUME \A b \in Browser : ~CommitRegistration(b),
               \A j \in Invitation : /\ \A p \in Phone : ~CreateInvitation(j, p)
                                     /\ ~SendInvitation(j) /\ ~ExpireInvitation(j)
        PROVE  invitation' = invitation
    BY <1>6 DEF Next, vars, rows, RequestCode,
                PostCode, CheckCode, AskDirectly, Begin, CountAttempt, LockClient, Abort, ReceiveCookie,
                GetSession, SignOut, ExpireSession, ExpireChallenge
  <1> QED
    BY <1>2, <1>3, <1>4, <1>5, <1>6

\* Whether codes are asked for is configuration and never changes.
LEMMA SettingFixed == [Next]_vars => otp' = otp
  BY DEF Next, vars, rows, CreateInvitation, SendInvitation, ExpireInvitation, RequestCode,
         PostCode, CheckCode, AskDirectly, Begin, CountAttempt, LockClient, CommitRegistration, Abort,
         ReceiveCookie, GetSession, SignOut, ExpireSession, ExpireChallenge

\* The grounds on which a phone was admitted are never lost.
LEMMA GroundsKept ==
    ASSUME TInv, [Next]_vars, NEW p, Grounds(p)
    PROVE  Grounds(p)'
  <1>1. otp' = otp
    BY SettingFixed
  <1>2. CASE otp
    <2>1. PICK n \in 1..Len(challenge) : challenge[n].phone = p /\ challenge[n].consumed
      BY <1>2 DEF Grounds
    <2>2. n \in 1..Len(challenge') /\ challenge'[n].phone = p /\ challenge'[n].consumed
      BY <2>1, ChallengeRows
    <2> QED
      BY <1>1, <1>2, <2>2 DEF Grounds
  <1>3. CASE ~otp
    <2>1. PICK i \in Invitation : /\ invitation[i] # NoInvitation
                                  /\ invitation[i].phone = p
                                  /\ invitation[i].accepted
      BY <1>3 DEF Grounds
    <2>2. invitation'[i] # NoInvitation /\ invitation'[i].phone = p /\ invitation'[i].accepted
      BY <2>1, InvitationRows, AcceptedStays
    <2> QED
      BY <1>1, <1>3, <2>2 DEF Grounds
  <1> QED
    BY <1>2, <1>3

\* A request that may register begins so, or keeps what it carries.
LEMMA GroundedStep ==
    ASSUME TInv, Grounded, NoCodes, [Next]_vars
    PROVE  Grounded'
  <1>1. otp' = otp /\ req \in [Browser -> RequestState]
    BY SettingFixed DEF TInv, TypeOK
  <1>2. SUFFICES ASSUME NEW b \in Browser, req'[b].pc \in {"proven", "registering"}
                 PROVE  IF otp THEN req'[b].code # 0
                               ELSE invitation'[req'[b].invitation].phone = req'[b].phone
    BY <1>1 DEF Grounded
  <1>3. CASE /\ req[b].pc \in {"proven", "registering"}
             /\ req'[b].phone = req[b].phone
             /\ req'[b].code = req[b].code
             /\ req'[b].invitation = req[b].invitation
    <2>1. req[b].invitation \in Invitation /\ invitation[req[b].invitation] # NoInvitation
      BY <1>3, FlightTyped DEF TInv, Reads, NoInvitation
    <2> QED
      BY <1>3, <2>1, InvitationRows DEF Grounded
  <1>4. ASSUME NEW p \in Phone, NEW right \in BOOLEAN, CheckCode(b, p, right)
        PROVE  otp /\ req'[b].code # 0
    BY <1>1, <1>4 DEF CheckCode, NoCodes
  <1>5. ASSUME NEW i \in Invitation, NEW p \in Phone, AskDirectly(b, i, p)
        PROVE  /\ ~otp
               /\ invitation'[req'[b].invitation].phone = req'[b].phone
    BY <1>1, <1>5 DEF AskDirectly, Begin, rows
  <1>6. ASSUME LockClient(b)
        PROVE  /\ req[b].pc = "proven"
               /\ req'[b].phone = req[b].phone
               /\ req'[b].code = req[b].code
               /\ req'[b].invitation = req[b].invitation
    BY <1>1, <1>6 DEF LockClient
  <1>7. ASSUME ~LockClient(b),
               \A p \in Phone, right \in BOOLEAN : ~CheckCode(b, p, right),
               \A i \in Invitation, p \in Phone : ~AskDirectly(b, i, p)
        PROVE  req'[b] = req[b]
    <2>1. ASSUME NEW x \in Browser, x # b,
                 \/ \E i \in Invitation : PostCode(x, i)
                 \/ \E i \in Invitation, p \in Phone : AskDirectly(x, i, p)
                 \/ \E p \in Phone, right \in BOOLEAN : CheckCode(x, p, right)
                 \/ LockClient(x)
          PROVE  req'[b] = req[b]
      BY <1>1, <2>1 DEF AskDirectly, PostCode, CheckCode, Begin, LockClient
    <2>3. ASSUME NEW i \in Invitation PROVE ~PostCode(b, i)
      BY <1>1, <1>2 DEF PostCode, Begin
    <2>2. ASSUME NEW x \in Browser,
                 CountAttempt(x) \/ CommitRegistration(x) \/ Abort(x) \/ ReceiveCookie(x)
          PROVE  req'[b] = req[b]
      BY <1>1, <1>2, <2>2 DEF CountAttempt, CommitRegistration, Abort, ReceiveCookie, Idle
    <2> QED
      BY <1>7, <2>1, <2>2, <2>3
      DEF Next, vars, rows, CreateInvitation, SendInvitation, ExpireInvitation, RequestCode,
          GetSession, SignOut, ExpireSession, ExpireChallenge
  <1> QED
    BY <1>2, <1>3, <1>4, <1>5, <1>6, <1>7

\* Challenges are made only where codes are asked for.
LEMMA NoCodesStep ==
    ASSUME TInv, NoCodes, [Next]_vars
    PROVE  NoCodes'
  <1>1. SUFFICES ASSUME ~otp PROVE Len(challenge') = 0
    BY SettingFixed DEF NoCodes
  <1>2. Len(challenge) = 0
    BY <1>1 DEF NoCodes
  <1>3. ASSUME NEW b \in Browser, CountAttempt(b) PROVE Len(challenge') = 0
    BY <1>2, <1>3, CountTyped
  <1>4. ASSUME NEW b \in Browser, CommitRegistration(b) PROVE Len(challenge') = 0
    BY <1>2, <1>4, CommitEffect
  <1>5. ASSUME \A b \in Browser : ~CountAttempt(b) /\ ~CommitRegistration(b)
        PROVE  challenge' = challenge
    <2>1. \A n \in 1..Len(challenge) : FALSE
      BY <1>2
    <2> QED
      BY <1>1, <1>5, <2>1
      DEF Next, vars, rows, CreateInvitation, SendInvitation, ExpireInvitation, RequestCode,
          PostCode, CheckCode, AskDirectly, Begin, LockClient, Abort, ReceiveCookie,
          GetSession, SignOut, ExpireSession, ExpireChallenge
  <1> QED
    BY <1>2, <1>3, <1>4, <1>5

\* A registration admits a phone on the grounds that it has read.
LEMMA AdmissionStep == TInv /\ AdmissionInv /\ [Next]_vars => AdmissionInv'
  <1> SUFFICES ASSUME TInv, AdmissionInv, [Next]_vars PROVE AdmittedOnGrounds'
    BY GroundedStep, NoCodesStep DEF AdmissionInv
  <1>1. ASSUME NEW p \in client PROVE Grounds(p)'
    BY GroundsKept DEF AdmissionInv, AdmittedOnGrounds
  <1>2. CASE \A b \in Browser : ~CommitRegistration(b)
    <2>1. client' = client
      BY <1>2 DEF Next, vars, rows, CreateInvitation, SendInvitation, ExpireInvitation,
                  RequestCode, PostCode, CheckCode, AskDirectly, Begin, CountAttempt, LockClient,
                  Abort, ReceiveCookie, GetSession, SignOut, ExpireSession, ExpireChallenge
    <2> QED
      BY <1>1, <2>1 DEF AdmittedOnGrounds
  <1>3. ASSUME NEW b \in Browser, CommitRegistration(b) PROVE AdmittedOnGrounds'
    <2>0. PICK p : p = req[b].phone
      OBVIOUS
    <2>1. client' = client \cup {p} /\ otp' = otp
      BY <1>3, <2>0 DEF CommitRegistration
    <2>2. req[b].pc = "registering" /\ req[b].invitation \in Invitation
      BY <1>3, FlightTyped DEF CommitRegistration
    <2>3. CASE otp
      <3>1. req[b].code \in 1..Len(challenge) /\ challenge[req[b].code].phone = p
        BY <2>0, <2>2, <2>3 DEF TInv, Reads, AdmissionInv, Grounded
      <3>2. [challenge[req[b].code] EXCEPT !.consumed = TRUE].consumed
        BY <3>1, ChallengeTyped DEF Challenge
      <3>3. /\ req[b].code \in 1..Len(challenge')
            /\ challenge'[req[b].code].phone = p
            /\ challenge'[req[b].code].consumed
        BY <1>3, <3>1, <3>2, CommitEffect, ChallengeRows
      <3>4. Grounds(p)'
        BY <2>1, <2>3, <3>3 DEF Grounds
      <3> QED
        BY <1>1, <2>1, <3>4 DEF AdmittedOnGrounds
    <2>4. CASE ~otp
      <3> DEFINE i == req[b].invitation
      <3>1. invitation[i] # NoInvitation /\ invitation[i].phone = p
        BY <2>0, <2>2, <2>4 DEF TInv, Reads, AdmissionInv, Grounded, NoInvitation
      <3>2. invitation'[i] # NoInvitation /\ invitation'[i].phone = p
        BY <2>2, <3>1, InvitationRows
      <3>3. invitation'[i].accepted
        <4>1. invitation[i] \in Invited
          BY <2>2, <3>1 DEF TInv, TypeOK
        <4> QED
          BY <1>3, <2>2, <4>1 DEF CommitRegistration, TInv, TypeOK, Invited
      <3>4. Grounds(p)'
        BY <2>1, <2>2, <2>4, <3>2, <3>3 DEF Grounds
      <3> QED
        BY <1>1, <2>1, <3>4 DEF AdmittedOnGrounds
    <2> QED
      BY <2>3, <2>4
  <1> QED
    BY <1>2, <1>3

\* A client has answered a code, or an invitation where codes are off.
THEOREM AdmissionSafety == Spec => []AdmittedOnGrounds
  <1>1. Init => AdmissionInv
    BY DEF Init, AdmissionInv, AdmittedOnGrounds, Grounded, NoCodes, Idle
  <1>2. IInv /\ AdmissionInv /\ [Next]_vars => AdmissionInv'
    BY AdmissionStep DEF IInv
  <1>3. AdmissionInv => AdmittedOnGrounds
    BY DEF AdmissionInv
  <1> QED
    BY <1>1, <1>2, <1>3, Invariance, PTL DEF Spec
=============================================================================
