------------------------ MODULE ReminderPreferences ------------------------
(***************************************************************************)
(* A client's reminder settings: the preference, the push subscriptions    *)
(* and the consent record, as notification-preferences.ts and              *)
(* push-subscriptions.ts write them.                                       *)
(*                                                                         *)
(* A request is one READ COMMITTED transaction.  Enabling locks the        *)
(* endpoint's row and then the preference's; disabling locks the           *)
(* preference's row and then those of the devices it revokes.  What a      *)
(* request writes is seen when it commits; what it locks is its control    *)
(* state.                                                                  *)
(***************************************************************************)
EXTENDS LocalTime, Sequences, SequencesExt

CONSTANTS
    Client,
    Endpoint,           \* push endpoints: each is one browser's
    Tab,                \* requests in progress
    ReminderTimes,      \* ALLOWED_REMINDER_TIME_CHOICES
    NoClient,           \* the owner of an endpoint that is not ACTIVE
    MaxNow,             \* bound: the clock stops here
    MaxRequests         \* bound on what clients, staff and providers do

ASSUME PreferencesAssumption ==
    /\ ReminderTimes \subseteq LocalTimes
    /\ NoClient \notin Client
    /\ MaxNow \in Nat
    /\ MaxRequests \in Nat

VARIABLES
    now,                \* the clock
    pref,               \* preference of a client (no row reads as disabled)
    queue,              \* clients with reminders on, by the preference's updatedAt
    sub,                \* the client for whom an endpoint is ACTIVE
    consent,            \* the newest consent record of a client
    tab,                \* control state of a request
    requests            \* number of requests so far

settings == <<pref, queue, sub, consent>>

Idle == [pc |-> "idle"]

Preference == [enabled : BOOLEAN, time : LocalTimes, enabledAt : 0..MaxNow]

Request ==
    {Idle}
        \cup [pc : {"enabling"}, client : Client, endpoint : Endpoint,
              time : LocalTimes, since : 0..MaxNow]
        \cup [pc : {"disabling"}, client : Client]
        \cup [pc : {"revoking"}, client : Client, devices : SUBSET Endpoint]

SettingsTypeOK ==
    /\ now \in 0..MaxNow
    /\ pref \in [Client -> Preference]
    /\ queue \in Seq(Client)
    /\ sub \in [Endpoint -> Client \cup {NoClient}]
    /\ consent \in [Client -> {"none", "granted", "revoked"}]
    /\ tab \in [Tab -> Request]
    /\ requests \in 0..MaxRequests

SettingsInit ==
    /\ now \in 0..MaxNow
    /\ pref = [c \in Client |-> [enabled |-> FALSE, time |-> QuietEnd,
                                 enabledAt |-> 0]]
    /\ queue = <<>>
    /\ sub = [e \in Endpoint |-> NoClient]
    /\ consent = [c \in Client |-> "none"]
    /\ tab = [t \in Tab |-> Idle]
    /\ requests = 0

Counted == requests < MaxRequests /\ requests' = requests + 1

Devices(c) == {e \in Endpoint : sub[e] = c}

Without(c) ==
    LET place == CHOOSE i \in DOMAIN queue : queue[i] = c
    IN  IF \E i \in DOMAIN queue : queue[i] = c THEN RemoveAt(queue, place)
                                                ELSE queue

----------------------------------------------------------------------------
(* Row locks of the requests in progress.                                  *)

EndpointLocked(e, t) ==
    \E u \in Tab \ {t} : \/ tab[u].pc = "enabling" /\ tab[u].endpoint = e
                         \/ tab[u].pc = "revoking" /\ e \in tab[u].devices

\* faulty: the upsert of the preference takes no lock
PreferenceUnlocked(c, t) == FALSE

PreferenceLocked(c, t) ==
    \E u \in Tab \ {t} : /\ tab[u].pc \in {"disabling", "revoking"}
                         /\ tab[u].client = c

----------------------------------------------------------------------------
\* enableMissionReminderPreference up to the upsert of the endpoint's row.
StartEnable(t, c, e, p) ==
    /\ tab[t] = Idle
    /\ p \in ReminderTimes
    /\ ~InQuietHours(p)
    /\ ~EndpointLocked(e, t)
    /\ Counted
    /\ tab' = [tab EXCEPT ![t] = [pc |-> "enabling", client |-> c,
                                  endpoint |-> e, time |-> p,
                                  since |-> now]]
    /\ UNCHANGED <<now, settings>>

\* The endpoint becomes the client's, whoever had it; preference, consent,
\* audit row and commit.  enabledAt is the clock before the upsert waits for the
\* row of the preference: any moment since the request began.
CommitEnable(t) ==
    LET c == tab[t].client
    IN  /\ tab[t].pc = "enabling"
        /\ ~PreferenceLocked(c, t)
        /\ sub' = [sub EXCEPT ![tab[t].endpoint] = c]
        /\ \E moment \in tab[t].since..now :
             pref' = [pref EXCEPT ![c] = [enabled |-> TRUE, time |-> tab[t].time,
                                          enabledAt |-> moment]]
        /\ queue' = Append(Without(c), c)
        /\ consent' = [consent EXCEPT ![c] = "granted"]
        /\ tab' = [tab EXCEPT ![t] = Idle]
        /\ UNCHANGED <<now, requests>>

\* disableMissionReminderPreference up to the upsert of the preference.
StartDisable(t, c) ==
    /\ tab[t] = Idle
    /\ ~PreferenceLocked(c, t)
    /\ Counted
    /\ tab' = [tab EXCEPT ![t] = [pc |-> "disabling", client |-> c]]
    /\ UNCHANGED <<now, settings>>

\* faulty: one device of the client is revoked, the others stay ACTIVE
RevokedFirst(c) ==
    IF Devices(c) = {} THEN {} ELSE {CHOOSE e \in Endpoint : e \in Devices(c)}

\* The UPDATE that revokes the ACTIVE subscriptions of the client.
Revoked(c) == Devices(c)

RevokeDevices(t) ==
    LET c == tab[t].client
    IN  /\ tab[t].pc = "disabling"
        /\ \A e \in Revoked(c) : ~EndpointLocked(e, t)
        /\ tab' = [tab EXCEPT ![t] = [pc |-> "revoking", client |-> c,
                                      devices |-> Revoked(c)]]
        /\ UNCHANGED <<now, settings, requests>>

\* Consent, audit row and commit.
CommitDisable(t) ==
    LET c == tab[t].client
    IN  /\ tab[t].pc = "revoking"
        /\ sub' = [e \in Endpoint |-> IF e \in tab[t].devices THEN NoClient
                                                              ELSE sub[e]]
        /\ pref' = [pref EXCEPT ![c].enabled = FALSE]
        /\ queue' = Without(c)
        /\ consent' = [consent EXCEPT ![c] = "revoked"]
        /\ tab' = [tab EXCEPT ![t] = Idle]
        /\ UNCHANGED <<now, requests>>

\* The transaction is rolled back: an error, or the victim of a deadlock
\* between an enabling and a disabling request of one client.
RollBack(t) ==
    /\ tab[t] # Idle
    /\ tab' = [tab EXCEPT ![t] = Idle]
    /\ UNCHANGED <<now, settings, requests>>

\* A provider's answer makes the worker give up a subscription.
InvalidateDevice(e) ==
    /\ sub[e] # NoClient
    /\ \A t \in Tab : ~(tab[t].pc = "enabling" /\ tab[t].endpoint = e)
    /\ \A t \in Tab : ~(tab[t].pc = "revoking" /\ e \in tab[t].devices)
    /\ Counted
    /\ sub' = [sub EXCEPT ![e] = NoClient]
    /\ UNCHANGED <<now, pref, queue, consent, tab>>

Tick == now < MaxNow /\ now' = now + 1 /\ UNCHANGED <<settings, tab, requests>>

SettingsStep ==
    \/ \E t \in Tab : \/ \E c \in Client, e \in Endpoint, p \in ReminderTimes :
                            StartEnable(t, c, e, p)
                      \/ CommitEnable(t)
                      \/ \E c \in Client : StartDisable(t, c)
                      \/ RevokeDevices(t)
                      \/ CommitDisable(t)
                      \/ RollBack(t)
    \/ \E e \in Endpoint : InvalidateDevice(e)

----------------------------------------------------------------------------
\* The settings of a client agree whatever requests overlap: reminders are on
\* exactly when the newest consent record grants them, and a client who turned
\* them off has no device that a push could reach.
SettingsAgree ==
    \A c \in Client :
        /\ pref[c].enabled <=> consent[c] = "granted"
        /\ ~pref[c].enabled => Devices(c) = {}
=============================================================================
