------------------------------ MODULE Sessions ------------------------------
(***************************************************************************)
(* How one user signs in and stays signed in: password, second factor      *)
(* (auth-service/auth.service.ts, 2fa.service.ts, login.mfa.challenge.ts), *)
(* sessions whose refresh token is replaced at each use                    *)
(* (session.manager.ts), and step-up tokens for single operations          *)
(* (security/mfa.enforcer.ts).  Requests of the user interleave at every   *)
(* await.  The second part are the keys the access tokens are signed with. *)
(***************************************************************************)
EXTENDS Integers, Sequences, FiniteSets

CONSTANTS
    Requests,       \* requests under way
    MaxClock,       \* 30-second counters
    MaxSessions, MaxEnrolments, MaxChallenges, MaxRevocations

VARIABLES
    counter,        \* the time, in steps of 30 seconds
    factor,         \* the row of the second factor: which enrolment's secret
                    \* it holds, and what has been used
    enrolments,
    challenges,     \* login challenges in Redis
    challenged,     \* how many have been issued
    sessions,       \* refresh token -> [revocation it was born under]
    created,        \* refresh tokens issued
    stepUp,         \* the step-up token of WITHDRAWAL: none, fresh, consumed
    revocations,
    request,        \* request -> its step and what it has read
    admitted        \* history: codes that let someone in, with repetitions

authVars == <<counter, factor, enrolments, challenges, challenged, sessions, created,
              stepUp, revocations, request, admitted>>

BackupCode == -2
NoFactor == [enrolment |-> 0, lastUsed |-> -1, backup |-> FALSE]
Waiting == [pc |-> "idle", challenge |-> 0, use |-> "none", read |-> NoFactor,
            session |-> 0, born |-> 0]

AuthInit ==
    /\ counter = 0
    /\ factor = NoFactor /\ enrolments = 0
    /\ challenges = {} /\ challenged = 0
    /\ sessions = {} /\ created = 0
    /\ stepUp = "none" /\ revocations = 0
    /\ request = [r \in Requests |-> Waiting]
    /\ admitted = {}

Goes(r, next) == request' = [request EXCEPT ![r] = next]
Ends(r) == Goes(r, Waiting)
---------------------------------------------------------------------------
CounterPasses ==
    /\ counter < MaxClock /\ counter' = counter + 1
    /\ UNCHANGED <<factor, enrolments, challenges, challenged, sessions, created, stepUp,
                   revocations, request, admitted>>

\* enable2fa() and disable2fa().  The row is written anew: no code is used yet.
Enable ==
    /\ enrolments < MaxEnrolments /\ enrolments' = enrolments + 1
    /\ factor' = [enrolment |-> enrolments + 1, lastUsed |-> -1, backup |-> TRUE]
    /\ UNCHANGED <<counter, challenges, challenged, sessions, created, stepUp,
                   revocations, request, admitted>>
Disable ==
    /\ factor # NoFactor /\ factor' = NoFactor
    /\ UNCHANGED <<counter, enrolments, challenges, challenged, sessions, created,
                   stepUp, revocations, request, admitted>>
---------------------------------------------------------------------------
\* _issueSession(); sessionManager.create().
NewSession == [token |-> created + 1, born |-> revocations]
CreateSession ==
    /\ created < MaxSessions /\ created' = created + 1
    /\ sessions' = sessions \cup {NewSession}

\* login(), with the right password: a session, or a challenge.
Login ==
    /\ IF factor = NoFactor
       THEN CreateSession /\ UNCHANGED <<challenges, challenged>>
       ELSE /\ challenged < MaxChallenges /\ challenged' = challenged + 1
            /\ challenges' = challenges \cup {challenged + 1}
            /\ UNCHANGED <<sessions, created>>
    /\ UNCHANGED <<counter, factor, enrolments, stepUp, revocations, request, admitted>>

ChallengeExpires(c) ==
    /\ c \in challenges /\ challenges' = challenges \ {c}
    /\ UNCHANGED <<counter, factor, enrolments, challenged, sessions, created, stepUp,
                   revocations, request, admitted>>

\* consumeLoginMfaChallenge(): GET, and DEL one await later.
GetChallenge(r, c) ==
    /\ request[r] = Waiting /\ c \in challenges
    /\ Goes(r, [Waiting EXCEPT !.pc = "delete", !.challenge = c, !.use = "login"])
    /\ UNCHANGED <<counter, factor, enrolments, challenges, challenged, sessions, created,
                   stepUp, revocations, admitted>>
DeleteChallenge(r) ==
    /\ request[r].pc = "delete"
    /\ challenges' = challenges \ {request[r].challenge}
    /\ Goes(r, [request[r] EXCEPT !.pc = "factor"])
    /\ UNCHANGED <<counter, factor, enrolments, challenged, sessions, created, stepUp,
                   revocations, admitted>>

\* A signed-in user asks for a step-up token.
AskStepUp(r) ==
    /\ request[r] = Waiting /\ sessions # {}
    /\ Goes(r, [Waiting EXCEPT !.pc = "factor", !.use = "stepUp"])
    /\ UNCHANGED <<counter, factor, enrolments, challenges, challenged, sessions, created,
                   stepUp, revocations, admitted>>

\* verify(): the row is read, then the code claimed in one conditional update.
ReadFactor(r) ==
    /\ request[r].pc = "factor"
    /\ IF factor = NoFactor THEN Ends(r)
       ELSE Goes(r, [request[r] EXCEPT !.pc = "claim", !.read = factor])
    /\ UNCHANGED <<counter, factor, enrolments, challenges, challenged, sessions, created,
                   stepUp, revocations, admitted>>

\* The three counters _matchCounter() accepts.
Matches(r, k) == k \in counter - 1 .. counter + 1

ClaimableAsRead(r, k) == request[r].read.lastUsed < k
Claimable(r, k) == factor # NoFactor /\ factor.lastUsed < k

Admits(r, code) ==
    LET use == [enrolment |-> factor.enrolment, code |-> code]
    IN  /\ admitted' = admitted \cup
                {[use |-> use, time |-> Cardinality({a \in admitted : a.use = use})]}
        /\ \/ /\ request[r].use = "login"
              /\ CreateSession /\ UNCHANGED stepUp
           \/ /\ request[r].use = "stepUp"
              /\ stepUp' = "fresh"
              /\ UNCHANGED <<sessions, created>>

\* A one-time code; by now the row may hold another secret than the code's.
Claim(r, k) ==
    /\ request[r].pc = "claim" /\ Matches(r, k)
    /\ IF Claimable(r, k)
       THEN /\ factor' = [factor EXCEPT !.lastUsed = k]
            /\ Admits(r, k)
       ELSE UNCHANGED <<factor, admitted, sessions, created, stepUp>>
    /\ Ends(r)
    /\ UNCHANGED <<counter, enrolments, challenges, challenged, revocations>>

\* A backup code that was in the row when it was read.
Consume(r) ==
    /\ request[r].pc = "claim" /\ request[r].read.backup
    /\ IF factor.backup /\ factor.enrolment = request[r].read.enrolment
       THEN /\ factor' = [factor EXCEPT !.backup = FALSE]
            /\ Admits(r, BackupCode)
       ELSE UNCHANGED <<factor, admitted, sessions, created, stepUp>>
    /\ Ends(r)
    /\ UNCHANGED <<counter, enrolments, challenges, challenged, revocations>>

\* checkStepUp() for an operation of single use: one script.
SpendStepUp ==
    /\ stepUp = "fresh"
    /\ stepUp' \in {"consumed", "none"}  \* or its time is over
    /\ UNCHANGED <<counter, factor, enrolments, challenges, challenged, sessions, created,
                   revocations, request, admitted>>
---------------------------------------------------------------------------
\* refresh(): validate(), then rotate() in one transaction, whose delete fails
\* when the row has gone.
Validate(r, s) ==
    /\ request[r] = Waiting /\ s \in sessions
    /\ Goes(r, [Waiting EXCEPT !.pc = "rotate", !.session = s.token, !.born = s.born])
    /\ UNCHANGED <<counter, factor, enrolments, challenges, challenged, sessions, created,
                   stepUp, revocations, admitted>>

Validated(r) == [token |-> request[r].session, born |-> request[r].born]
DeletedOrGone(r) == TRUE
Deleted(r) == Validated(r) \in sessions

RotateSession(r) ==
    /\ request[r].pc = "rotate"
    /\ IF Deleted(r)
       THEN /\ created < MaxSessions /\ created' = created + 1
            /\ sessions' = (sessions \ {Validated(r)}) \cup
                    {[token |-> created + 1, born |-> request[r].born]}
       ELSE UNCHANGED <<sessions, created>>
    /\ Ends(r)
    /\ UNCHANGED <<counter, factor, enrolments, challenges, challenged, stepUp,
                   revocations, admitted>>

\* logout(), revokeSession(), an expired session met by validate() or purged.
Revoke(s) ==
    /\ s \in sessions /\ sessions' = sessions \ {s}
    /\ UNCHANGED <<counter, factor, enrolments, challenges, challenged, created, stepUp,
                   revocations, request, admitted>>

RevokeAll ==
    /\ revocations < MaxRevocations /\ revocations' = revocations + 1
    /\ sessions' = {}
    /\ UNCHANGED <<counter, factor, enrolments, challenges, challenged, created, stepUp,
                   request, admitted>>

AuthNext ==
    \/ CounterPasses \/ Enable \/ Disable \/ Login \/ RevokeAll \/ SpendStepUp
    \/ \E c \in challenges : ChallengeExpires(c)
    \/ \E s \in sessions : Revoke(s)
    \/ \E r \in Requests :
        \/ \E c \in challenges : GetChallenge(r, c)
        \/ \E s \in sessions : Validate(r, s)
        \/ \E k \in 0 .. MaxClock : Claim(r, k)
        \/ DeleteChallenge(r) \/ AskStepUp(r) \/ ReadFactor(r) \/ Consume(r)
        \/ RotateSession(r)
---------------------------------------------------------------------------
\* A code lets nobody in twice, whatever two requests read before they claim it,
\* as long as the second factor is not set up again.
CodesAdmitOnce == \A a \in admitted : a.time = 0

\* "Sign out everywhere" is not undone by a refresh that was under way: a session
\* older than the last such request has no successor.
RevocationSticks == \A s \in sessions : s.born = revocations

\* Both of them, over every interleaving of the requests.
SessionsSound == CodesAdmitOnce /\ RevocationSticks

(***************************************************************************)
(* The keys the workers sign access tokens with                            *)
(* (security/jwt-key-manager.ts).  Every worker rotates on a timer of its  *)
(* own and tells the others on a control channel of Redis                  *)
(* (shared/control.channel.ts), which delivers to every subscriber, the    *)
(* sender among them, in one order, once or not at all.                    *)
(***************************************************************************)

CONSTANTS
    Signers,            \* workers
    MaxRotations, MaxKeyFaults

ASSUME KeyAssumption == MaxRotations \in Nat /\ MaxKeyFaults \in Nat

EnvKey == 0             \* the key of the environment, which a worker starts with
NoKey == -1

VARIABLES
    keys,               \* worker -> [primary, secondary]
    expiring,           \* worker -> keys whose grace timer runs
    sending,            \* worker -> rotations not yet published
    published,          \* the messages of the channel, in order
    delivered,          \* worker -> how many of them it has seen pass
    follows,            \* history: worker -> it has applied the last of those
                        \* and neither rotated nor restarted since
    rotations, keyFaults

keyVars == <<keys, expiring, sending, published, delivered, follows, rotations, keyFaults>>

KeyFault == keyFaults < MaxKeyFaults /\ keyFaults' = keyFaults + 1
EnvKeys == [primary |-> EnvKey, secondary |-> NoKey]

KeyInit ==
    /\ keys = [w \in Signers |-> EnvKeys]
    /\ expiring = [w \in Signers |-> {}]
    /\ sending = [w \in Signers |-> << >>]
    /\ published = << >>
    /\ delivered = [w \in Signers |-> 0] /\ follows = [w \in Signers |-> FALSE]
    /\ rotations = 0 /\ keyFaults = 0
---------------------------------------------------------------------------
\* _applyNewPrimary()
Apply(w, key) ==
    /\ keys' = [keys EXCEPT ![w] = [primary |-> key, secondary |-> keys[w].primary]]
    /\ expiring' = [expiring EXCEPT ![w] = @ \cup {keys[w].primary}]

\* rotate(), on the timer of the worker.
Rotate(w) ==
    /\ rotations < MaxRotations /\ rotations' = rotations + 1
    /\ Apply(w, rotations + 1)
    /\ sending' = [sending EXCEPT ![w] = Append(@, rotations + 1)]
    /\ follows' = [follows EXCEPT ![w] = FALSE]
    /\ UNCHANGED <<published, delivered, keyFaults>>

\* publishControlChannel(), whose failure is only logged.
Publish(w) ==
    /\ sending[w] # << >>
    /\ sending' = [sending EXCEPT ![w] = Tail(@)]
    /\ \/ published' = Append(published, Head(sending[w])) /\ UNCHANGED keyFaults
       \/ KeyFault /\ UNCHANGED published
    /\ UNCHANGED <<keys, expiring, delivered, follows, rotations>>

\* _applyRemoteRotation()
AlreadyAppliedOrOwn(w, key) == key \in {keys[w].primary, keys[w].secondary}
AlreadyApplied(w, key) == key = keys[w].primary

Deliver(w) ==
    LET key == published[delivered[w] + 1]
    IN  /\ delivered[w] < Len(published)
        /\ delivered' = [delivered EXCEPT ![w] = @ + 1]
        /\ IF AlreadyApplied(w, key) THEN UNCHANGED <<keys, expiring>> ELSE Apply(w, key)
        /\ follows' = [follows EXCEPT ![w] = TRUE]
        /\ UNCHANGED <<sending, published, rotations, keyFaults>>
\* The subscription is down when the message passes.
Miss(w) ==
    /\ delivered[w] < Len(published) /\ KeyFault
    /\ delivered' = [delivered EXCEPT ![w] = @ + 1]
    /\ follows' = [follows EXCEPT ![w] = FALSE]
    /\ UNCHANGED <<keys, expiring, sending, published, rotations>>

\* The grace period of a key ends, if it is still the one kept.
GraceEnds(w, key) ==
    /\ key \in expiring[w]
    /\ expiring' = [expiring EXCEPT ![w] = @ \ {key}]
    /\ keys' = IF keys[w].secondary = key THEN [keys EXCEPT ![w].secondary = NoKey] ELSE keys
    /\ UNCHANGED <<sending, published, delivered, follows, rotations, keyFaults>>

\* init(): a worker that restarts is back at the key of the environment.
RestartSigner(w) ==
    /\ KeyFault
    /\ keys' = [keys EXCEPT ![w] = EnvKeys]
    /\ expiring' = [expiring EXCEPT ![w] = {}]
    /\ sending' = [sending EXCEPT ![w] = << >>]
    /\ delivered' = [delivered EXCEPT ![w] = Len(published)]
    /\ follows' = [follows EXCEPT ![w] = FALSE]
    /\ UNCHANGED <<published, rotations>>

KeyNext ==
    \E w \in Signers :
        \/ Rotate(w) \/ Publish(w) \/ Deliver(w) \/ Miss(w) \/ RestartSigner(w)
        \/ \E key \in expiring[w] : GraceEnds(w, key)
---------------------------------------------------------------------------
\* "every replica converges on the identical primary key"
\* (security/jwt-key-manager.ts:48): however the rotations of several workers
\* cross, the workers that have seen the same messages to the end, and have
\* neither rotated nor restarted since, sign with the same key.
RotationsConverge ==
    \A v, w \in Signers :
        (follows[v] /\ follows[w] /\ delivered[v] = delivered[w])
            => keys[v].primary = keys[w].primary
=============================================================================
