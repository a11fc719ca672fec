-------------------------- MODULE RefreshRotation --------------------------
(***************************************************************************)
(* Refresh-token rotation of one session (app/services/sessions.py) and    *)
(* the app that uses it.  The app may fire several refreshes at once, each *)
(* with the token it has stored; requests and responses may be overtaken   *)
(* or lost.  The server handles one at a time (SELECT ... FOR UPDATE on    *)
(* the session's row) and accepts the previous generation for a grace      *)
(* period after a rotation.  The app is not part of the repository: it     *)
(* follows docs/AUTH.md and stores the refresh token of every response.    *)
(***************************************************************************)
EXTENDS Naturals

CONSTANTS Requests,       \* refresh calls in flight at once
          MaxGeneration   \* bound on rotations

VARIABLES generation,  \* auth_sessions.generation
          grace,       \* rotated_at is set and at most REFRESH_REUSE_GRACE_SECONDS ago
          status,      \* "live", or why revoked_at was set
          held,        \* the generation of the token the app has stored
          call,        \* the app's refresh calls
          outlasted    \* ghost: a grace period ended before the app was done with the rotation

vars == <<generation, grace, status, held, call, outlasted>>

Generations == 1..MaxGeneration
NoCall == [phase |-> "none"]

TypeOK ==
    /\ generation \in Generations
    /\ grace \in BOOLEAN
    /\ status \in {"live", "expired", "user_inactive", "logout", "reuse_detected"}
    /\ held \in Generations
    /\ call \in [Requests -> {NoCall} \cup [phase : {"sent", "answered"}, token : Generations]]
    /\ outlasted \in BOOLEAN

Init ==
    /\ generation = 1 /\ grace = FALSE /\ status = "live"
    /\ held = 1
    /\ call = [r \in Requests |-> NoCall]
    /\ outlasted = FALSE

InFlight == {r \in Requests : call[r] # NoCall}

-----------------------------------------------------------------------------
(* The app *)

\* A burst of refreshes shares one token: the app waits for the calls it sent
\* with an older one (an app that does not could be late by two generations).
Send(r) ==
    /\ call[r] = NoCall
    /\ \A q \in InFlight : call[q] = [phase |-> "sent", token |-> held]
    /\ call' = [call EXCEPT ![r] = [phase |-> "sent", token |-> held]]
    /\ UNCHANGED <<generation, grace, status, held, outlasted>>

Receive(r) ==
    /\ call[r] # NoCall /\ call[r].phase = "answered"
    /\ held' = call[r].token
    /\ call' = [call EXCEPT ![r] = NoCall]
    /\ UNCHANGED <<generation, grace, status, outlasted>>

\* The request or its response is lost; the app may retry with the token it has.
Lose(r) ==
    /\ call[r] # NoCall
    /\ call' = [call EXCEPT ![r] = NoCall]
    /\ UNCHANGED <<generation, grace, status, held, outlasted>>

-----------------------------------------------------------------------------
(* The server *)

Answer(r, token) == call' = [call EXCEPT ![r] = [phase |-> "answered", token |-> token]]
Unauthorized(r) == call' = [call EXCEPT ![r] = NoCall]

\* Mutant: rotated_at is not written, so no grace period begins.
RotateWithoutGrace(r) ==
    /\ call[r].token = generation
    /\ generation < MaxGeneration
    /\ generation' = generation + 1
    /\ Answer(r, generation + 1)
    /\ UNCHANGED <<grace, status>>

\* The current token: the next generation.
RotateCurrent(r) ==
    /\ call[r].token = generation
    /\ generation < MaxGeneration
    /\ generation' = generation + 1
    /\ grace' = TRUE
    /\ Answer(r, generation + 1)
    /\ UNCHANGED status

\* The previous one within the grace period: the token that was just issued.
RepeatCurrent(r) ==
    /\ call[r].token = generation - 1 /\ grace
    /\ Answer(r, generation)
    /\ UNCHANGED <<generation, grace, status>>

\* Any other: somebody else has used the token; the session ends.
DetectReuse(r) ==
    /\ call[r].token # generation
    /\ ~(call[r].token = generation - 1 /\ grace)
    /\ status' = "reuse_detected"
    /\ Unauthorized(r)
    /\ UNCHANGED <<generation, grace>>

\* An expired session, or an inactive user, ends it instead; a disabled
\* school refuses and keeps it.
Refuse(r) ==
    /\ status' \in {"expired", "user_inactive", "live"}
    /\ Unauthorized(r)
    /\ UNCHANGED <<generation, grace>>

Rotate(r) ==
    /\ call[r] # NoCall /\ call[r].phase = "sent"
    /\ IF status = "live"
       THEN RotateCurrent(r) \/ RepeatCurrent(r) \/ DetectReuse(r) \/ Refuse(r)
       ELSE Unauthorized(r) /\ UNCHANGED <<generation, grace, status>>
    /\ UNCHANGED <<held, outlasted>>

Logout ==
    /\ status = "live"
    /\ status' = "logout"
    /\ UNCHANGED <<generation, grace, held, call, outlasted>>

GraceEnds ==
    /\ grace
    /\ grace' = FALSE
    /\ outlasted' = (outlasted \/ InFlight # {} \/ held # generation)
    /\ UNCHANGED <<generation, status, held, call>>

Next ==
    \/ \E r \in Requests : Send(r) \/ Receive(r) \/ Lose(r) \/ Rotate(r)
    \/ Logout \/ GraceEnds

Spec == Init /\ [][Next]_vars

-----------------------------------------------------------------------------
\* sessions.py: within the grace period "racing requests (or a retry after a
\* dropped response) never log the user out".  As long as no grace period ends
\* before the app is done with the rotation, the session of a single honest app
\* is never revoked for reuse.
RacingNeverLogsOut == ~outlasted => status # "reuse_detected"
=============================================================================
