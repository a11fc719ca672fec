---------------------------- MODULE MCSessions ----------------------------
(***************************************************************************)
(* SignIn, RefreshRotation, ResetCodes and LoginThrottle on small          *)
(* instances.  Rotation is about one of the sessions SignIn opens, a       *)
(* redeemed code is SignIn's ResetPassword, and the throttle only decides  *)
(* whether a call comes to be: they share no state, so a behaviour here is *)
(* one of one of them, and while it moves the others are in their initial  *)
(* states.                                                                 *)
(***************************************************************************)
EXTENDS SignIn, TLC

CONSTANTS Requests, MaxGeneration,
          Calls, CodeLimit, MaxAttempts, DailyLimit, Window, Ttl, Day, MaxTime, MaxCodes,
          Devices, Captchas, AccountLimit, DeviceLimit, IpLimit, FloodLimit,
          CaptchaAfterAccount, CaptchaAfterIp, MaxLog

\* Every limit is at least one (config.py: minimum=1), and so is what the model bounds.
ASSUME LimitsAllowed ==
    /\ IsFiniteSet(Calls)
    /\ {AccountLimit, DeviceLimit, IpLimit, FloodLimit, CaptchaAfterAccount, CaptchaAfterIp,
        CodeLimit, MaxAttempts, DailyLimit, Window, Ttl, Day, MaxGeneration} \subseteq Nat \ {0}
    /\ {MaxTime, MaxCodes, MaxLog, MaxVersion} \subseteq Nat

VARIABLES generation, grace, status, held, call, outlasted,
          codes, clock, redeemer,
          log, pictures, check, spent

Rotation == INSTANCE RefreshRotation
rotation == <<generation, grace, status, held, call, outlasted>>

Reset == INSTANCE ResetCodes WITH call <- redeemer
reset == <<codes, clock, redeemer>>

Throttle == INSTANCE LoginThrottle WITH call <- check
throttle == <<log, pictures, check, spent>>

SessionsInit == Init /\ Rotation!Init /\ Reset!Init /\ Throttle!Init

\* One of SignIn's initial states is enough for the others to start from.
SignInRests == ~user.legacy /\ Init

SessionsNext ==
    \/ Rotation!Init /\ Reset!Init /\ Throttle!Init /\ Next /\ UNCHANGED <<rotation, reset, throttle>>
    \/ SignInRests /\ Reset!Init /\ Throttle!Init /\ Rotation!Next /\ UNCHANGED <<vars, reset, throttle>>
    \/ SignInRests /\ Rotation!Init /\ Throttle!Init /\ Reset!Next /\ UNCHANGED <<vars, rotation, throttle>>
    \/ SignInRests /\ Rotation!Init /\ Reset!Init /\ Throttle!Next /\ UNCHANGED <<vars, rotation, reset>>

SessionsSpec == SessionsInit /\ [][SessionsNext]_<<vars, rotation, reset, throttle>>

\* The type invariants of all four.
TypesOK == TypeOK /\ Rotation!TypeOK /\ Reset!TypeOK /\ Throttle!TypeOK

RacingNeverLogsOut == Rotation!RacingNeverLogsOut
CodesDieForGood == Reset!CodesDieForGood

\* What the code counts before it writes stays within bounds however calls overlap: the sessions
\* of a user, the guesses at a code, the failed logins before a lock, the uses of a picture.
LimitsHold == SessionLimit /\ Reset!LimitsHold /\ Throttle!LocksHold /\ Throttle!PicturesWorkOnce

Symmetry == Permutations(Logins) \cup Permutations(SessionIds) \cup Permutations(Passwords)
            \cup Permutations(Calls)
=============================================================================
