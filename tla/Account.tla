------------------------------ MODULE Account ------------------------------
(***************************************************************************)
(* One account of the Auth service, the data kept for it and the code sent *)
(* by mail to reset its password: deletion of the account (userStore.ts),  *)
(* the reset code (passwordResetOtpService.ts), and the calls of its owner *)
(* that write data.  A call is a process of the server, a step one request *)
(* to Auth, to the data base or to the mail service.  A request may fail,  *)
(* and one that failed may have been carried out all the same.             *)
(***************************************************************************)
EXTENDS Naturals, Sequences, FiniteSets

CONSTANTS Callers,              \* calls that the server handles at a time
          MaxOtpAttempts,       \* MAX_OTP_ATTEMPTS
          ReEnableAttempts,     \* attempts to take a failed deletion back
          MaxCodes,             \* bound on the codes that are sent
          MaxDeletions,         \* bound on the deletions that begin
          MaxFailures,          \* bound on the requests that fail
          None

ASSUME AccountAssumption ==
    /\ MaxOtpAttempts \in Nat \ {0} /\ ReEnableAttempts \in Nat \ {0}
    /\ MaxCodes \in Nat /\ MaxDeletions \in Nat /\ MaxFailures \in Nat

VARIABLES
    authUser,        \* the account: "enabled", "disabled" or "gone"
    stored,          \* which data of the user there is, without the reset document
    passwordResets,  \* the reset document or None: code, attempts, expired
    calls,           \* what each caller is doing
    codes,           \* the codes made so far are 1..codes
    deletions, failures,
    late,            \* ghost: data last written while the account was being deleted
    disableLost,     \* ghost: a disabling was carried out and yet failed
    tokens, misses,  \* ghosts: per code, the sign-in tokens and "wrong code"s answered
    raced            \* ghost: the codes that two calls were about at the same time

vars == <<authUser, stored, passwordResets, calls, codes, deletions, failures,
          late, disableLost, tokens, misses, raced>>

Data == {"userDoc", "knownReleases", "pushTokens"}
Codes == 1..MaxCodes
Idle == [op |-> "idle"]

\* runCleanupSteps
CleanupSteps == <<"userDoc", "knownReleases", "passwordResets", "pushTokens">>

Init ==
    /\ authUser = "enabled" /\ stored = Data /\ passwordResets = None
    /\ calls = [c \in Callers |-> Idle]
    /\ codes = 0 /\ deletions = 0 /\ failures = 0
    /\ late = {} /\ disableLost = FALSE
    /\ tokens = [k \in Codes |-> 0] /\ misses = [k \in Codes |-> 0] /\ raced = {}

At(c, op, at) == calls[c].op = op /\ calls[c].at = at
Becomes(c, call) == calls' = [calls EXCEPT ![c] = call]
Goes(c, at) == Becomes(c, [calls[c] EXCEPT !.at = at])
Ends(c) == Becomes(c, Idle)

Fails == failures < MaxFailures /\ failures' = failures + 1
Succeeds == UNCHANGED failures

IsDeleting(c) == calls[c].op = "delete"
IsBeingDeleted == authUser # "enabled" \/ \E c \in Callers : IsDeleting(c)

\* A part of the data is written; it is late when the account is being deleted.
Wrote(part) == late' = IF IsBeingDeleted THEN late \cup {part} ELSE late \ {part}

otpVars == <<codes, tokens, misses, raced>>
deletionVars == <<authUser, stored, deletions, disableLost>>

-----------------------------------------------------------------------------
(* Deleting the account.                                                   *)

\* deleteUserAccount; a second deletion may begin while the first is under way.
BeginDeletion(c) ==
    /\ calls[c] = Idle /\ deletions < MaxDeletions
    /\ deletions' = deletions + 1
    /\ calls' = [d \in Callers |->
          IF d = c THEN [op |-> "delete", at |-> "revoke", step |-> 1, failed |-> FALSE,
                         bestEffort |-> FALSE, tries |-> 0,
                         shared |-> \E e \in Callers : IsDeleting(e)]
          ELSE IF IsDeleting(d) THEN [calls[d] EXCEPT !.shared = TRUE] ELSE calls[d]]
    /\ UNCHANGED <<authUser, stored, passwordResets, failures, late, disableLost, otpVars>>

\* auth/user-not-found: what data there is goes, whatever fails on the way.
FindsAccountGone(c) ==
    /\ authUser = "gone" /\ Succeeds
    /\ Becomes(c, [calls[c] EXCEPT !.at = "cleanup", !.bestEffort = TRUE])
    /\ UNCHANGED <<authUser, disableLost>>

\* A failure ends the call: nothing was removed yet.
RevokeRefreshTokens(c) ==
    /\ At(c, "delete", "revoke")
    /\ \/ FindsAccountGone(c)
       \/ authUser # "gone" /\ Succeeds /\ Goes(c, "disable") /\ UNCHANGED <<authUser, disableLost>>
       \/ Fails /\ Ends(c) /\ UNCHANGED <<authUser, disableLost>>
    /\ UNCHANGED <<stored, passwordResets, deletions, late, otpVars>>

\* FAULTY: as it would be were the disabling a step like the others.
DisableUserBestEffort(c) ==
    /\ At(c, "delete", "disable")
    /\ \/ FindsAccountGone(c)
       \/ authUser # "gone" /\ authUser' = "disabled" /\ Succeeds /\ Goes(c, "cleanup") /\ UNCHANGED disableLost
       \/ Fails /\ Goes(c, "cleanup") /\ UNCHANGED <<authUser, disableLost>>
    /\ UNCHANGED <<stored, passwordResets, deletions, late, otpVars>>

DisableUser(c) ==
    /\ At(c, "delete", "disable")
    /\ \/ FindsAccountGone(c)
       \/ /\ authUser # "gone" /\ authUser' = "disabled"
          /\ \/ Succeeds /\ Goes(c, "cleanup") /\ UNCHANGED disableLost
             \/ Fails /\ Ends(c) /\ disableLost' = TRUE
       \/ Fails /\ Ends(c) /\ UNCHANGED <<authUser, disableLost>>
    /\ UNCHANGED <<stored, passwordResets, deletions, late, otpVars>>

Removes(part) ==
    /\ stored' = stored \ {part}
    /\ passwordResets' = IF part = "passwordResets" THEN None ELSE passwordResets

\* FAULTY: as it would be did only the last step's failure count.
KeepsOnWithLast(c, failed) ==
    LET call == calls[c]
    IN  IF call.step < Len(CleanupSteps)
        THEN Becomes(c, [call EXCEPT !.step = @ + 1])
        ELSE IF call.bestEffort THEN Ends(c)
        ELSE Goes(c, IF failed THEN "reEnable" ELSE "deleteUser")

KeepsOn(c, failed) ==
    LET call == calls[c]
        wrong == call.failed \/ failed
    IN  IF call.step < Len(CleanupSteps)
        THEN Becomes(c, [call EXCEPT !.step = @ + 1, !.failed = wrong])
        ELSE IF call.bestEffort THEN Ends(c)
        ELSE Becomes(c, [call EXCEPT !.failed = wrong,
                                     !.at = IF wrong THEN "reEnable" ELSE "deleteUser"])

\* A step that fails is recorded and the next one is tried.
CleanupStep(c) ==
    /\ At(c, "delete", "cleanup")
    /\ \/ Removes(CleanupSteps[calls[c].step]) /\ Succeeds /\ KeepsOn(c, FALSE)
       \/ Removes(CleanupSteps[calls[c].step]) /\ Fails /\ KeepsOn(c, TRUE)
       \/ UNCHANGED <<stored, passwordResets>> /\ Fails /\ KeepsOn(c, TRUE)
    /\ UNCHANGED <<authUser, deletions, late, disableLost, otpVars>>

\* FAULTY: as it would be were there one attempt.
ReEnableUserOnce(c) ==
    /\ At(c, "delete", "reEnable")
    /\ \/ authUser # "gone" /\ authUser' = "enabled" /\ Succeeds /\ Ends(c)
       \/ ((authUser = "gone" /\ Succeeds) \/ Fails) /\ Ends(c) /\ UNCHANGED authUser
    /\ UNCHANGED <<stored, passwordResets, deletions, late, disableLost, otpVars>>

\* An attempt to enable an account that is gone fails by itself.
ReEnableUser(c) ==
    /\ At(c, "delete", "reEnable")
    /\ \/ authUser # "gone" /\ authUser' = "enabled" /\ Succeeds /\ Ends(c)
       \/ /\ \/ authUser = "gone" /\ Succeeds /\ UNCHANGED authUser
             \/ Fails /\ UNCHANGED authUser
             \/ authUser # "gone" /\ Fails /\ authUser' = "enabled"
          /\ IF calls[c].tries + 1 < ReEnableAttempts
             THEN Becomes(c, [calls[c] EXCEPT !.tries = @ + 1])
             ELSE Ends(c)
    /\ UNCHANGED <<stored, passwordResets, deletions, late, disableLost, otpVars>>

\* auth/user-not-found counts as deleted.
DeleteUser(c) ==
    /\ At(c, "delete", "deleteUser")
    /\ \/ authUser' = "gone" /\ Succeeds /\ Ends(c)
       \/ authUser' \in {authUser, "gone"} /\ Fails /\ Goes(c, "reEnable")
    /\ UNCHANGED <<stored, passwordResets, deletions, late, disableLost, otpVars>>

-----------------------------------------------------------------------------
(* The owner's other calls.                                                *)

\* checkAuth lets in the owner of an enabled account; the call writes later.
BeginUse(c) ==
    /\ calls[c] = Idle /\ authUser = "enabled"
    /\ \E part \in Data : Becomes(c, [op |-> "use", at |-> "write", part |-> part])
    /\ UNCHANGED <<authUser, stored, passwordResets, codes, deletions, failures,
                   late, disableLost, tokens, misses, raced>>

\* getDocumentRefAndSnapshot makes the user's document when there is none; other
\* calls write the known releases and the push tokens.
WriteData(c) ==
    /\ At(c, "use", "write")
    /\ LET part == calls[c].part
       IN IF part = "userDoc" /\ part \in stored
          THEN UNCHANGED <<stored, late>>
          ELSE stored' = stored \cup {part} /\ Wrote(part)
    /\ Ends(c)
    /\ UNCHANGED <<authUser, passwordResets, codes, deletions, failures, disableLost,
                   tokens, misses, raced>>

-----------------------------------------------------------------------------
(* The code that resets the password.                                      *)

\* Both calls look for the user by mail address first; a disabled one is found.
FindUser(c, op, next) ==
    /\ At(c, op, "findUser")
    /\ \/ authUser = "gone" /\ Succeeds /\ Ends(c)
       \/ authUser # "gone" /\ Succeeds /\ Goes(c, next)
       \/ Fails /\ Ends(c)
    /\ UNCHANGED <<deletionVars, passwordResets, late, otpVars>>

BeginSendOtp(c) ==
    /\ calls[c] = Idle /\ codes < MaxCodes
    /\ codes' = codes + 1
    /\ Becomes(c, [op |-> "sendOtp", at |-> "findUser", code |-> codes'])
    /\ UNCHANGED <<deletionVars, passwordResets, failures, late, tokens, misses, raced>>

\* A new code replaces the one before; a request that fails ends the call.
SetReset(c) ==
    /\ At(c, "sendOtp", "setReset")
    /\ \/ /\ passwordResets' = [code |-> calls[c].code, attempts |-> 0, expired |-> FALSE]
          /\ Wrote("passwordResets")
          /\ \/ Succeeds /\ Goes(c, "email")
             \/ Fails /\ Ends(c)
       \/ UNCHANGED <<passwordResets, late>> /\ Fails /\ Ends(c)
    /\ UNCHANGED <<deletionVars, otpVars>>

\* sendOtpEmail
EmailOtp(c) ==
    /\ At(c, "sendOtp", "email")
    /\ \/ Succeeds /\ Ends(c)
       \/ Fails /\ Goes(c, "dropReset")
    /\ UNCHANGED <<deletionVars, passwordResets, late, otpVars>>

\* The code that could not be mailed is taken back; whatever comes of that.
DropReset(c) ==
    /\ At(c, "sendOtp", "dropReset")
    /\ \/ passwordResets' = None /\ Succeeds
       \/ passwordResets' \in {None, passwordResets} /\ Fails
    /\ Ends(c)
    /\ UNCHANGED <<deletionVars, late, otpVars>>

\* The guess is a code that was sent, or none of them (0).
BeginVerifyOtp(c) ==
    /\ calls[c] = Idle
    /\ \E guess \in 0..codes :
          Becomes(c, [op |-> "verifyOtp", at |-> "findUser", guess |-> guess, read |-> None])
    /\ UNCHANGED <<deletionVars, passwordResets, failures, late, otpVars>>

\* What verifyOtp does with what it read.
Verdict(reset, guess) ==
    CASE reset.attempts >= MaxOtpAttempts -> "exceeded"
      [] reset.attempts < MaxOtpAttempts /\ reset.expired -> "expired"
      [] reset.attempts < MaxOtpAttempts /\ ~reset.expired /\ guess = reset.code -> "match"
      [] OTHER -> IF reset.attempts + 1 >= MaxOtpAttempts THEN "lastMiss" ELSE "miss"

IsVerifying(c, code) ==
    calls[c].op = "verifyOtp" /\ calls[c].read # None /\ calls[c].read.code = code

ReadReset(c) ==
    /\ At(c, "verifyOtp", "readReset")
    /\ \/ passwordResets = None /\ Succeeds /\ Ends(c) /\ UNCHANGED raced
       \/ /\ passwordResets # None /\ Succeeds
          /\ LET verdict == Verdict(passwordResets, calls[c].guess)
             IN Becomes(c, [calls[c] EXCEPT !.read = passwordResets, !.at =
                    CASE verdict = "match" -> "makeToken" [] verdict = "miss" -> "increment"
                      [] OTHER -> "delete"])
          /\ raced' = IF \E d \in Callers : IsVerifying(d, passwordResets.code)
                       THEN raced \cup {passwordResets.code} ELSE raced
       \/ Fails /\ Ends(c) /\ UNCHANGED raced
    /\ UNCHANGED <<deletionVars, passwordResets, codes, late, tokens, misses>>

\* createCustomToken
MakeToken(c) ==
    /\ At(c, "verifyOtp", "makeToken")
    /\ \/ Succeeds /\ Goes(c, "delete")
       \/ Fails /\ Ends(c)
    /\ UNCHANGED <<deletionVars, passwordResets, late, otpVars>>

\* FAULTY: as it would be did the call answer whether or not the document goes.
DeleteResetAnyway(c) ==
    /\ At(c, "verifyOtp", "delete") /\ Ends(c)
    /\ LET read == calls[c].read
           verdict == Verdict(read, calls[c].guess)
       IN /\ tokens' = [tokens EXCEPT ![read.code] = IF verdict = "match" THEN @ + 1 ELSE @]
          /\ misses' = [misses EXCEPT ![read.code] = IF verdict = "lastMiss" THEN @ + 1 ELSE @]
    /\ (passwordResets' = None /\ Succeeds) \/ (UNCHANGED passwordResets /\ Fails)
    /\ UNCHANGED <<deletionVars, codes, late, raced>>

\* The document that is there goes, and then the call answers: with the token, or
\* that the guess was wrong.  When the request fails it answers neither.
DeleteReset(c) ==
    /\ At(c, "verifyOtp", "delete") /\ Ends(c)
    /\ LET read == calls[c].read
           verdict == Verdict(read, calls[c].guess)
       IN \/ /\ passwordResets' = None /\ Succeeds
             /\ tokens' = [tokens EXCEPT ![read.code] = IF verdict = "match" THEN @ + 1 ELSE @]
             /\ misses' = [misses EXCEPT ![read.code] = IF verdict = "lastMiss" THEN @ + 1 ELSE @]
          \/ passwordResets' \in {None, passwordResets} /\ Fails /\ UNCHANGED <<tokens, misses>>
    /\ UNCHANGED <<deletionVars, codes, late, raced>>

\* FieldValue.increment(1) counts in the document that is there, and fails
\* without one.
IncrementAttempts(c) ==
    /\ At(c, "verifyOtp", "increment") /\ Ends(c)
    /\ \/ /\ passwordResets # None /\ Succeeds
          /\ passwordResets' = [passwordResets EXCEPT !.attempts = @ + 1]
          /\ misses' = [misses EXCEPT ![calls[c].read.code] = @ + 1]
       \/ passwordResets = None /\ Succeeds /\ UNCHANGED <<passwordResets, misses>>
       \/ /\ Fails /\ UNCHANGED misses
          /\ \/ UNCHANGED passwordResets
             \/ passwordResets # None /\ passwordResets' = [passwordResets EXCEPT !.attempts = @ + 1]
    /\ UNCHANGED <<deletionVars, codes, late, tokens, raced>>

\* OTP_EXPIRY_MINUTES go by.
OtpExpires ==
    /\ passwordResets # None /\ ~passwordResets.expired
    /\ passwordResets' = [passwordResets EXCEPT !.expired = TRUE]
    /\ UNCHANGED <<deletionVars, calls, failures, late, otpVars>>

-----------------------------------------------------------------------------

Next ==
    \/ \E c \in Callers :
          \/ BeginDeletion(c) \/ RevokeRefreshTokens(c) \/ DisableUser(c) \/ CleanupStep(c)
          \/ ReEnableUser(c) \/ DeleteUser(c)
          \/ BeginUse(c) \/ WriteData(c)
          \/ BeginSendOtp(c) \/ FindUser(c, "sendOtp", "setReset") \/ SetReset(c)
          \/ EmailOtp(c) \/ DropReset(c)
          \/ BeginVerifyOtp(c) \/ FindUser(c, "verifyOtp", "readReset") \/ ReadReset(c)
          \/ MakeToken(c) \/ DeleteReset(c) \/ IncrementAttempts(c)
    \/ OtpExpires

Spec == Init /\ [][Next]_vars

-----------------------------------------------------------------------------
(* Properties.                                                             *)

DeleteCalls ==
    [op : {"delete"}, at : {"revoke", "disable", "cleanup", "reEnable", "deleteUser"},
     step : 1..4, failed : BOOLEAN, bestEffort : BOOLEAN, tries : Nat, shared : BOOLEAN]
UseCalls == [op : {"use"}, at : {"write"}, part : Data]
SendCalls == [op : {"sendOtp"}, at : {"findUser", "setReset", "email", "dropReset"}, code : Codes]
Resets == [code : Codes, attempts : Nat, expired : BOOLEAN]
VerifyCalls ==
    [op : {"verifyOtp"}, at : {"findUser", "readReset", "makeToken", "delete", "increment"},
     guess : 0..MaxCodes, read : Resets \cup {None}]
Calls == {Idle} \cup DeleteCalls \cup UseCalls \cup SendCalls \cup VerifyCalls

\* The account, its data and the calls about it have these shapes.
TypeOK ==
    /\ authUser \in {"enabled", "disabled", "gone"} /\ stored \subseteq Data
    /\ passwordResets \in Resets \cup {None}
    /\ calls \in [Callers -> Calls]
    /\ codes \in 0..MaxCodes

Deletions == {c \in Callers : IsDeleting(c)}

\* The data of an enabled account is removed by no deletion, failed and repeated
\* ones included; only two that overlap may do it, where one takes itself back
\* while the other still cleans up (deleteUserAccount, steps 1 to 3).
LiveAccountKeepsItsData ==
    [][stored \ stored' # {} /\ authUser = "enabled" =>
          \E c \in Deletions : At(c, "delete", "cleanup") /\ calls[c].shared]_vars

Parts == Data \cup {"passwordResets"}
IsStored(part) == part \in stored \/ (part = "passwordResets" /\ passwordResets # None)
IsSettled(part) == IsStored(part) => part \in late

\* When the account is gone there is nothing left of its data but what was written
\* while it was being deleted or afterwards, by a call let in before
\* (runCleanupSteps records each failure, and any of them keeps the account).
GoneLeavesNothing == authUser = "gone" => \A part \in Parts : IsSettled(part)

\* An account is left disabled only when every attempt to take a failed deletion
\* back failed too, or when the disabling itself was answered with a failure,
\* which ends the deletion there (deleteUserAccount).
DisabledOnlyByManyFailures ==
    authUser = "disabled" /\ Deletions = {} => failures > ReEnableAttempts \/ disableLost

\* A code signs in once and is refused as wrong no more than MAX_OTP_ATTEMPTS times,
\* whichever requests fail and whatever codes are sent meanwhile, unless two
\* verifications of it overlap (verifyOtp reads first and counts or deletes later).
CodeIsSpent ==
    \A k \in Codes \ raced : tokens[k] <= 1 /\ misses[k] <= MaxOtpAttempts

=============================================================================
