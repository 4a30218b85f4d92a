--------------------------- MODULE AccountProofs ---------------------------
(***************************************************************************)
(* What deleting the account does to its data and to its user, for any     *)
(* number of callers, deletions, failures, attempts and codes: a live      *)
(* account keeps its data, of one that is gone nothing is left but what    *)
(* was written meanwhile, and an account stays disabled without a deletion *)
(* under way only if more requests failed than there are attempts to take  *)
(* a deletion back, or a disabling was carried out and answered with a     *)
(* failure.  A reset code gives one token at most and is tried no more     *)
(* than the limit allows, unless two verifications of it overlapped.       *)
(***************************************************************************)
EXTENDS Account, TLAPS

-----------------------------------------------------------------------------
(* Types.                                                                  *)

\* The operation of a call says which record it is.
LEMMA CallByOp ==
    ASSUME NEW call \in Calls
    PROVE  /\ call.op = "delete" => call \in DeleteCalls
           /\ call.op = "use" => call \in UseCalls
           /\ call.op = "sendOtp" => call \in SendCalls
           /\ call.op = "verifyOtp" => call \in VerifyCalls
  BY DEF Calls, DeleteCalls, UseCalls, SendCalls, VerifyCalls, Idle

\* A step of one caller leaves the others alone.
LEMMA OneCaller ==
    ASSUME calls \in [Callers -> Calls], NEW c \in Callers, NEW call \in Calls, Becomes(c, call)
    PROVE  /\ calls' \in [Callers -> Calls] /\ calls'[c] = call
           /\ \A d \in Callers \ {c} : calls'[d] = calls[d]
  BY DEF Becomes

LEMMA IdleIsCall == Idle \in Calls
  BY DEF Calls

LEMMA DeletionMoves ==
    ASSUME NEW call \in DeleteCalls
    PROVE  /\ \A at \in {"disable", "cleanup", "reEnable", "deleteUser"} :
                 [call EXCEPT !.at = at] \in Calls
           /\ [call EXCEPT !.at = "cleanup", !.bestEffort = TRUE] \in Calls
           /\ [call EXCEPT !.shared = TRUE] \in Calls
           /\ [call EXCEPT !.tries = @ + 1] \in Calls
           /\ \A failed \in BOOLEAN :
                 /\ call.step < 4 => [call EXCEPT !.step = @ + 1, !.failed = failed] \in Calls
                 /\ \A at \in {"reEnable", "deleteUser"} :
                       [call EXCEPT !.failed = failed, !.at = at] \in Calls
<1>1. \A at \in {"disable", "cleanup", "reEnable", "deleteUser"} : [call EXCEPT !.at = at] \in DeleteCalls
    BY DEF DeleteCalls
<1>2. [call EXCEPT !.at = "cleanup", !.bestEffort = TRUE] \in DeleteCalls
    BY DEF DeleteCalls
<1>3. [call EXCEPT !.shared = TRUE] \in DeleteCalls
    BY DEF DeleteCalls
<1>7. call.tries \in Nat /\ call.step \in 1..4
    BY DEF DeleteCalls
<1>8. \A n \in Nat : [call EXCEPT !.tries = n] \in DeleteCalls
    BY DEF DeleteCalls
<1>9. ASSUME NEW failed \in BOOLEAN, NEW n \in 1..4
      PROVE  [call EXCEPT !.step = n, !.failed = failed] \in DeleteCalls
    BY DEF DeleteCalls
<1>4. call.tries + 1 \in Nat /\ (call.step < 4 => call.step + 1 \in 1..4)
    BY <1>7
<1>5. ASSUME NEW failed \in BOOLEAN, NEW at \in {"reEnable", "deleteUser"}
      PROVE  [call EXCEPT !.failed = failed, !.at = at] \in DeleteCalls
    BY DEF DeleteCalls
<1>6. QED
    BY <1>1, <1>2, <1>3, <1>4, <1>5, <1>8, <1>9 DEF Calls

-----------------------------------------------------------------------------
(* The invariant.                                                          *)

\* Two deletions under way at a time know of each other.
Paired ==
    \A c, d \in Callers : c # d /\ IsDeleting(c) /\ IsDeleting(d) => calls[c].shared

\* A deletion that was alone all the time cleans up behind a closed door.
Locked ==
    \A c \in Callers : At(c, "delete", "cleanup") /\ ~calls[c].shared => authUser # "enabled"

\* What a deletion has cleaned up without a failure is settled, and stays so.
Cleaned ==
    \A c \in Callers :
        /\ At(c, "delete", "cleanup") /\ ~calls[c].failed =>
              \A i \in 1..4 : i < calls[c].step => IsSettled(CleanupSteps[i])
        /\ At(c, "delete", "deleteUser") => \A part \in Parts : IsSettled(part)

\* Before the account is disabled no step of the cleanup is done.
Fresh ==
    \A c \in Callers : At(c, "delete", "revoke") \/ At(c, "delete", "disable") => calls[c].step = 1

Inv == TypeOK /\ Paired /\ Fresh /\ Locked /\ Cleaned /\ GoneLeavesNothing

LEMMA InvInit == Init => Inv
<1> SUFFICES ASSUME Init PROVE Inv
    OBVIOUS
<1>1. TypeOK
    BY IdleIsCall, AccountAssumption DEF Init, TypeOK
<1>2. \A c \in Callers : ~IsDeleting(c)
    BY DEF Init, IsDeleting, Idle
<1>3. QED
    BY <1>1, <1>2 DEF Inv, Paired, Fresh, Locked, Cleaned, GoneLeavesNothing, IsDeleting, At, Init

\* While the account is being deleted nothing that was settled is unsettled.
StaysSettled ==
    IsBeingDeleted => \A part \in Parts : IsSettled(part) => IsSettled(part)'

\* What a step leaves alone that belongs to no deletion.
LeavesDeletions ==
    /\ UNCHANGED authUser
    /\ \A d \in Callers : IsDeleting(d) \/ IsDeleting(d)' => calls'[d] = calls[d]

LEMMA OtherStep ==
    ASSUME Inv, TypeOK', LeavesDeletions, StaysSettled
    PROVE  Inv'
<1> USE DEF Inv, LeavesDeletions
<1>1. \A d \in Callers : IsDeleting(d)' => IsDeleting(d) /\ calls'[d] = calls[d]
    BY DEF IsDeleting
<1>2. Paired'
    BY <1>1 DEF Paired, IsDeleting
<1>3. Locked' /\ Fresh'
    BY <1>1 DEF Locked, Fresh, At, IsDeleting
<1>4. \A i \in 1..4 : CleanupSteps[i] \in Parts
    BY DEF CleanupSteps, Parts, Data
<1>5. Cleaned'
  <2> SUFFICES ASSUME NEW c \in Callers, IsDeleting(c)'
               PROVE  /\ At(c, "delete", "cleanup")' /\ ~calls'[c].failed =>
                            \A i \in 1..4 : i < calls'[c].step => IsSettled(CleanupSteps[i])'
                      /\ At(c, "delete", "deleteUser")' => \A part \in Parts : IsSettled(part)'
      BY DEF Cleaned, At, IsDeleting, Parts, CleanupSteps
  <2>1. IsBeingDeleted /\ calls'[c] = calls[c]
      BY <1>1 DEF IsBeingDeleted
  <2>2. QED
      BY <2>1, <1>4 DEF StaysSettled, Cleaned, At
<1>6. GoneLeavesNothing'
    BY DEF GoneLeavesNothing, StaysSettled, IsBeingDeleted, Parts
<1>7. QED
    BY <1>2, <1>3, <1>5, <1>6

-----------------------------------------------------------------------------
(* Steps that belong to no deletion.                                       *)

OtherStepHolds == TypeOK' /\ LeavesDeletions /\ StaysSettled

LEMMA OtherCaller ==
    ASSUME TypeOK, NEW c \in Callers, ~IsDeleting(c), NEW call \in Calls, call.op # "delete",
           Becomes(c, call)
    PROVE  /\ calls' \in [Callers -> Calls]
           /\ \A d \in Callers : IsDeleting(d) \/ IsDeleting(d)' => calls'[d] = calls[d]
  BY OneCaller DEF TypeOK, IsDeleting

\* A call that is not about the reset code moves on or ends.
LEMMA OtherMoves ==
    ASSUME TypeOK, NEW c \in Callers
    PROVE  /\ \A at \in {"setReset", "email", "dropReset"} :
                 calls[c].op = "sendOtp" =>
                    [calls[c] EXCEPT !.at = at] \in Calls /\ [calls[c] EXCEPT !.at = at].op = "sendOtp"
           /\ \A at \in {"readReset", "makeToken", "delete", "increment"} :
                 calls[c].op = "verifyOtp" =>
                    [calls[c] EXCEPT !.at = at] \in Calls /\ [calls[c] EXCEPT !.at = at].op = "verifyOtp"
<1>1. calls[c] \in Calls
    BY DEF TypeOK
<1>2. ASSUME NEW at \in {"setReset", "email", "dropReset"}, calls[c].op = "sendOtp"
      PROVE  [calls[c] EXCEPT !.at = at] \in SendCalls
  <2>1. calls[c] \in SendCalls
      BY <1>1, <1>2, CallByOp
  <2>2. QED
      BY <2>1 DEF SendCalls
<1>3. ASSUME NEW at \in {"readReset", "makeToken", "delete", "increment"}, calls[c].op = "verifyOtp"
      PROVE  [calls[c] EXCEPT !.at = at] \in VerifyCalls
  <2>1. calls[c] \in VerifyCalls
      BY <1>1, <1>3, CallByOp
  <2>2. QED
      BY <2>1 DEF VerifyCalls
<1>4. QED
    BY <1>2, <1>3 DEF Calls, SendCalls, VerifyCalls

LEMMA EndsOther ==
    ASSUME TypeOK, NEW c \in Callers, ~IsDeleting(c), Ends(c)
    PROVE  /\ calls' \in [Callers -> Calls]
           /\ \A d \in Callers : IsDeleting(d) \/ IsDeleting(d)' => calls'[d] = calls[d]
  BY OtherCaller, IdleIsCall DEF Ends, Idle

LEMMA KeepsSettled ==
    ASSUME UNCHANGED <<stored, late>>, passwordResets = None => passwordResets' = None
    PROVE  StaysSettled
  BY DEF StaysSettled, IsSettled, IsStored

LEMMA BeginUseStep ==
    ASSUME TypeOK, NEW c \in Callers, BeginUse(c) PROVE OtherStepHolds
<1>1. PICK part \in Data : Becomes(c, [op |-> "use", at |-> "write", part |-> part])
    BY DEF BeginUse
<1>2. [op |-> "use", at |-> "write", part |-> part] \in Calls
    BY DEF Calls, UseCalls
<1>3. ~IsDeleting(c)
    BY DEF BeginUse, IsDeleting, Idle
<1>4. QED
    BY <1>1, <1>2, <1>3, OtherCaller, KeepsSettled DEF OtherStepHolds, LeavesDeletions, TypeOK, BeginUse

LEMMA WriteDataStep ==
    ASSUME TypeOK, NEW c \in Callers, WriteData(c) PROVE OtherStepHolds
<1>1. ~IsDeleting(c)
    BY DEF WriteData, IsDeleting, At
<1>2. calls[c].part \in Data
  <2>1. calls[c] \in Calls /\ calls[c].op = "use"
      BY DEF TypeOK, WriteData, At
  <2>2. calls[c] \in UseCalls
      BY <2>1, CallByOp
  <2>3. QED
      BY <2>2 DEF UseCalls
<1>3. stored' \subseteq Data
    BY <1>2 DEF WriteData, TypeOK
<1>4. StaysSettled
    BY DEF WriteData, Wrote, StaysSettled, IsSettled, IsStored
<1>5. QED
    BY <1>1, <1>3, <1>4, EndsOther DEF OtherStepHolds, LeavesDeletions, TypeOK, WriteData

LEMMA FindUserStep ==
    ASSUME TypeOK, NEW c \in Callers,
           FindUser(c, "sendOtp", "setReset") \/ FindUser(c, "verifyOtp", "readReset")
    PROVE  OtherStepHolds
<1>1. ~IsDeleting(c)
    BY DEF FindUser, IsDeleting, At
<1>2. /\ calls' \in [Callers -> Calls]
      /\ \A d \in Callers : IsDeleting(d) \/ IsDeleting(d)' => calls'[d] = calls[d]
  <2>1. CASE Ends(c)
      BY <1>1, <2>1, EndsOther
  <2>2. CASE calls[c].op = "sendOtp" /\ Goes(c, "setReset")
      BY <1>1, <2>2, OtherMoves, OtherCaller DEF Goes
  <2>3. CASE calls[c].op = "verifyOtp" /\ Goes(c, "readReset")
      BY <1>1, <2>3, OtherMoves, OtherCaller DEF Goes
  <2>4. QED
      BY <2>1, <2>2, <2>3 DEF FindUser, At
<1>3. UNCHANGED <<authUser, stored, passwordResets, late, codes>>
    BY DEF FindUser, deletionVars, otpVars
<1>4. QED
    BY <1>2, <1>3, KeepsSettled DEF OtherStepHolds, LeavesDeletions, TypeOK

LEMMA BeginSendOtpStep ==
    ASSUME TypeOK, NEW c \in Callers, BeginSendOtp(c) PROVE OtherStepHolds
<1> DEFINE call == [op |-> "sendOtp", at |-> "findUser", code |-> codes']
<1>1. codes' \in Codes /\ codes' \in 0..MaxCodes
    BY AccountAssumption DEF BeginSendOtp, TypeOK, Codes
<1>2. call \in Calls /\ call.op # "delete"
    BY <1>1 DEF Calls, SendCalls
<1>3. ~IsDeleting(c) /\ Becomes(c, call)
    BY DEF BeginSendOtp, IsDeleting, Idle
<1>4. UNCHANGED <<authUser, stored, passwordResets, late>>
    BY DEF BeginSendOtp, deletionVars
<1> HIDE DEF call
<1>5. QED
    BY <1>1, <1>2, <1>3, <1>4, OtherCaller, KeepsSettled DEF OtherStepHolds, LeavesDeletions, TypeOK

LEMMA SetResetStep ==
    ASSUME TypeOK, NEW c \in Callers, SetReset(c) PROVE OtherStepHolds
<1>1. ~IsDeleting(c) /\ calls[c].op = "sendOtp"
    BY DEF SetReset, IsDeleting, At
<1>2. /\ calls' \in [Callers -> Calls]
      /\ \A d \in Callers : IsDeleting(d) \/ IsDeleting(d)' => calls'[d] = calls[d]
  <2>1. CASE Ends(c)
      BY <1>1, <2>1, EndsOther
  <2>2. CASE Goes(c, "email")
      BY <1>1, <2>2, OtherMoves, OtherCaller DEF Goes
  <2>3. QED
      BY <2>1, <2>2 DEF SetReset
<1>3. calls[c].code \in Codes
  <2>1. calls[c] \in Calls
      BY DEF TypeOK
  <2>2. calls[c] \in SendCalls
      BY <1>1, <2>1, CallByOp
  <2>3. QED
      BY <2>2 DEF SendCalls
<1>4. [code |-> calls[c].code, attempts |-> 0, expired |-> FALSE] \in Resets
    BY <1>3 DEF Resets
<1>5. passwordResets' \in Resets \cup {None}
    BY <1>4 DEF SetReset, TypeOK
<1>6. StaysSettled
    BY DEF SetReset, deletionVars, Wrote, StaysSettled, IsSettled, IsStored
<1>7. UNCHANGED <<authUser, stored, codes>>
    BY DEF SetReset, deletionVars, otpVars
<1>8. QED
    BY <1>2, <1>5, <1>6, <1>7 DEF OtherStepHolds, LeavesDeletions, TypeOK

LEMMA EmailOtpStep ==
    ASSUME TypeOK, NEW c \in Callers, EmailOtp(c) PROVE OtherStepHolds
<1>1. ~IsDeleting(c) /\ calls[c].op = "sendOtp"
    BY DEF EmailOtp, IsDeleting, At
<1>2. /\ calls' \in [Callers -> Calls]
      /\ \A d \in Callers : IsDeleting(d) \/ IsDeleting(d)' => calls'[d] = calls[d]
  <2>1. CASE Ends(c)
      BY <1>1, <2>1, EndsOther
  <2>2. CASE Goes(c, "dropReset")
      BY <1>1, <2>2, OtherMoves, OtherCaller DEF Goes
  <2>3. QED
      BY <2>1, <2>2 DEF EmailOtp
<1>3. UNCHANGED <<authUser, stored, passwordResets, late, codes>>
    BY DEF EmailOtp, deletionVars, otpVars
<1>4. QED
    BY <1>2, <1>3, KeepsSettled DEF OtherStepHolds, LeavesDeletions, TypeOK

LEMMA DropResetStep ==
    ASSUME TypeOK, NEW c \in Callers, DropReset(c) PROVE OtherStepHolds
<1>1. ~IsDeleting(c) /\ Ends(c)
    BY DEF DropReset, IsDeleting, At
<1>2. passwordResets' \in {None, passwordResets}
    BY DEF DropReset
<1>3. UNCHANGED <<authUser, stored, late, codes>>
    BY DEF DropReset, deletionVars, otpVars
<1>4. QED
    BY <1>1, <1>2, <1>3, EndsOther, KeepsSettled DEF OtherStepHolds, LeavesDeletions, TypeOK

LEMMA BeginVerifyOtpStep ==
    ASSUME TypeOK, NEW c \in Callers, BeginVerifyOtp(c) PROVE OtherStepHolds
<1>1. PICK guess \in 0..codes :
          Becomes(c, [op |-> "verifyOtp", at |-> "findUser", guess |-> guess, read |-> None])
    BY DEF BeginVerifyOtp
<1> DEFINE call == [op |-> "verifyOtp", at |-> "findUser", guess |-> guess, read |-> None]
<1>2. guess \in 0..MaxCodes
    BY AccountAssumption DEF TypeOK
<1>3. call \in Calls /\ call.op # "delete"
    BY <1>2 DEF Calls, VerifyCalls
<1>4. ~IsDeleting(c)
    BY DEF BeginVerifyOtp, IsDeleting, Idle
<1>5. UNCHANGED <<authUser, stored, passwordResets, late, codes>>
    BY DEF BeginVerifyOtp, deletionVars, otpVars
<1> HIDE DEF call
<1>6. QED
    BY <1>1, <1>3, <1>4, <1>5, OtherCaller, KeepsSettled DEF OtherStepHolds, LeavesDeletions, TypeOK, call

LEMMA ReadResetStep ==
    ASSUME TypeOK, NEW c \in Callers, ReadReset(c) PROVE OtherStepHolds
<1>1. ~IsDeleting(c) /\ calls[c].op = "verifyOtp"
    BY DEF ReadReset, IsDeleting, At
<1>2. calls[c] \in VerifyCalls
  <2>1. calls[c] \in Calls
      BY DEF TypeOK
  <2>2. QED
      BY <1>1, <2>1, CallByOp
<1>3. /\ calls' \in [Callers -> Calls]
      /\ \A d \in Callers : IsDeleting(d) \/ IsDeleting(d)' => calls'[d] = calls[d]
  <2>1. CASE Ends(c)
      BY <1>1, <2>1, EndsOther
  <2>2. ASSUME NEW at \in {"makeToken", "increment", "delete"},
               Becomes(c, [calls[c] EXCEPT !.read = passwordResets, !.at = at])
        PROVE  /\ calls' \in [Callers -> Calls]
               /\ \A d \in Callers : IsDeleting(d) \/ IsDeleting(d)' => calls'[d] = calls[d]
    <3> DEFINE call == [calls[c] EXCEPT !.read = passwordResets, !.at = at]
    <3>1. passwordResets \in Resets \cup {None}
        BY DEF TypeOK
    <3>2. call \in VerifyCalls
        BY <1>2, <3>1 DEF VerifyCalls
    <3>3. call \in Calls /\ call.op # "delete"
        BY <3>2 DEF Calls, VerifyCalls
    <3> HIDE DEF call
    <3>4. QED
        BY <1>1, <2>2, <3>3, OtherCaller DEF call
  <2>3. Ends(c) \/ \E at \in {"makeToken", "increment", "delete"} :
                      Becomes(c, [calls[c] EXCEPT !.read = passwordResets, !.at = at])
      BY DEF ReadReset
  <2>4. QED
      BY <2>1, <2>2, <2>3
<1>4. UNCHANGED <<authUser, stored, passwordResets, late, codes>>
    BY DEF ReadReset, deletionVars
<1>5. QED
    BY <1>3, <1>4, KeepsSettled DEF OtherStepHolds, LeavesDeletions, TypeOK

LEMMA MakeTokenStep ==
    ASSUME TypeOK, NEW c \in Callers, MakeToken(c) PROVE OtherStepHolds
<1>1. ~IsDeleting(c) /\ calls[c].op = "verifyOtp"
    BY DEF MakeToken, IsDeleting, At
<1>2. /\ calls' \in [Callers -> Calls]
      /\ \A d \in Callers : IsDeleting(d) \/ IsDeleting(d)' => calls'[d] = calls[d]
  <2>1. CASE Ends(c)
      BY <1>1, <2>1, EndsOther
  <2>2. CASE Goes(c, "delete")
      BY <1>1, <2>2, OtherMoves, OtherCaller DEF Goes
  <2>3. QED
      BY <2>1, <2>2 DEF MakeToken
<1>3. UNCHANGED <<authUser, stored, passwordResets, late, codes>>
    BY DEF MakeToken, deletionVars, otpVars
<1>4. QED
    BY <1>2, <1>3, KeepsSettled DEF OtherStepHolds, LeavesDeletions, TypeOK

LEMMA DeleteResetStep ==
    ASSUME TypeOK, NEW c \in Callers, DeleteReset(c) PROVE OtherStepHolds
<1>1. ~IsDeleting(c) /\ Ends(c)
    BY DEF DeleteReset, IsDeleting, At
<1>2. passwordResets' \in {None, passwordResets}
    BY DEF DeleteReset
<1>3. UNCHANGED <<authUser, stored, late, codes>>
    BY DEF DeleteReset, deletionVars
<1>4. QED
    BY <1>1, <1>2, <1>3, EndsOther, KeepsSettled DEF OtherStepHolds, LeavesDeletions, TypeOK

LEMMA OneMoreAttempt ==
    ASSUME NEW reset \in Resets PROVE [reset EXCEPT !.attempts = @ + 1] \in Resets
<1>1. reset.attempts + 1 \in Nat
    BY DEF Resets
<1>2. \A n \in Nat : [reset EXCEPT !.attempts = n] \in Resets
    BY DEF Resets
<1>3. QED
    BY <1>1, <1>2

LEMMA IncrementAttemptsStep ==
    ASSUME TypeOK, NEW c \in Callers, IncrementAttempts(c) PROVE OtherStepHolds
<1>1. ~IsDeleting(c) /\ Ends(c)
    BY DEF IncrementAttempts, IsDeleting, At
<1>2. \/ UNCHANGED passwordResets
      \/ passwordResets # None /\ passwordResets' = [passwordResets EXCEPT !.attempts = @ + 1]
    BY DEF IncrementAttempts
<1>3. passwordResets' \in Resets \cup {None} /\ (passwordResets = None => passwordResets' = None)
    BY <1>2, OneMoreAttempt DEF TypeOK
<1>4. UNCHANGED <<authUser, stored, late, codes>>
    BY DEF IncrementAttempts, deletionVars
<1>5. QED
    BY <1>1, <1>3, <1>4, EndsOther, KeepsSettled DEF OtherStepHolds, LeavesDeletions, TypeOK

LEMMA OtpExpiresStep ==
    ASSUME TypeOK, OtpExpires PROVE OtherStepHolds
<1>1. passwordResets \in Resets /\ passwordResets' = [passwordResets EXCEPT !.expired = TRUE]
    BY DEF OtpExpires, TypeOK
<1>2. passwordResets' \in Resets
    BY <1>1 DEF Resets
<1>3. passwordResets # None /\ UNCHANGED <<authUser, stored, calls, late, codes>>
    BY DEF OtpExpires, deletionVars, otpVars
<1>4. QED
    BY <1>2, <1>3, KeepsSettled DEF OtherStepHolds, LeavesDeletions, TypeOK

-----------------------------------------------------------------------------
(* Steps of a deletion.                                                    *)

LEMMA DeletingIs ==
    ASSUME TypeOK, NEW c \in Callers, IsDeleting(c)
    PROVE  calls[c] \in DeleteCalls
  BY CallByOp DEF TypeOK, IsDeleting

\* A step of a deletion that removes nothing and does not go on to delete the user.
LEMMA DeletionStep ==
    ASSUME Inv, NEW c \in Callers, IsDeleting(c), NEW call \in Calls, Becomes(c, call),
           call.op = "delete" => call.shared = calls[c].shared,
           authUser' \in {"enabled", "disabled", "gone"},
           UNCHANGED <<stored, passwordResets, late, codes>>,
           call.op = "delete" /\ call.at \in {"revoke", "disable"} => call.step = 1,
           call.op = "delete" /\ call.at = "cleanup" =>
               authUser' # "enabled" /\ (call.step = 1 \/ call.failed \/ authUser = "gone"),
           call.op = "delete" => call.at # "deleteUser",
           authUser' = "gone" => authUser = "gone" \/ At(c, "delete", "deleteUser")
    PROVE  Inv'
<1> USE DEF Inv
<1>1. /\ calls' \in [Callers -> Calls] /\ calls'[c] = call
      /\ \A d \in Callers \ {c} : calls'[d] = calls[d]
    BY OneCaller DEF TypeOK
<1>2. TypeOK'
    BY <1>1 DEF TypeOK
<1>3. \A part : IsSettled(part)' <=> IsSettled(part)
    BY DEF IsSettled, IsStored
<1>4. Paired' /\ Fresh'
    BY <1>1 DEF Paired, Fresh, IsDeleting, At
<1>5. Locked'
  <2> SUFFICES ASSUME NEW d \in Callers, At(d, "delete", "cleanup")', ~calls'[d].shared
               PROVE  authUser' # "enabled"
      BY DEF Locked
  <2>1. CASE d = c
      BY <1>1, <2>1 DEF At
  <2>2. CASE d # c
    <3>1. At(d, "delete", "cleanup") /\ ~calls[d].shared
        BY <1>1, <2>2 DEF At
    <3>2. FALSE
        BY <3>1, <2>2 DEF Paired, IsDeleting, At
    <3>3. QED
        BY <3>2
  <2>3. QED
      BY <2>1, <2>2
<1>6. \A i \in 1..4 : CleanupSteps[i] \in Parts
    BY DEF CleanupSteps, Parts, Data
<1>7. Cleaned'
  <2> SUFFICES ASSUME NEW d \in Callers
               PROVE  /\ At(d, "delete", "cleanup")' /\ ~calls'[d].failed =>
                            \A i \in 1..4 : i < calls'[d].step => IsSettled(CleanupSteps[i])'
                      /\ At(d, "delete", "deleteUser")' => \A part \in Parts : IsSettled(part)'
      BY DEF Cleaned, Parts, CleanupSteps
  <2>1. CASE d = c
      BY <1>1, <1>3, <1>6, <2>1 DEF At, GoneLeavesNothing
  <2>2. CASE d # c
      BY <1>1, <1>3, <2>2 DEF Cleaned, At
  <2>3. QED
      BY <2>1, <2>2
<1>8. GoneLeavesNothing'
    BY <1>3 DEF GoneLeavesNothing, Cleaned, Parts, Data
<1>9. QED
    BY <1>2, <1>4, <1>5, <1>7, <1>8

LEMMA EndsDeletion ==
    ASSUME Inv, NEW c \in Callers, IsDeleting(c), Ends(c),
           authUser' \in {"enabled", "disabled", "gone"},
           UNCHANGED <<stored, passwordResets, late, codes>>,
           authUser' = "gone" => authUser = "gone" \/ At(c, "delete", "deleteUser")
    PROVE  Inv'
  BY DeletionStep, IdleIsCall DEF Ends, Idle

LEMMA FindsAccountGoneStep ==
    ASSUME Inv, NEW c \in Callers, IsDeleting(c), FindsAccountGone(c),
           UNCHANGED <<stored, passwordResets, late, codes>>
    PROVE  Inv'
<1> DEFINE call == [calls[c] EXCEPT !.at = "cleanup", !.bestEffort = TRUE]
<1>1. calls[c] \in DeleteCalls
    BY DeletingIs DEF Inv
<1>2. call \in Calls /\ Becomes(c, call)
    BY <1>1, DeletionMoves DEF FindsAccountGone
<1>3. call.shared = calls[c].shared /\ call.at = "cleanup"
    BY <1>1 DEF DeleteCalls
<1>4. authUser = "gone" /\ authUser' = "gone"
    BY DEF FindsAccountGone
<1> HIDE DEF call
<1>5. QED
    BY <1>2, <1>3, <1>4, DeletionStep

LEMMA RevokeRefreshTokensStep ==
    ASSUME Inv, NEW c \in Callers, RevokeRefreshTokens(c) PROVE Inv'
<1>1. IsDeleting(c) /\ UNCHANGED <<stored, passwordResets, late, codes>>
    BY DEF RevokeRefreshTokens, IsDeleting, At, otpVars
<1>2. CASE FindsAccountGone(c)
    BY <1>1, <1>2, FindsAccountGoneStep
<1>3. CASE Goes(c, "disable") /\ UNCHANGED authUser
  <2> DEFINE call == [calls[c] EXCEPT !.at = "disable"]
  <2>1. calls[c] \in DeleteCalls
      BY <1>1, DeletingIs DEF Inv
  <2>2. call \in Calls /\ Becomes(c, call)
      BY <1>3, <2>1, DeletionMoves DEF Goes
  <2>3. call.shared = calls[c].shared /\ call.at = "disable" /\ call.step = calls[c].step
      BY <2>1 DEF DeleteCalls
  <2>4. calls[c].step = 1
      BY DEF Inv, Fresh, RevokeRefreshTokens
  <2> HIDE DEF call
  <2>5. QED
      BY <1>1, <1>3, <2>2, <2>3, <2>4, DeletionStep DEF Inv, TypeOK
<1>4. CASE Ends(c) /\ UNCHANGED authUser
    BY <1>1, <1>4, EndsDeletion DEF Inv, TypeOK
<1>5. QED
    BY <1>2, <1>3, <1>4 DEF RevokeRefreshTokens

LEMMA DisableUserStep ==
    ASSUME Inv, NEW c \in Callers, DisableUser(c) PROVE Inv'
<1>1. IsDeleting(c) /\ UNCHANGED <<stored, passwordResets, late, codes>>
    BY DEF DisableUser, IsDeleting, At, otpVars
<1>2. CASE FindsAccountGone(c)
    BY <1>1, <1>2, FindsAccountGoneStep
<1>3. CASE Goes(c, "cleanup") /\ authUser' = "disabled"
  <2> DEFINE call == [calls[c] EXCEPT !.at = "cleanup"]
  <2>1. calls[c] \in DeleteCalls
      BY <1>1, DeletingIs DEF Inv
  <2>2. call \in Calls /\ Becomes(c, call)
      BY <1>3, <2>1, DeletionMoves DEF Goes
  <2>3. call.shared = calls[c].shared /\ call.at = "cleanup" /\ call.step = calls[c].step
      BY <2>1 DEF DeleteCalls
  <2>4. calls[c].step = 1
      BY DEF Inv, Fresh, DisableUser
  <2> HIDE DEF call
  <2>5. QED
      BY <1>1, <1>3, <2>2, <2>3, <2>4, DeletionStep
<1>4. CASE Ends(c) /\ authUser' \in {authUser, "disabled"}
    BY <1>1, <1>4, EndsDeletion DEF Inv, TypeOK
<1>5. QED
    BY <1>2, <1>3, <1>4 DEF DisableUser

LEMMA ReEnableUserStep ==
    ASSUME Inv, NEW c \in Callers, ReEnableUser(c) PROVE Inv'
<1>1. IsDeleting(c) /\ calls[c].at = "reEnable" /\ UNCHANGED <<stored, passwordResets, late, codes>>
    BY DEF ReEnableUser, IsDeleting, At, otpVars
<1>2. authUser' \in {authUser, "enabled"}
    BY DEF ReEnableUser
<1>3. CASE Ends(c)
    BY <1>1, <1>2, <1>3, EndsDeletion DEF Inv, TypeOK
<1>4. CASE Becomes(c, [calls[c] EXCEPT !.tries = @ + 1])
  <2> DEFINE call == [calls[c] EXCEPT !.tries = @ + 1]
  <2>1. calls[c] \in DeleteCalls
      BY <1>1, DeletingIs DEF Inv
  <2>2. call \in Calls /\ Becomes(c, call)
      BY <1>4, <2>1, DeletionMoves
  <2>3. call.shared = calls[c].shared /\ call.at = "reEnable"
      BY <1>1, <2>1 DEF DeleteCalls
  <2> HIDE DEF call
  <2>4. QED
      BY <1>1, <1>2, <2>2, <2>3, DeletionStep DEF Inv, TypeOK
<1>5. QED
    BY <1>3, <1>4 DEF ReEnableUser

LEMMA DeleteUserStep ==
    ASSUME Inv, NEW c \in Callers, DeleteUser(c) PROVE Inv'
<1>1. IsDeleting(c) /\ At(c, "delete", "deleteUser") /\ UNCHANGED <<stored, passwordResets, late, codes>>
    BY DEF DeleteUser, IsDeleting, At, otpVars
<1>2. authUser' \in {authUser, "gone"}
    BY DEF DeleteUser
<1>3. CASE Ends(c)
    BY <1>1, <1>2, <1>3, EndsDeletion DEF Inv, TypeOK
<1>4. CASE Goes(c, "reEnable")
  <2> DEFINE call == [calls[c] EXCEPT !.at = "reEnable"]
  <2>1. calls[c] \in DeleteCalls
      BY <1>1, DeletingIs DEF Inv
  <2>2. call \in Calls /\ Becomes(c, call)
      BY <1>4, <2>1, DeletionMoves DEF Goes
  <2>3. call.shared = calls[c].shared /\ call.at = "reEnable"
      BY <2>1 DEF DeleteCalls
  <2> HIDE DEF call
  <2>4. QED
      BY <1>1, <1>2, <2>2, <2>3, DeletionStep DEF Inv, TypeOK
<1>5. QED
    BY <1>3, <1>4 DEF DeleteUser

LEMMA FourSteps ==
    /\ Len(CleanupSteps) = 4
    /\ \A i \in 1..4 : CleanupSteps[i] \in Parts
    /\ \A part \in Parts : \E i \in 1..4 : CleanupSteps[i] = part
<1>1. /\ CleanupSteps[1] = "userDoc" /\ CleanupSteps[2] = "knownReleases"
      /\ CleanupSteps[3] = "passwordResets" /\ CleanupSteps[4] = "pushTokens"
      /\ Len(CleanupSteps) = 4
    BY DEF CleanupSteps
<1>2. \A i \in 1..4 : i = 1 \/ i = 2 \/ i = 3 \/ i = 4
    OBVIOUS
<1>3. QED
    BY <1>1, <1>2 DEF Parts, Data

\* What is removed is settled, and nothing else is unsettled.
LEMMA RemovesSettles ==
    ASSUME NEW part \in Parts, UNCHANGED late, Removes(part)
    PROVE  IsSettled(part)' /\ \A q \in Parts : IsSettled(q) => IsSettled(q)'
  BY DEF Removes, IsSettled, IsStored

\* The next call of a deletion that cleaned up one more part.
LEMMA KeepsOnTo ==
    ASSUME NEW c \in Callers, calls[c] \in DeleteCalls, calls[c].at = "cleanup",
           NEW failed \in BOOLEAN, KeepsOn(c, failed)
    PROVE  \E call \in Calls :
              /\ Becomes(c, call)
              /\ call.op = "delete" =>
                    /\ call.shared = calls[c].shared
                    /\ call.at \in {"cleanup", "reEnable", "deleteUser"}
                    /\ call.at = "cleanup" =>
                          /\ call.step = calls[c].step + 1
                          /\ call.failed = (calls[c].failed \/ failed)
                    /\ call.at = "deleteUser" =>
                          calls[c].step = 4 /\ ~calls[c].failed /\ ~failed
<1> DEFINE wrong == calls[c].failed \/ failed
<1>1. calls[c].step \in 1..4 /\ calls[c].failed \in BOOLEAN /\ calls[c].bestEffort \in BOOLEAN
    BY DEF DeleteCalls
<1>2. wrong \in BOOLEAN
    OBVIOUS
<1>3. CASE calls[c].step < 4
  <2> DEFINE call == [calls[c] EXCEPT !.step = @ + 1, !.failed = wrong]
  <2>1. Becomes(c, call)
      BY <1>3, FourSteps DEF KeepsOn
  <2>2. call \in Calls
      BY <1>2, <1>3, DeletionMoves
  <2>3. call.shared = calls[c].shared /\ call.at = "cleanup" /\ call.step = calls[c].step + 1
      BY DEF DeleteCalls
  <2>4. call.failed = wrong
      BY DEF DeleteCalls
  <2> HIDE DEF call
  <2>5. QED
      BY <2>1, <2>2, <2>3, <2>4
<1>4. CASE ~(calls[c].step < 4) /\ calls[c].bestEffort
  <2>1. Becomes(c, Idle)
      BY <1>4, FourSteps DEF KeepsOn, Ends
  <2>2. QED
      BY <2>1, IdleIsCall DEF Idle
<1>5. CASE ~(calls[c].step < 4) /\ ~calls[c].bestEffort
  <2> DEFINE at == IF wrong THEN "reEnable" ELSE "deleteUser"
             call == [calls[c] EXCEPT !.failed = wrong, !.at = at]
  <2>1. Becomes(c, call)
      BY <1>5, FourSteps DEF KeepsOn
  <2>2. call \in Calls
      BY <1>2, DeletionMoves
  <2>3. call.shared = calls[c].shared /\ call.at = at
      BY DEF DeleteCalls
  <2>4. calls[c].step = 4
      BY <1>1, <1>5
  <2> HIDE DEF call
  <2>5. QED
      BY <2>1, <2>2, <2>3, <2>4
<1>6. QED
    BY <1>3, <1>4, <1>5

LEMMA CleanupStepStep ==
    ASSUME Inv, NEW c \in Callers, CleanupStep(c) PROVE Inv'
<1> USE DEF Inv
<1>1. At(c, "delete", "cleanup") /\ IsDeleting(c) /\ UNCHANGED <<authUser, late, codes>>
    BY DEF CleanupStep, IsDeleting, At, otpVars
<1>2. calls[c] \in DeleteCalls
    BY <1>1, DeletingIs
<1>3. PICK failed \in BOOLEAN :
          /\ KeepsOn(c, failed)
          /\ \/ Removes(CleanupSteps[calls[c].step])
             \/ failed /\ UNCHANGED <<stored, passwordResets>>
    BY DEF CleanupStep
<1>4. PICK call \in Calls :
          /\ Becomes(c, call)
          /\ call.op = "delete" =>
                /\ call.shared = calls[c].shared
                /\ call.at \in {"cleanup", "reEnable", "deleteUser"}
                /\ call.at = "cleanup" =>
                      /\ call.step = calls[c].step + 1
                      /\ call.failed = (calls[c].failed \/ failed)
                /\ call.at = "deleteUser" => calls[c].step = 4 /\ ~calls[c].failed /\ ~failed
    BY <1>1, <1>2, <1>3, KeepsOnTo DEF At
<1>5. /\ calls' \in [Callers -> Calls] /\ calls'[c] = call
      /\ \A d \in Callers \ {c} : calls'[d] = calls[d]
    BY <1>4, OneCaller DEF TypeOK
<1>6. calls[c].step \in 1..4
    BY <1>2 DEF DeleteCalls
<1>7. PICK cleaned \in Parts : cleaned = CleanupSteps[calls[c].step]
    BY <1>6, FourSteps
<1>8. /\ \A part \in Parts : IsSettled(part) => IsSettled(part)'
      /\ ~failed => IsSettled(cleaned)'
  <2>1. CASE Removes(cleaned)
      BY <1>1, <2>1, RemovesSettles
  <2>2. CASE failed /\ UNCHANGED <<stored, passwordResets>>
      BY <1>1, <2>2 DEF IsSettled, IsStored
  <2>3. QED
      BY <1>3, <1>7, <2>1, <2>2
<1>9. TypeOK'
  <2>1. stored' \subseteq Data /\ passwordResets' \in Resets \cup {None}
      BY <1>3 DEF Removes, TypeOK
  <2>2. QED
      BY <1>1, <1>5, <2>1 DEF TypeOK
<1>10. Paired' /\ Fresh'
    BY <1>1, <1>4, <1>5 DEF Paired, Fresh, IsDeleting, At
<1>11. Locked'
    BY <1>1, <1>4, <1>5 DEF Locked, At
<1>12. Cleaned'
  <2> SUFFICES ASSUME NEW d \in Callers
               PROVE  /\ At(d, "delete", "cleanup")' /\ ~calls'[d].failed =>
                            \A i \in 1..4 : i < calls'[d].step => IsSettled(CleanupSteps[i])'
                      /\ At(d, "delete", "deleteUser")' => \A part \in Parts : IsSettled(part)'
      BY DEF Cleaned, Parts, CleanupSteps
  <2>1. CASE d # c
      BY <1>5, <1>8, <2>1, FourSteps DEF Cleaned, At
  <2>2. ASSUME d = c, At(c, "delete", "cleanup")', ~calls'[c].failed, NEW i \in 1..4, i < calls'[c].step
        PROVE  IsSettled(CleanupSteps[i])'
    <3>1. ~calls[c].failed /\ ~failed /\ i < calls[c].step + 1
        BY <1>4, <1>5, <2>2 DEF At
    <3>2. CASE i = calls[c].step
        BY <1>8, <1>7, <3>1, <3>2
    <3>3. CASE i < calls[c].step
        BY <1>1, <1>8, <3>1, <3>3, FourSteps DEF Cleaned
    <3>4. QED
        BY <1>6, <3>1, <3>2, <3>3
  <2>3. ASSUME d = c, At(c, "delete", "deleteUser")', NEW part \in Parts
        PROVE  IsSettled(part)'
    <3>1. calls[c].step = 4 /\ ~calls[c].failed /\ ~failed
        BY <1>4, <1>5, <2>3 DEF At
    <3>2. PICK i \in 1..4 : CleanupSteps[i] = part
        BY FourSteps
    <3>3. CASE i = 4
        BY <1>8, <1>7, <3>1, <3>2, <3>3
    <3>4. CASE i < 4
        BY <1>1, <1>8, <3>1, <3>2, <3>4 DEF Cleaned
    <3>5. QED
        BY <3>3, <3>4
  <2>4. QED
      BY <2>1, <2>2, <2>3
<1>13. GoneLeavesNothing'
    BY <1>1, <1>8 DEF GoneLeavesNothing, Parts, Data
<1>14. QED
    BY <1>9, <1>10, <1>11, <1>12, <1>13

LEMMA BeginDeletionStep ==
    ASSUME Inv, NEW c \in Callers, BeginDeletion(c) PROVE Inv'
<1> USE DEF Inv
<1> DEFINE shared == \E e \in Callers : IsDeleting(e)
           new == [op |-> "delete", at |-> "revoke", step |-> 1, failed |-> FALSE,
                   bestEffort |-> FALSE, tries |-> 0, shared |-> shared]
<1>1. /\ ~IsDeleting(c)
      /\ calls' = [d \in Callers |->
            IF d = c THEN new
            ELSE IF IsDeleting(d) THEN [calls[d] EXCEPT !.shared = TRUE] ELSE calls[d]]
      /\ UNCHANGED <<authUser, stored, passwordResets, late, codes>>
    BY DEF BeginDeletion, IsDeleting, Idle, otpVars
<1>2. new \in Calls
    BY DEF Calls, DeleteCalls
<1>3. \A d \in Callers : IsDeleting(d) =>
          LET call == [calls[d] EXCEPT !.shared = TRUE]
          IN  /\ call \in Calls /\ call.shared = TRUE /\ call.op = calls[d].op
              /\ call.at = calls[d].at /\ call.step = calls[d].step /\ call.failed = calls[d].failed
  <2> SUFFICES ASSUME NEW d \in Callers, IsDeleting(d)
               PROVE  LET call == [calls[d] EXCEPT !.shared = TRUE]
                      IN  /\ call \in Calls /\ call.shared = TRUE /\ call.op = calls[d].op
                          /\ call.at = calls[d].at /\ call.step = calls[d].step
                          /\ call.failed = calls[d].failed
      OBVIOUS
  <2>1. calls[d] \in DeleteCalls
      BY DeletingIs
  <2>2. QED
      BY <2>1, DeletionMoves DEF DeleteCalls
<1>4. /\ calls'[c] = new
      /\ \A d \in Callers \ {c} :
            /\ calls'[d] \in Calls /\ calls'[d].op = calls[d].op
            /\ IsDeleting(d) => /\ calls'[d].shared = TRUE /\ calls'[d].at = calls[d].at
                                /\ calls'[d].step = calls[d].step /\ calls'[d].failed = calls[d].failed
  <2> HIDE DEF new
  <2>1. QED
      BY <1>1, <1>3 DEF TypeOK
<1>5. calls' \in [Callers -> Calls]
  <2> HIDE DEF new
  <2>1. \A d \in Callers : calls'[d] \in Calls
      BY <1>2, <1>4
  <2>2. QED
      BY <1>1, <2>1
<1>6. TypeOK'
    BY <1>1, <1>5 DEF TypeOK
<1>7. new.op = "delete" /\ new.at = "revoke" /\ new.step = 1 /\ new.shared = shared
    OBVIOUS
<1> HIDE DEF new
<1>8. \A part : IsSettled(part)' <=> IsSettled(part)
    BY <1>1 DEF IsSettled, IsStored
<1>9. Paired'
  <2> SUFFICES ASSUME NEW d \in Callers, NEW e \in Callers, d # e, IsDeleting(d)', IsDeleting(e)'
               PROVE  calls'[d].shared
      BY DEF Paired
  <2>1. CASE d = c
    <3>1. IsDeleting(e)
        BY <1>4, <2>1 DEF IsDeleting
    <3>2. QED
        BY <1>4, <1>7, <2>1, <3>1
  <2>2. CASE d # c
    <3>1. IsDeleting(d)
        BY <1>4, <2>2 DEF IsDeleting
    <3>2. QED
        BY <1>4, <2>2, <3>1
  <2>3. QED
      BY <2>1, <2>2
<1>10. Fresh' /\ Locked'
    BY <1>1, <1>4, <1>7 DEF Fresh, Locked, IsDeleting, At
<1>11. Cleaned'
  <2> SUFFICES ASSUME NEW d \in Callers
               PROVE  /\ At(d, "delete", "cleanup")' /\ ~calls'[d].failed =>
                            \A i \in 1..4 : i < calls'[d].step => IsSettled(CleanupSteps[i])'
                      /\ At(d, "delete", "deleteUser")' => \A part \in Parts : IsSettled(part)'
      BY DEF Cleaned, Parts, CleanupSteps
  <2>1. CASE d = c
      BY <1>4, <1>7, <2>1 DEF At
  <2>2. CASE d # c
      BY <1>4, <1>8, <2>2 DEF Cleaned, At, IsDeleting
  <2>3. QED
      BY <2>1, <2>2
<1>12. GoneLeavesNothing'
    BY <1>1, <1>8 DEF GoneLeavesNothing, Parts, Data
<1>13. QED
    BY <1>6, <1>9, <1>10, <1>11, <1>12

-----------------------------------------------------------------------------
(* The theorems.                                                           *)

LEMMA InvStep == Inv /\ [Next]_vars => Inv'
<1> SUFFICES ASSUME Inv, [Next]_vars PROVE Inv'
    OBVIOUS
<1>1. OtherStepHolds => Inv'
    BY OtherStep DEF OtherStepHolds
<1>2. TypeOK
    BY DEF Inv
<1>3. ASSUME NEW c \in Callers,
             \/ BeginDeletion(c) \/ RevokeRefreshTokens(c) \/ DisableUser(c) \/ CleanupStep(c)
             \/ ReEnableUser(c) \/ DeleteUser(c)
      PROVE  Inv'
    BY <1>3, BeginDeletionStep, RevokeRefreshTokensStep, DisableUserStep, CleanupStepStep,
       ReEnableUserStep, DeleteUserStep
<1>4. ASSUME NEW c \in Callers,
             \/ BeginUse(c) \/ WriteData(c)
             \/ BeginSendOtp(c) \/ FindUser(c, "sendOtp", "setReset") \/ SetReset(c)
             \/ EmailOtp(c) \/ DropReset(c)
      PROVE  Inv'
    BY <1>1, <1>2, <1>4, BeginUseStep, WriteDataStep, BeginSendOtpStep, FindUserStep, SetResetStep,
       EmailOtpStep, DropResetStep
<1>5. ASSUME NEW c \in Callers,
             \/ BeginVerifyOtp(c) \/ FindUser(c, "verifyOtp", "readReset") \/ ReadReset(c)
             \/ MakeToken(c) \/ DeleteReset(c) \/ IncrementAttempts(c)
      PROVE  Inv'
    BY <1>1, <1>2, <1>5, BeginVerifyOtpStep, FindUserStep, ReadResetStep, MakeTokenStep,
       DeleteResetStep, IncrementAttemptsStep
<1>6. CASE OtpExpires
    BY <1>1, <1>2, <1>6, OtpExpiresStep
<1>7. CASE UNCHANGED vars
  <2>1. UNCHANGED <<authUser, stored, passwordResets, calls, late, codes>>
      BY <1>7 DEF vars
  <2>2. OtherStepHolds
      BY <1>2, <2>1, KeepsSettled DEF OtherStepHolds, LeavesDeletions, TypeOK
  <2>3. QED
      BY <1>1, <2>2
<1>8. QED
    BY <1>3, <1>4, <1>5, <1>6, <1>7 DEF Next

\* The account, its data and its calls keep their shapes (userStore.ts,
\* passwordResetOtpService.ts).
THEOREM AccountTypeCorrect == Spec => []TypeOK
<1>1. Inv => TypeOK
    BY DEF Inv
<1>2. QED
    BY <1>1, InvInit, InvStep, PTL DEF Spec

\* Of an account that is gone nothing is left but what was written while it was
\* being deleted or later, however many requests fail and deletions overlap
\* (deleteUserAccount, runCleanupSteps).
THEOREM NothingIsLeft == Spec => []GoneLeavesNothing
<1>1. Inv => GoneLeavesNothing
    BY DEF Inv
<1>2. QED
    BY <1>1, InvInit, InvStep, PTL DEF Spec

\* Only the cleanup of a deletion removes data.
LEMMA RemovalIsCleanup ==
    ASSUME TypeOK, [Next]_vars, stored \ stored' # {}
    PROVE  \E c \in Callers : At(c, "delete", "cleanup")
<1>1. ASSUME NEW c \in Callers,
             \/ BeginDeletion(c) \/ RevokeRefreshTokens(c) \/ DisableUser(c) \/ ReEnableUser(c)
             \/ DeleteUser(c)
      PROVE  UNCHANGED stored
    BY <1>1 DEF BeginDeletion, RevokeRefreshTokens, DisableUser, ReEnableUser, DeleteUser
<1>2. ASSUME NEW c \in Callers,
             \/ BeginUse(c) \/ WriteData(c)
             \/ BeginSendOtp(c) \/ FindUser(c, "sendOtp", "setReset") \/ SetReset(c)
             \/ EmailOtp(c) \/ DropReset(c)
      PROVE  stored \subseteq stored'
    BY <1>2 DEF BeginUse, WriteData, BeginSendOtp, FindUser, SetReset, EmailOtp, DropReset, deletionVars
<1>3. ASSUME NEW c \in Callers,
             \/ BeginVerifyOtp(c) \/ FindUser(c, "verifyOtp", "readReset") \/ ReadReset(c)
             \/ MakeToken(c) \/ DeleteReset(c) \/ IncrementAttempts(c)
      PROVE  UNCHANGED stored
    BY <1>3 DEF BeginVerifyOtp, FindUser, ReadReset, MakeToken, DeleteReset, IncrementAttempts, deletionVars
<1>4. OtpExpires \/ UNCHANGED vars => UNCHANGED stored
    BY DEF OtpExpires, deletionVars, vars
<1>5. PICK c \in Callers : CleanupStep(c)
    BY <1>1, <1>2, <1>3, <1>4 DEF Next
<1>6. QED
    BY <1>5 DEF CleanupStep

\* No deletion removes the data of a live account but one that overlapped another
\* (deleteUserAccount).
THEOREM LiveAccountIsSafe == Spec => LiveAccountKeepsItsData
<1>1. Inv /\ [Next]_vars =>
          [stored \ stored' # {} /\ authUser = "enabled" =>
              \E c \in Deletions : At(c, "delete", "cleanup") /\ calls[c].shared]_vars
  <2> SUFFICES ASSUME Inv, [Next]_vars, stored \ stored' # {}, authUser = "enabled"
               PROVE  \E c \in Deletions : At(c, "delete", "cleanup") /\ calls[c].shared
      OBVIOUS
  <2>1. PICK c \in Callers : At(c, "delete", "cleanup")
      BY RemovalIsCleanup DEF Inv
  <2>2. QED
      BY <2>1 DEF Inv, Locked, Deletions, IsDeleting, At
<1>2. QED
    BY <1>1, InvInit, InvStep, PTL DEF Spec, LiveAccountKeepsItsData

-----------------------------------------------------------------------------
(* Whom a failed deletion locks out: the invariant.                        *)

\* What a deletion has behind it: it is at its attempts to enable the account because
\* something failed, and each attempt so far failed too.
IsPaid(call, user, failed) ==
    /\ call.bestEffort => user = "gone"
    /\ call.failed => failed >= 1
    /\ call.at # "reEnable" => call.tries = 0
    /\ call.at = "reEnable" => user = "gone" \/ failed >= 1 + call.tries

HasDisabled(call) == call.op = "delete" /\ call.at \in {"cleanup", "reEnable", "deleteUser"}

\* The account is disabled and not many requests have failed.
IsLocked == authUser = "disabled" /\ ~disableLost /\ failures <= ReEnableAttempts

\* Somebody who disabled the account is yet to delete it or to take that back.
LockoutInv ==
    /\ failures \in Nat
    /\ \A c \in Callers : IsDeleting(c) => IsPaid(calls[c], authUser, failures)
    /\ IsLocked => \E c \in Callers : HasDisabled(calls[c])

LEMMA LockoutInit == Init => LockoutInv
  BY DEF Init, LockoutInv, IsLocked, IsDeleting, Idle

\* What is paid stays paid.
LEMMA PaidStays ==
    ASSUME NEW call \in DeleteCalls, NEW user, NEW user2, NEW n \in Nat, NEW n2 \in Nat,
           IsPaid(call, user, n), n <= n2, user = "gone" => user2 = "gone"
    PROVE  IsPaid(call, user2, n2)
<1>1. call.tries \in Nat
    BY DEF DeleteCalls
<1>2. QED
    BY <1>1 DEF IsPaid

\* A step of one caller, which keeps to what it has to.
LEMMA LockoutStep ==
    ASSUME TypeOK, LockoutInv, NEW c \in Callers, NEW call \in Calls, Becomes(c, call),
           failures' \in {failures, failures + 1},
           authUser = "gone" => authUser' = "gone",
           call.op = "delete" => IsPaid(call, authUser', failures'),
           IsLocked' => HasDisabled(call) \/ (IsLocked /\ ~HasDisabled(calls[c]))
    PROVE  LockoutInv'
<1>1. /\ calls'[c] = call
      /\ \A d \in Callers \ {c} : calls'[d] = calls[d]
    BY OneCaller DEF TypeOK
<1>2. failures \in Nat /\ failures' \in Nat /\ failures <= failures'
    BY DEF LockoutInv
<1>3. ASSUME NEW d \in Callers, IsDeleting(d)'
      PROVE  IsPaid(calls'[d], authUser', failures')
  <2>1. CASE d = c
      BY <1>1, <1>3, <2>1 DEF IsDeleting
  <2>2. CASE d # c
    <3>1. calls'[d] = calls[d] /\ IsDeleting(d)
        BY <1>1, <1>3, <2>2 DEF IsDeleting
    <3>2. calls[d] \in DeleteCalls /\ IsPaid(calls[d], authUser, failures)
        BY <3>1, DeletingIs DEF LockoutInv
    <3>3. QED
        BY <1>2, <3>1, <3>2, PaidStays
  <2>3. QED
      BY <2>1, <2>2
<1>4. ASSUME IsLocked'
      PROVE  \E d \in Callers : HasDisabled(calls'[d])
  <2>1. CASE HasDisabled(call)
      BY <1>1, <2>1
  <2>2. CASE IsLocked /\ ~HasDisabled(calls[c])
    <3>1. PICK d \in Callers : HasDisabled(calls[d])
        BY <2>2 DEF LockoutInv
    <3>2. QED
        BY <1>1, <2>2, <3>1
  <2>3. QED
      BY <1>4, <2>1, <2>2
<1>5. (\A d \in Callers : IsDeleting(d) => IsPaid(calls[d], authUser, failures))'
    BY <1>3
<1>6. QED
    BY <1>2, <1>4, <1>5 DEF LockoutInv

\* A step that belongs to no deletion.
LEMMA LockoutOther ==
    ASSUME TypeOK, LockoutInv, LeavesDeletions, UNCHANGED disableLost,
           failures' \in {failures, failures + 1}
    PROVE  LockoutInv'
<1>1. failures \in Nat /\ failures' \in Nat /\ failures <= failures'
    BY DEF LockoutInv
<1>2. ASSUME NEW d \in Callers, IsDeleting(d)'
      PROVE  IsPaid(calls'[d], authUser', failures')
  <2>1. calls'[d] = calls[d] /\ IsDeleting(d) /\ authUser' = authUser
      BY <1>2 DEF LeavesDeletions, IsDeleting
  <2>2. calls[d] \in DeleteCalls /\ IsPaid(calls[d], authUser, failures)
      BY <2>1, DeletingIs DEF LockoutInv
  <2>3. QED
      BY <1>1, <2>1, <2>2, PaidStays
<1>3. ASSUME IsLocked'
      PROVE  \E d \in Callers : HasDisabled(calls'[d])
  <2>1. IsLocked
      BY <1>1, <1>3, AccountAssumption DEF IsLocked, LeavesDeletions
  <2>2. PICK d \in Callers : HasDisabled(calls[d])
      BY <2>1 DEF LockoutInv
  <2>3. calls'[d] = calls[d]
      BY <2>2 DEF LeavesDeletions, HasDisabled, IsDeleting
  <2>4. QED
      BY <2>2, <2>3
<1>4. (\A d \in Callers : IsDeleting(d) => IsPaid(calls[d], authUser, failures))'
    BY <1>2
<1>5. QED
    BY <1>1, <1>3, <1>4 DEF LockoutInv

-----------------------------------------------------------------------------
(* Steps of a deletion.                                                    *)

LEMMA FailuresGrow ==
    ASSUME Succeeds \/ Fails PROVE failures' \in {failures, failures + 1}
  BY DEF Succeeds, Fails

\* A deletion that ends leaves no lock of its own behind.
LEMMA LockoutEnds ==
    ASSUME TypeOK, LockoutInv, NEW c \in Callers, Ends(c), Succeeds \/ Fails,
           authUser = "gone" => authUser' = "gone",
           IsLocked' => IsLocked /\ ~HasDisabled(calls[c])
    PROVE  LockoutInv'
<1>1. Idle.op # "delete" /\ Becomes(c, Idle)
    BY DEF Idle, Ends
<1>2. QED
    BY <1>1, FailuresGrow, IdleIsCall, LockoutStep

LEMMA LockoutAccountGone ==
    ASSUME TypeOK, LockoutInv, NEW c \in Callers, IsDeleting(c), calls[c].at # "reEnable",
           FindsAccountGone(c)
    PROVE  LockoutInv'
<1> DEFINE call == [calls[c] EXCEPT !.at = "cleanup", !.bestEffort = TRUE]
<1>1. calls[c] \in DeleteCalls /\ IsPaid(calls[c], authUser, failures)
    BY DeletingIs DEF LockoutInv
<1>2. call \in Calls /\ Becomes(c, call)
    BY <1>1, DeletionMoves DEF FindsAccountGone
<1>3. call.at = "cleanup" /\ call.failed = calls[c].failed /\ call.tries = calls[c].tries
    BY <1>1 DEF DeleteCalls
<1>4. authUser' = "gone" /\ failures' = failures
    BY DEF FindsAccountGone, Succeeds
<1> HIDE DEF call
<1>5. IsPaid(call, authUser', failures')
    BY <1>1, <1>3, <1>4 DEF IsPaid
<1>6. QED
    BY <1>2, <1>4, <1>5, LockoutStep DEF IsLocked

\* A deletion goes on at another place, with its failure counted.
LEMMA LockoutGoes ==
    ASSUME TypeOK, LockoutInv, NEW c \in Callers, IsDeleting(c), calls[c].at # "reEnable",
           NEW at \in {"disable", "cleanup", "reEnable", "deleteUser"}, Goes(c, at),
           Succeeds \/ Fails, at = "reEnable" => Fails,
           authUser = "gone" => authUser' = "gone",
           at = "disable" => UNCHANGED <<authUser, disableLost>> /\ calls[c].at = "revoke"
    PROVE  LockoutInv'
<1> DEFINE call == [calls[c] EXCEPT !.at = at]
<1>1. calls[c] \in DeleteCalls /\ IsPaid(calls[c], authUser, failures)
    BY DeletingIs DEF LockoutInv
<1>2. call \in Calls /\ Becomes(c, call)
    BY <1>1, DeletionMoves DEF Goes
<1>3. /\ call.at = at /\ call.failed = calls[c].failed /\ call.tries = calls[c].tries
      /\ call.bestEffort = calls[c].bestEffort /\ call.op = "delete"
    BY <1>1 DEF DeleteCalls
<1> HIDE DEF call
<1>4. failures \in Nat /\ failures' \in {failures, failures + 1}
    BY FailuresGrow DEF LockoutInv
<1>5. at = "reEnable" => failures' = failures + 1
    BY DEF Fails
<1>6. IsPaid(call, authUser', failures')
    BY <1>1, <1>3, <1>4, <1>5 DEF IsPaid
<1>7. IsLocked' => HasDisabled(call) \/ (IsLocked /\ ~HasDisabled(calls[c]))
  <2>1. CASE at = "disable"
      BY <1>4, <2>1, AccountAssumption DEF IsLocked, HasDisabled
  <2>2. CASE at # "disable"
      BY <1>3, <2>2 DEF HasDisabled
  <2>3. QED
      BY <2>1, <2>2
<1>8. QED
    BY <1>2, <1>4, <1>6, <1>7, LockoutStep

LEMMA LockoutRevoke ==
    ASSUME TypeOK, LockoutInv, NEW c \in Callers, RevokeRefreshTokens(c) PROVE LockoutInv'
<1>1. IsDeleting(c) /\ calls[c].at = "revoke" /\ ~HasDisabled(calls[c])
    BY DEF RevokeRefreshTokens, At, IsDeleting, HasDisabled
<1>2. CASE FindsAccountGone(c)
    BY <1>1, <1>2, LockoutAccountGone
<1>3. CASE Succeeds /\ Goes(c, "disable") /\ UNCHANGED <<authUser, disableLost>>
    BY <1>1, <1>3, LockoutGoes
<1>4. CASE Fails /\ Ends(c) /\ UNCHANGED <<authUser, disableLost>>
  <2>1. IsLocked' => IsLocked
      BY <1>4, AccountAssumption DEF IsLocked, Fails, LockoutInv
  <2>2. QED
      BY <1>1, <1>4, <2>1, LockoutEnds
<1>5. QED
    BY <1>2, <1>3, <1>4 DEF RevokeRefreshTokens

LEMMA LockoutDisable ==
    ASSUME TypeOK, LockoutInv, NEW c \in Callers, DisableUser(c) PROVE LockoutInv'
<1>1. IsDeleting(c) /\ calls[c].at = "disable" /\ ~HasDisabled(calls[c])
    BY DEF DisableUser, At, IsDeleting, HasDisabled
<1>2. CASE FindsAccountGone(c)
    BY <1>1, <1>2, LockoutAccountGone
<1>3. CASE authUser # "gone" /\ Succeeds /\ Goes(c, "cleanup")
    BY <1>1, <1>3, LockoutGoes
<1>4. CASE authUser # "gone" /\ Fails /\ Ends(c) /\ disableLost' = TRUE
  <2>1. ~IsLocked'
      BY <1>4 DEF IsLocked
  <2>2. QED
      BY <1>4, <2>1, LockoutEnds
<1>5. CASE Fails /\ Ends(c) /\ UNCHANGED <<authUser, disableLost>>
  <2>1. IsLocked' => IsLocked
      BY <1>5, AccountAssumption DEF IsLocked, Fails, LockoutInv
  <2>2. QED
      BY <1>1, <1>5, <2>1, LockoutEnds
<1>6. QED
    BY <1>2, <1>3, <1>4, <1>5 DEF DisableUser

\* The cleanup comes to the attempts to enable the account only after a failure.
LEMMA LockoutKeepsOn ==
    ASSUME TypeOK, LockoutInv, NEW c \in Callers, At(c, "delete", "cleanup"),
           NEW failed \in BOOLEAN, KeepsOn(c, failed), failed => Fails, Succeeds \/ Fails,
           UNCHANGED <<authUser, disableLost>>
    PROVE  LockoutInv'
<1> DEFINE wrong == calls[c].failed \/ failed
           further == [calls[c] EXCEPT !.step = @ + 1, !.failed = wrong]
           next == IF wrong THEN "reEnable" ELSE "deleteUser"
           over == [calls[c] EXCEPT !.failed = wrong, !.at = next]
<1>1. calls[c] \in DeleteCalls /\ IsPaid(calls[c], authUser, failures) /\ calls[c].at = "cleanup"
    BY DeletingIs DEF LockoutInv, At, IsDeleting
<1>2. failures \in Nat /\ failures' \in {failures, failures + 1}
    BY FailuresGrow DEF LockoutInv
<1>3. calls[c].failed \in BOOLEAN /\ wrong \in BOOLEAN /\ next \in {"reEnable", "deleteUser"}
    BY <1>1 DEF DeleteCalls
<1>4. /\ wrong => failures' >= 1
      /\ calls[c].tries = 0 /\ (calls[c].bestEffort => authUser = "gone")
    BY <1>1, <1>2 DEF IsPaid, Fails
<1>5. CASE calls[c].step < Len(CleanupSteps)
  <2>1. further \in Calls
      BY <1>1, <1>3, <1>5, DeletionMoves DEF CleanupSteps
  <2>2. Becomes(c, further)
      BY <1>5 DEF KeepsOn
  <2>3. /\ further.op = "delete" /\ further.at = "cleanup" /\ further.failed = wrong
        /\ further.tries = calls[c].tries /\ further.bestEffort = calls[c].bestEffort
      BY <1>1 DEF DeleteCalls
  <2> HIDE DEF further, wrong
  <2>4. IsPaid(further, authUser', failures') /\ HasDisabled(further)
      BY <1>4, <2>3 DEF IsPaid, HasDisabled
  <2>5. QED
      BY <1>2, <2>1, <2>2, <2>4, LockoutStep
<1>6. CASE calls[c].step >= Len(CleanupSteps) /\ calls[c].bestEffort
  <2>1. Ends(c)
      BY <1>1, <1>6 DEF KeepsOn, CleanupSteps, DeleteCalls
  <2>2. ~IsLocked'
      BY <1>4, <1>6 DEF IsLocked
  <2>3. QED
      BY <2>1, <2>2, LockoutEnds
<1>7. CASE calls[c].step >= Len(CleanupSteps) /\ ~calls[c].bestEffort
  <2>1. over \in Calls
      BY <1>1, <1>3, DeletionMoves
  <2>2. Becomes(c, over)
      BY <1>1, <1>7 DEF KeepsOn, CleanupSteps, DeleteCalls
  <2>3. /\ over.op = "delete" /\ over.at = next /\ over.failed = wrong
        /\ over.tries = calls[c].tries /\ over.bestEffort = calls[c].bestEffort
      BY <1>1 DEF DeleteCalls
  <2>4. next = "reEnable" => wrong
      OBVIOUS
  <2> HIDE DEF over, wrong, next
  <2>5. IsPaid(over, authUser', failures') /\ HasDisabled(over)
      BY <1>3, <1>4, <2>3, <2>4 DEF IsPaid, HasDisabled
  <2>6. QED
      BY <1>2, <2>1, <2>2, <2>5, LockoutStep
<1>8. QED
  <2>1. calls[c].step \in Nat /\ Len(CleanupSteps) \in Nat
      BY <1>1 DEF DeleteCalls, CleanupSteps
  <2>2. QED
      BY <1>5, <1>6, <1>7, <2>1

LEMMA LockoutCleanup ==
    ASSUME TypeOK, LockoutInv, NEW c \in Callers, CleanupStep(c) PROVE LockoutInv'
<1>1. UNCHANGED <<authUser, disableLost>> /\ At(c, "delete", "cleanup")
    BY DEF CleanupStep
<1>2. (KeepsOn(c, FALSE) /\ Succeeds) \/ (KeepsOn(c, TRUE) /\ Fails)
    BY DEF CleanupStep
<1>3. QED
    BY <1>1, <1>2, LockoutKeepsOn

LEMMA LockoutReEnable ==
    ASSUME TypeOK, LockoutInv, NEW c \in Callers, ReEnableUser(c) PROVE LockoutInv'
<1> DEFINE again == [calls[c] EXCEPT !.tries = @ + 1]
<1>1. /\ calls[c] \in DeleteCalls /\ IsPaid(calls[c], authUser, failures)
      /\ calls[c].at = "reEnable" /\ calls[c].op = "delete" /\ UNCHANGED disableLost
    BY DeletingIs DEF LockoutInv, At, IsDeleting, ReEnableUser
<1>2. CASE authUser # "gone" /\ authUser' = "enabled" /\ Succeeds /\ Ends(c)
  <2>1. ~IsLocked'
      BY <1>2 DEF IsLocked
  <2>2. QED
      BY <1>2, <2>1, LockoutEnds
<1>3. CASE /\ \/ authUser = "gone" /\ Succeeds /\ UNCHANGED authUser
              \/ Fails /\ UNCHANGED authUser
              \/ authUser # "gone" /\ Fails /\ authUser' = "enabled"
           /\ IF calls[c].tries + 1 < ReEnableAttempts THEN Becomes(c, again) ELSE Ends(c)
  <2>1. failures \in Nat /\ failures' \in {failures, failures + 1} /\ (Succeeds \/ Fails)
      BY <1>3, FailuresGrow DEF LockoutInv
  <2>2. authUser = "gone" => authUser' = "gone"
      BY <1>3
  <2>3. calls[c].tries \in Nat /\ ReEnableAttempts \in Nat
      BY <1>1, AccountAssumption DEF DeleteCalls
  <2>4. authUser' = "gone" \/ failures' >= 2 + calls[c].tries
      BY <1>1, <1>3, <2>1, <2>3 DEF IsPaid, Fails
  <2>5. CASE calls[c].tries + 1 < ReEnableAttempts
    <3>1. again \in Calls /\ Becomes(c, again)
        BY <1>1, <1>3, <2>5, DeletionMoves
    <3>2. /\ again.op = "delete" /\ again.at = "reEnable" /\ again.failed = calls[c].failed
          /\ again.tries = calls[c].tries + 1 /\ again.bestEffort = calls[c].bestEffort
        BY <1>1 DEF DeleteCalls
    <3> HIDE DEF again
    <3>3. IsPaid(again, authUser', failures') /\ HasDisabled(again)
        BY <1>1, <2>1, <2>2, <2>3, <2>4, <3>2 DEF IsPaid, HasDisabled
    <3>4. QED
        BY <2>1, <2>2, <3>1, <3>3, LockoutStep
  <2>6. CASE ~(calls[c].tries + 1 < ReEnableAttempts)
    <3>1. ~IsLocked'
        BY <2>1, <2>3, <2>4, <2>6 DEF IsLocked
    <3>2. Ends(c)
        BY <1>3, <2>6
    <3>3. QED
        BY <2>1, <2>2, <3>1, <3>2, LockoutEnds
  <2>7. QED
      BY <2>5, <2>6
<1>4. QED
    BY <1>2, <1>3 DEF ReEnableUser

LEMMA LockoutDelete ==
    ASSUME TypeOK, LockoutInv, NEW c \in Callers, DeleteUser(c) PROVE LockoutInv'
<1>1. IsDeleting(c) /\ calls[c].at = "deleteUser"
    BY DEF DeleteUser, At, IsDeleting
<1>2. CASE authUser' = "gone" /\ Succeeds /\ Ends(c)
    BY <1>2, LockoutEnds DEF IsLocked
<1>3. CASE authUser' \in {authUser, "gone"} /\ Fails /\ Goes(c, "reEnable")
    BY <1>1, <1>3, LockoutGoes
<1>4. QED
    BY <1>2, <1>3 DEF DeleteUser

LEMMA LockoutBegin ==
    ASSUME TypeOK, LockoutInv, NEW c \in Callers, BeginDeletion(c) PROVE LockoutInv'
<1> DEFINE new == [op |-> "delete", at |-> "revoke", step |-> 1, failed |-> FALSE,
                   bestEffort |-> FALSE, tries |-> 0,
                   shared |-> \E e \in Callers : IsDeleting(e)]
<1>1. /\ ~IsDeleting(c) /\ UNCHANGED <<authUser, failures, disableLost>>
      /\ calls' = [d \in Callers |->
            IF d = c THEN new
            ELSE IF IsDeleting(d) THEN [calls[d] EXCEPT !.shared = TRUE] ELSE calls[d]]
    BY DEF BeginDeletion, IsDeleting, Idle
<1>2. IsPaid(new, authUser, failures)
    BY DEF IsPaid
<1> HIDE DEF new
<1>3. ASSUME NEW d \in Callers \ {c}, IsDeleting(d)
      PROVE  /\ calls'[d].op = "delete" /\ calls'[d].at = calls[d].at
             /\ IsPaid(calls'[d], authUser, failures)
  <2>1. calls[d] \in DeleteCalls /\ IsPaid(calls[d], authUser, failures)
      BY <1>3, DeletingIs DEF LockoutInv
  <2>2. calls'[d] = [calls[d] EXCEPT !.shared = TRUE]
      BY <1>1, <1>3
  <2>3. /\ calls'[d].op = "delete" /\ calls'[d].at = calls[d].at
        /\ calls'[d].failed = calls[d].failed /\ calls'[d].tries = calls[d].tries
        /\ calls'[d].bestEffort = calls[d].bestEffort
      BY <2>1, <2>2 DEF DeleteCalls
  <2>4. QED
      BY <2>1, <2>3 DEF IsPaid
<1>4. ASSUME NEW d \in Callers, IsDeleting(d)'
      PROVE  IsPaid(calls'[d], authUser', failures')
  <2>1. CASE d = c
      BY <1>1, <1>2, <2>1
  <2>2. CASE d # c
      BY <1>1, <1>3, <1>4, <2>2 DEF IsDeleting
  <2>3. QED
      BY <2>1, <2>2
<1>5. (\A d \in Callers : IsDeleting(d) => IsPaid(calls[d], authUser, failures))'
    BY <1>4
<1>6. IsLocked' => \E d \in Callers : HasDisabled(calls'[d])
  <2> SUFFICES ASSUME IsLocked PROVE \E d \in Callers : HasDisabled(calls'[d])
      BY <1>1 DEF IsLocked
  <2>1. PICK d \in Callers : HasDisabled(calls[d])
      BY DEF LockoutInv
  <2>2. d # c /\ IsDeleting(d)
      BY <1>1, <2>1 DEF HasDisabled, IsDeleting
  <2>3. QED
      BY <1>3, <2>1, <2>2 DEF HasDisabled
<1>7. QED
    BY <1>1, <1>5, <1>6 DEF LockoutInv

-----------------------------------------------------------------------------
(* The theorem.                                                            *)

LEMMA LockoutNext ==
    ASSUME Inv, LockoutInv, [Next]_vars PROVE LockoutInv'
<1>1. TypeOK
    BY DEF Inv
<1>2. OtherStepHolds /\ UNCHANGED disableLost /\ (Succeeds \/ Fails) => LockoutInv'
    BY <1>1, LockoutOther, FailuresGrow DEF OtherStepHolds
<1>3. ASSUME NEW c \in Callers,
             \/ BeginDeletion(c) \/ RevokeRefreshTokens(c) \/ DisableUser(c) \/ CleanupStep(c)
             \/ ReEnableUser(c) \/ DeleteUser(c)
      PROVE  LockoutInv'
    BY <1>1, <1>3, LockoutBegin, LockoutRevoke, LockoutDisable, LockoutCleanup, LockoutReEnable,
       LockoutDelete
<1>4. ASSUME NEW c \in Callers,
             \/ BeginUse(c) \/ WriteData(c)
             \/ BeginSendOtp(c) \/ FindUser(c, "sendOtp", "setReset") \/ SetReset(c)
             \/ EmailOtp(c) \/ DropReset(c)
      PROVE  LockoutInv'
  <2>1. OtherStepHolds
      BY <1>1, <1>4, BeginUseStep, WriteDataStep, BeginSendOtpStep, FindUserStep, SetResetStep,
         EmailOtpStep, DropResetStep
  <2>2. UNCHANGED disableLost /\ (Succeeds \/ Fails)
      BY <1>4 DEF BeginUse, WriteData, BeginSendOtp, FindUser, SetReset, EmailOtp, DropReset,
                  deletionVars, Succeeds
  <2>3. QED
      BY <1>2, <2>1, <2>2
<1>5. ASSUME NEW c \in Callers,
             \/ BeginVerifyOtp(c) \/ FindUser(c, "verifyOtp", "readReset") \/ ReadReset(c)
             \/ MakeToken(c) \/ DeleteReset(c) \/ IncrementAttempts(c)
      PROVE  LockoutInv'
  <2>1. OtherStepHolds
      BY <1>1, <1>5, BeginVerifyOtpStep, FindUserStep, ReadResetStep, MakeTokenStep,
         DeleteResetStep, IncrementAttemptsStep
  <2>2. UNCHANGED disableLost /\ (Succeeds \/ Fails)
      BY <1>5 DEF BeginVerifyOtp, FindUser, ReadReset, MakeToken, DeleteReset, IncrementAttempts,
                  deletionVars, Succeeds
  <2>3. QED
      BY <1>2, <2>1, <2>2
<1>6. CASE OtpExpires
  <2>1. UNCHANGED disableLost /\ (Succeeds \/ Fails)
      BY <1>6 DEF OtpExpires, deletionVars, Succeeds
  <2>2. QED
      BY <1>1, <1>2, <1>6, <2>1, OtpExpiresStep
<1>7. CASE UNCHANGED vars
    BY <1>7 DEF vars, LockoutInv, IsLocked, IsDeleting
<1>8. QED
    BY <1>3, <1>4, <1>5, <1>6, <1>7 DEF Next

\* An account that is left disabled was left so by more failures than there are attempts
\* to take a deletion back, or by a disabling that was answered with a failure
\* (deleteUserAccount).
THEOREM LockedOutOnlyByFailures == Spec => []DisabledOnlyByManyFailures
<1>1. Inv /\ LockoutInv => DisabledOnlyByManyFailures
  <2> SUFFICES ASSUME LockoutInv, authUser = "disabled", Deletions = {}
               PROVE  failures > ReEnableAttempts \/ disableLost
      BY DEF DisabledOnlyByManyFailures
  <2>1. ~IsLocked
      BY DEF LockoutInv, HasDisabled, Deletions, IsDeleting
  <2>2. QED
      BY <2>1, AccountAssumption DEF IsLocked, LockoutInv
<1>2. Inv /\ LockoutInv /\ [Next]_vars => (Inv /\ LockoutInv)'
    BY InvStep, LockoutNext
<1>3. Init => Inv /\ LockoutInv
    BY InvInit, LockoutInit
<1>4. QED
    BY <1>1, <1>2, <1>3, PTL DEF Spec

-----------------------------------------------------------------------------
(* The code that resets the password.                                      *)

\* The code is not set yet, or its call to set it is on its way.
IsSetting(call, k) == call.op = "sendOtp" /\ call.at \in {"findUser", "setReset"} /\ call.code = k
IsUnset(k) == k > codes \/ \E c \in Callers : IsSetting(calls[c], k)

HasReset(k) == passwordResets # None /\ passwordResets.code = k

\* Where a code is, and what it was used for: it has not been set, or is in the
\* document with its misses counted, or was read by the one call that is about it.
CodeSpent(k) ==
    /\ tokens[k] <= 1 /\ misses[k] <= MaxOtpAttempts
    /\ IsUnset(k) => /\ ~HasReset(k) /\ \A c \in Callers : ~IsVerifying(c, k)
                     /\ tokens[k] = 0 /\ misses[k] = 0
    /\ HasReset(k) => tokens[k] = 0 /\ misses[k] <= passwordResets.attempts
    /\ \A c \in Callers : IsVerifying(c, k) => tokens[k] = 0 /\ misses[k] <= calls[c].read.attempts
    /\ \A c, d \in Callers : IsVerifying(c, k) /\ IsVerifying(d, k) => c = d

\* A code has one call that sends it, and who counts a miss read that it is one.
OtpCalls ==
    \A c \in Callers :
        /\ calls[c].op = "sendOtp" =>
              /\ calls[c].code <= codes
              /\ \A d \in Callers : calls[d].op = "sendOtp" /\ calls[d].code = calls[c].code => c = d
        /\ calls[c].op = "verifyOtp" =>
              /\ calls[c].at \in {"makeToken", "delete", "increment"} => calls[c].read # None
              /\ calls[c].at = "increment" => Verdict(calls[c].read, calls[c].guess) = "miss"

OtpInv ==
    /\ tokens \in [Codes -> Nat] /\ misses \in [Codes -> Nat]
    /\ OtpCalls /\ \A k \in Codes \ raced : CodeSpent(k)

\* What a call may become without having set, read or answered anything.
OtpGoesOn(call, next) ==
    /\ next.op = "sendOtp" =>
          /\ call.op = "sendOtp" /\ next.code = call.code
          /\ next.at \in {"findUser", "setReset"} => call.at \in {"findUser", "setReset"}
    /\ next.op = "verifyOtp" /\ next.read # None =>
          call.op = "verifyOtp" /\ next.read = call.read /\ next.guess = call.guess
    /\ next.op = "verifyOtp" /\ next.at \in {"makeToken", "delete", "increment"} => next.read # None
    /\ next.op = "verifyOtp" /\ next.at = "increment" => call.at = "increment"

\* The document is removed, or what it counts grows.
ResetGoesOn ==
    \/ passwordResets' = None
    \/ /\ passwordResets # None /\ passwordResets'.code = passwordResets.code
       /\ passwordResets'.attempts >= passwordResets.attempts

LEMMA OtpInit == Init => OtpInv
<1> SUFFICES ASSUME Init PROVE OtpInv
    OBVIOUS
<1>1. \A c \in Callers : calls[c].op = "idle"
    BY DEF Init, Idle
<1>2. \A k \in Codes : CodeSpent(k)
    BY <1>1, AccountAssumption DEF Init, CodeSpent, IsVerifying, HasReset
<1>3. OtpCalls
    BY <1>1 DEF OtpCalls
<1>4. QED
    BY <1>2, <1>3 DEF OtpInv, Init

\* Nothing was set, read or answered, though the document may be gone.
LEMMA OtpKeeps ==
    ASSUME TypeOK, OtpInv, TypeOK', UNCHANGED <<codes, tokens, misses, raced>>, ResetGoesOn,
           \A d \in Callers : OtpGoesOn(calls[d], calls'[d])
    PROVE  OtpInv'
<1>1. \A d \in Callers, k \in Codes : IsSetting(calls'[d], k) => IsSetting(calls[d], k)
    BY DEF OtpGoesOn, IsSetting
<1>2. \A d \in Callers, k \in Codes : IsVerifying(d, k)' => IsVerifying(d, k) /\ calls'[d].read = calls[d].read
    BY DEF OtpGoesOn, IsVerifying
<1>3. \A k \in Codes : /\ IsUnset(k)' => IsUnset(k)
                       /\ HasReset(k)' => HasReset(k) /\ passwordResets'.attempts >= passwordResets.attempts
    BY <1>1 DEF IsUnset, HasReset, ResetGoesOn
<1>4. OtpCalls'
    BY DEF OtpGoesOn, OtpCalls, OtpInv
<1>5. ASSUME NEW k \in Codes \ raced
      PROVE  CodeSpent(k)'
  <2>1. CodeSpent(k) /\ misses[k] \in Nat
      BY <1>5 DEF OtpInv
  <2>2. HasReset(k)' => misses'[k] <= passwordResets'.attempts
    <3>1. ASSUME HasReset(k)'
          PROVE  passwordResets \in Resets /\ passwordResets' \in Resets
        BY <1>3, <1>5, <3>1 DEF TypeOK, HasReset
    <3>2. QED
        BY <1>3, <1>5, <2>1, <3>1 DEF CodeSpent, Resets
  <2>3. QED
      BY <1>2, <1>3, <1>5, <2>1, <2>2 DEF CodeSpent
<1>6. QED
    BY <1>4, <1>5 DEF OtpInv

LEMMA OtpStands ==
    ASSUME TypeOK, OtpInv, NEW d \in Callers
    PROVE  OtpGoesOn(calls[d], calls[d])
  BY DEF OtpGoesOn, OtpInv, OtpCalls

LEMMA OtpOneCaller ==
    ASSUME TypeOK, OtpInv, TypeOK', UNCHANGED <<codes, tokens, misses, raced>>, ResetGoesOn,
           NEW c \in Callers, NEW call, Becomes(c, call), OtpGoesOn(calls[c], call)
    PROVE  OtpInv'
<1>1. \A d \in Callers : calls'[d] = IF d = c THEN call ELSE calls[d]
    BY DEF Becomes, TypeOK
<1>2. \A d \in Callers : OtpGoesOn(calls[d], calls'[d])
    BY <1>1, OtpStands
<1>3. QED
    BY <1>2, OtpKeeps

\* A call that is not about the code goes on, or one that is ends.
LEMMA OtpOther ==
    ASSUME TypeOK, OtpInv, TypeOK', UNCHANGED <<codes, tokens, misses, raced>>, ResetGoesOn,
           NEW c \in Callers, NEW call, Becomes(c, call), call.op \in {"idle", "use", "delete"}
    PROVE  OtpInv'
<1>1. OtpGoesOn(calls[c], call)
    BY DEF OtpGoesOn
<1>2. QED
    BY <1>1, OtpOneCaller

LEMMA OtpEnds ==
    ASSUME TypeOK, OtpInv, TypeOK', UNCHANGED <<codes, tokens, misses, raced>>, ResetGoesOn,
           NEW c \in Callers, Ends(c)
    PROVE  OtpInv'
  BY OtpOther DEF Ends, Idle

LEMMA ResetStands ==
    ASSUME TypeOK, UNCHANGED passwordResets
    PROVE  ResetGoesOn
<1>1. passwordResets # None => passwordResets.attempts \in Nat
    BY DEF TypeOK, Resets
<1>2. QED
    BY <1>1 DEF ResetGoesOn

LEMMA OtpDeletionSteps ==
    ASSUME TypeOK, OtpInv, TypeOK', NEW c \in Callers,
           RevokeRefreshTokens(c) \/ DisableUser(c) \/ CleanupStep(c) \/ ReEnableUser(c) \/ DeleteUser(c)
    PROVE  OtpInv'
<1>1. calls[c] \in DeleteCalls /\ UNCHANGED <<codes, tokens, misses, raced>>
    BY DeletingIs DEF RevokeRefreshTokens, DisableUser, CleanupStep, ReEnableUser, DeleteUser, At, IsDeleting,
                      otpVars
<1>2. ResetGoesOn
    BY ResetStands DEF RevokeRefreshTokens, DisableUser, CleanupStep, ReEnableUser, DeleteUser, Removes,
                       ResetGoesOn
<1>3. \E call : Becomes(c, call) /\ call.op \in {"idle", "delete"}
  <2>1. /\ \A at : [calls[c] EXCEPT !.at = at].op = "delete"
        /\ [calls[c] EXCEPT !.at = "cleanup", !.bestEffort = TRUE].op = "delete"
        /\ [calls[c] EXCEPT !.tries = @ + 1].op = "delete"
        /\ \A wrong : [calls[c] EXCEPT !.step = @ + 1, !.failed = wrong].op = "delete"
        /\ \A wrong, at : [calls[c] EXCEPT !.failed = wrong, !.at = at].op = "delete"
        /\ Idle.op = "idle"
      BY <1>1 DEF DeleteCalls, Idle
  <2>2. ASSUME NEW failed, KeepsOn(c, failed)
        PROVE  \E call : Becomes(c, call) /\ call.op \in {"idle", "delete"}
    <3> DEFINE wrong == calls[c].failed \/ failed
               at == IF wrong THEN "reEnable" ELSE "deleteUser"
    <3>1. \/ Becomes(c, [calls[c] EXCEPT !.step = @ + 1, !.failed = wrong])
          \/ Becomes(c, Idle)
          \/ Becomes(c, [calls[c] EXCEPT !.failed = wrong, !.at = at])
        BY <2>2 DEF KeepsOn, Ends
    <3> HIDE DEF wrong, at
    <3>2. QED
        BY <2>1, <3>1
  <2>3. QED
      BY <2>1, <2>2 DEF RevokeRefreshTokens, DisableUser, CleanupStep, ReEnableUser, DeleteUser,
                        FindsAccountGone, Goes, Ends
<1>4. QED
    BY <1>1, <1>2, <1>3, OtpOther

LEMMA OtpBeginDeletion ==
    ASSUME TypeOK, OtpInv, TypeOK', NEW c \in Callers, BeginDeletion(c)
    PROVE  OtpInv'
<1>1. ASSUME NEW d \in Callers
      PROVE  OtpGoesOn(calls[d], calls'[d])
  <2>1. CASE d = c
      BY <2>1 DEF BeginDeletion, OtpGoesOn
  <2>2. CASE d # c /\ IsDeleting(d)
    <3>1. calls[d] \in DeleteCalls
        BY <2>2, DeletingIs
    <3>2. [calls[d] EXCEPT !.shared = TRUE].op = "delete"
        BY <3>1 DEF DeleteCalls
    <3>3. QED
        BY <2>2, <3>2 DEF BeginDeletion, OtpGoesOn
  <2>3. CASE d # c /\ ~IsDeleting(d)
      BY <2>3, OtpStands DEF BeginDeletion
  <2>4. QED
      BY <2>1, <2>2, <2>3
<1>2. QED
    BY <1>1, OtpKeeps, ResetStands DEF BeginDeletion, otpVars

LEMMA OtpUseSteps ==
    ASSUME TypeOK, OtpInv, TypeOK', NEW c \in Callers, BeginUse(c) \/ WriteData(c)
    PROVE  OtpInv'
<1>1. CASE BeginUse(c)
  <2>1. PICK part \in Data : Becomes(c, [op |-> "use", at |-> "write", part |-> part])
      BY <1>1 DEF BeginUse
  <2>2. QED
      BY <1>1, <2>1, OtpOther, ResetStands DEF BeginUse
<1>2. CASE WriteData(c)
    BY <1>2, OtpEnds, ResetStands DEF WriteData
<1>3. QED
    BY <1>1, <1>2

-----------------------------------------------------------------------------
(* The steps that are about the code.                                      *)

LEMMA SendingIs ==
    ASSUME TypeOK, NEW c \in Callers, calls[c].op = "sendOtp"
    PROVE  calls[c] \in SendCalls
  BY CallByOp DEF TypeOK

LEMMA VerifyingIs ==
    ASSUME TypeOK, NEW c \in Callers, calls[c].op = "verifyOtp"
    PROVE  calls[c] \in VerifyCalls
  BY CallByOp DEF TypeOK

LEMMA OtpGoes ==
    ASSUME TypeOK, OtpInv, TypeOK', UNCHANGED <<codes, tokens, misses, raced>>, ResetGoesOn,
           NEW c \in Callers, NEW at, Goes(c, at),
           \/ calls[c].op = "sendOtp" /\ (at \in {"findUser", "setReset"} => calls[c].at = "findUser")
           \/ calls[c].op = "verifyOtp" /\ at = "readReset"
           \/ calls[c].op = "verifyOtp" /\ at = "delete" /\ calls[c].at = "makeToken"
    PROVE  OtpInv'
<1> DEFINE call == [calls[c] EXCEPT !.at = at]
<1>1. CASE calls[c].op = "sendOtp"
  <2>1. call.op = "sendOtp" /\ call.at = at /\ call.code = calls[c].code
      BY <1>1, SendingIs DEF SendCalls
  <2> HIDE DEF call
  <2>2. OtpGoesOn(calls[c], call)
      BY <1>1, <2>1 DEF OtpGoesOn
  <2>3. QED
      BY <2>2, OtpOneCaller DEF Goes, call
<1>2. CASE calls[c].op = "verifyOtp"
  <2>1. call.op = "verifyOtp" /\ call.at = at /\ call.read = calls[c].read /\ call.guess = calls[c].guess
      BY <1>2, VerifyingIs DEF VerifyCalls
  <2>2. at = "delete" => calls[c].read # None
      BY <1>2 DEF OtpInv, OtpCalls
  <2> HIDE DEF call
  <2>3. OtpGoesOn(calls[c], call)
      BY <1>2, <2>1, <2>2 DEF OtpGoesOn
  <2>4. QED
      BY <2>3, OtpOneCaller DEF Goes, call
<1>3. QED
    BY <1>1, <1>2

LEMMA OtpFindUser ==
    ASSUME TypeOK, OtpInv, TypeOK', NEW c \in Callers,
           FindUser(c, "sendOtp", "setReset") \/ FindUser(c, "verifyOtp", "readReset")
    PROVE  OtpInv'
<1>1. UNCHANGED <<codes, tokens, misses, raced>> /\ ResetGoesOn
    BY ResetStands DEF FindUser, otpVars
<1>2. \/ Ends(c)
      \/ Goes(c, "setReset") /\ calls[c].op = "sendOtp" /\ calls[c].at = "findUser"
      \/ Goes(c, "readReset") /\ calls[c].op = "verifyOtp"
  <2>1. CASE FindUser(c, "sendOtp", "setReset")
      BY <2>1 DEF FindUser, At
  <2>2. CASE FindUser(c, "verifyOtp", "readReset")
      BY <2>2 DEF FindUser, At
  <2>3. QED
      BY <2>1, <2>2
<1>3. QED
    BY <1>1, <1>2, OtpEnds, OtpGoes

LEMMA OtpEmailSteps ==
    ASSUME TypeOK, OtpInv, TypeOK', NEW c \in Callers, EmailOtp(c) \/ DropReset(c)
    PROVE  OtpInv'
<1>1. UNCHANGED <<codes, tokens, misses, raced>>
    BY DEF EmailOtp, DropReset, otpVars
<1>2. ResetGoesOn
    BY ResetStands DEF EmailOtp, DropReset, ResetGoesOn
<1>3. Ends(c) \/ (Goes(c, "dropReset") /\ calls[c].op = "sendOtp")
    BY DEF EmailOtp, DropReset, At
<1>4. QED
    BY <1>1, <1>2, <1>3, OtpEnds, OtpGoes

LEMMA OtpMakeToken ==
    ASSUME TypeOK, OtpInv, TypeOK', NEW c \in Callers, MakeToken(c)
    PROVE  OtpInv'
<1>1. UNCHANGED <<codes, tokens, misses, raced>> /\ ResetGoesOn
    BY ResetStands DEF MakeToken, otpVars
<1>2. QED
    BY <1>1, OtpEnds, OtpGoes DEF MakeToken, At

LEMMA OtpBeginVerify ==
    ASSUME TypeOK, OtpInv, TypeOK', NEW c \in Callers, BeginVerifyOtp(c)
    PROVE  OtpInv'
<1>1. PICK guess \in 0..codes :
          Becomes(c, [op |-> "verifyOtp", at |-> "findUser", guess |-> guess, read |-> None])
    BY DEF BeginVerifyOtp
<1> DEFINE call == [op |-> "verifyOtp", at |-> "findUser", guess |-> guess, read |-> None]
<1>2. OtpGoesOn(calls[c], call)
    BY DEF OtpGoesOn
<1> HIDE DEF call
<1>3. QED
    BY <1>1, <1>2, OtpOneCaller, ResetStands DEF BeginVerifyOtp, otpVars, call

LEMMA OtpExpiry ==
    ASSUME TypeOK, OtpInv, TypeOK', OtpExpires
    PROVE  OtpInv'
<1>1. passwordResets \in Resets
    BY DEF OtpExpires, TypeOK
<1>2. ResetGoesOn
    BY <1>1 DEF OtpExpires, ResetGoesOn, Resets
<1>3. QED
    BY <1>2, OtpStands, OtpKeeps DEF OtpExpires, otpVars

LEMMA OtpBeginSend ==
    ASSUME TypeOK, OtpInv, TypeOK', NEW c \in Callers, BeginSendOtp(c)
    PROVE  OtpInv'
<1> DEFINE call == [op |-> "sendOtp", at |-> "findUser", code |-> codes + 1]
<1>1. /\ codes \in Nat /\ codes' = codes + 1 /\ UNCHANGED <<passwordResets, tokens, misses, raced>>
      /\ \A d \in Callers : calls'[d] = IF d = c THEN call ELSE calls[d]
    BY AccountAssumption DEF BeginSendOtp, TypeOK, Becomes
<1>2. /\ \A d \in Callers, k \in Codes : IsVerifying(d, k)' => IsVerifying(d, k) /\ calls'[d] = calls[d]
    BY <1>1 DEF IsVerifying
<1>3. ASSUME NEW k \in Codes, IsUnset(k)'
      PROVE  IsUnset(k)
  <2>1. CASE k > codes'
      BY <1>1, <2>1 DEF IsUnset, Codes
  <2>2. ASSUME NEW d \in Callers, IsSetting(calls'[d], k)
        PROVE  IsUnset(k)
      BY <1>1, <2>2 DEF IsUnset, IsSetting, Codes
  <2>3. QED
      BY <1>3, <2>1, <2>2 DEF IsUnset
<1>4. \A k \in Codes \ raced : CodeSpent(k)'
    BY <1>1, <1>2, <1>3 DEF OtpInv, CodeSpent, HasReset
<1>5. OtpCalls'
  <2>1. \A d \in Callers : calls[d].op = "sendOtp" => calls[d].code \in Nat /\ calls[d].code <= codes
      BY SendingIs DEF SendCalls, Codes, OtpInv, OtpCalls
  <2>2. QED
      BY <1>1, <2>1 DEF OtpInv, OtpCalls
<1>6. QED
    BY <1>1, <1>4, <1>5 DEF OtpInv

LEMMA OtpSetReset ==
    ASSUME TypeOK, OtpInv, TypeOK', NEW c \in Callers, SetReset(c)
    PROVE  OtpInv'
<1>1. UNCHANGED <<codes, tokens, misses, raced>> /\ calls[c] \in SendCalls /\ IsSetting(calls[c], calls[c].code)
    BY SendingIs DEF SetReset, otpVars, At, IsSetting
<1>2. CASE UNCHANGED passwordResets /\ Ends(c)
    BY <1>1, <1>2, OtpEnds, ResetStands
<1>3. CASE /\ passwordResets' = [code |-> calls[c].code, attempts |-> 0, expired |-> FALSE]
           /\ Goes(c, "email") \/ Ends(c)
  <2>1. PICK call : /\ \A d \in Callers : calls'[d] = IF d = c THEN call ELSE calls[d]
                    /\ call.op = "idle" \/ (call.op = "sendOtp" /\ call.at = "email" /\ call.code = calls[c].code)
    <3>1. CASE Ends(c)
        BY <3>1 DEF Ends, Becomes, Idle, TypeOK
    <3>2. CASE Goes(c, "email")
      <4> DEFINE new == [calls[c] EXCEPT !.at = "email"]
      <4>1. new.op = "sendOtp" /\ new.at = "email" /\ new.code = calls[c].code
          BY <1>1 DEF SendCalls
      <4>2. Becomes(c, new)
          BY <3>2 DEF Goes
      <4> HIDE DEF new
      <4>3. QED
          BY <4>1, <4>2 DEF Becomes, TypeOK
    <3>3. QED
        BY <1>3, <3>1, <3>2
  <2>2. \A d \in Callers, k \in Codes : IsVerifying(d, k)' => IsVerifying(d, k) /\ calls'[d] = calls[d]
      BY <2>1 DEF IsVerifying
  <2>3. \A d \in Callers, k \in Codes : IsSetting(calls'[d], k) => d # c /\ IsSetting(calls[d], k)
      BY <2>1 DEF IsSetting
  <2>4. \A k \in Codes : IsUnset(k)' => IsUnset(k)
      BY <1>1, <2>3 DEF IsUnset
  <2>5. ASSUME NEW k \in Codes \ raced
        PROVE  CodeSpent(k)'
    <3>1. CASE k # calls[c].code
      <4>1. ~HasReset(k)'
          BY <1>3, <3>1 DEF HasReset
      <4>2. CodeSpent(k)
          BY <2>5 DEF OtpInv
      <4>3. QED
          BY <1>1, <2>2, <2>4, <4>1, <4>2 DEF CodeSpent
    <3>2. CASE k = calls[c].code
      <4>1. IsUnset(k) /\ CodeSpent(k)
          BY <1>1, <2>5, <3>2 DEF IsUnset, OtpInv
      <4>2. ~(k > codes)
          BY <1>1, <3>2 DEF OtpInv, OtpCalls, SendCalls, Codes, TypeOK
      <4>3. ~IsUnset(k)'
          BY <1>1, <2>3, <3>2, <4>2 DEF IsUnset, IsSetting, OtpInv, OtpCalls
      <4>4. tokens'[k] = 0 /\ misses'[k] = 0 /\ \A d \in Callers : ~IsVerifying(d, k)'
          BY <1>1, <2>2, <4>1 DEF CodeSpent
      <4>5. HasReset(k)' => passwordResets'.attempts = 0
          BY <1>3
      <4>6. QED
          BY <1>1, <4>3, <4>4, <4>5, AccountAssumption DEF CodeSpent
    <3>3. QED
        BY <3>1, <3>2
  <2>6. OtpCalls'
      BY <1>1, <2>1 DEF OtpInv, OtpCalls, SendCalls
  <2>7. QED
      BY <1>1, <2>5, <2>6 DEF OtpInv
<1>4. QED
    BY <1>2, <1>3 DEF SetReset

LEMMA OtpReadReset ==
    ASSUME TypeOK, OtpInv, TypeOK', NEW c \in Callers, ReadReset(c)
    PROVE  OtpInv'
<1>1. UNCHANGED <<codes, tokens, misses, passwordResets>> /\ calls[c] \in VerifyCalls
    BY VerifyingIs DEF ReadReset, At
<1>2. CASE Ends(c) /\ UNCHANGED raced
    BY <1>1, <1>2, OtpEnds, ResetStands
<1> DEFINE verdict == Verdict(passwordResets, calls[c].guess)
           at == CASE verdict = "match" -> "makeToken" [] verdict = "miss" -> "increment" [] OTHER -> "delete"
           call == [calls[c] EXCEPT !.read = passwordResets, !.at = at]
<1>3. CASE /\ passwordResets # None /\ Becomes(c, call)
           /\ raced' = IF \E d \in Callers : IsVerifying(d, passwordResets.code)
                       THEN raced \cup {passwordResets.code} ELSE raced
  <2>1. /\ call.op = "verifyOtp" /\ call.read = passwordResets /\ call.guess = calls[c].guess /\ call.at = at
      BY <1>1 DEF VerifyCalls
  <2>2. at = "increment" => verdict = "miss"
      OBVIOUS
  <2>3. \A d \in Callers : calls'[d] = IF d = c THEN call ELSE calls[d]
      BY <1>3 DEF Becomes, TypeOK
  <2> HIDE DEF at, call
  <2>4. OtpCalls'
      BY <1>1, <1>3, <2>1, <2>2, <2>3 DEF OtpInv, OtpCalls
  <2>5. ASSUME NEW k \in Codes \ raced'
        PROVE  CodeSpent(k)'
    <3>1. k \notin raced /\ CodeSpent(k)
        BY <1>3, <2>5 DEF OtpInv
    <3>2. \A d \in Callers : IsSetting(calls'[d], k) => IsSetting(calls[d], k)
        BY <2>1, <2>3 DEF IsSetting
    <3>3. (IsUnset(k)' => IsUnset(k)) /\ (HasReset(k)' <=> HasReset(k))
        BY <1>1, <3>2 DEF IsUnset, HasReset
    <3>4. CASE k # passwordResets.code
      <4>1. \A d \in Callers : IsVerifying(d, k)' => IsVerifying(d, k) /\ calls'[d] = calls[d]
          BY <2>1, <2>3, <3>4 DEF IsVerifying
      <4>2. QED
          BY <1>1, <3>1, <3>3, <4>1 DEF CodeSpent
    <3>5. CASE k = passwordResets.code
      <4>1. HasReset(k) /\ \A d \in Callers : ~IsVerifying(d, k)
          BY <1>3, <2>5, <3>5 DEF HasReset
      <4>2. \A d \in Callers : IsVerifying(d, k)' => d = c /\ calls'[d].read = passwordResets
          BY <2>1, <2>3, <4>1 DEF IsVerifying
      <4>3. QED
          BY <1>1, <3>1, <3>3, <4>1, <4>2 DEF CodeSpent
    <3>6. QED
        BY <3>4, <3>5
  <2>6. QED
      BY <1>1, <2>4, <2>5 DEF OtpInv
<1>4. QED
    BY <1>2, <1>3 DEF ReadReset

\* A verification answers: it is the only one about its code.
LEMMA OtpAnswers ==
    ASSUME TypeOK, OtpInv, NEW c \in Callers, calls[c].op = "verifyOtp", calls[c].read # None
    PROVE  /\ calls[c].read \in Resets /\ calls[c].read.code \in Codes /\ calls[c].read.attempts \in Nat
           /\ IsVerifying(c, calls[c].read.code)
           /\ \A k \in Codes \ raced : IsVerifying(c, k) =>
                 /\ tokens[k] = 0 /\ misses[k] <= calls[c].read.attempts /\ ~IsUnset(k)
                 /\ \A d \in Callers : IsVerifying(d, k) => d = c
<1>1. calls[c] \in VerifyCalls
    BY VerifyingIs
<1>2. /\ calls[c].read \in Resets /\ calls[c].read.code \in Codes /\ calls[c].read.attempts \in Nat
      /\ IsVerifying(c, calls[c].read.code)
    BY <1>1 DEF VerifyCalls, Resets, IsVerifying
<1>3. QED
    BY <1>2 DEF OtpInv, CodeSpent

LEMMA EndedCalls ==
    ASSUME TypeOK, OtpInv, NEW c \in Callers, Ends(c), codes' = codes
    PROVE  /\ OtpCalls'
           /\ \A d \in Callers, k \in Codes : IsVerifying(d, k)' =>
                 d # c /\ IsVerifying(d, k) /\ calls'[d] = calls[d]
           /\ \A k \in Codes : IsUnset(k)' => IsUnset(k)
<1>1. \A d \in Callers : calls'[d] = IF d = c THEN Idle ELSE calls[d]
    BY DEF Ends, Becomes, TypeOK
<1>2. Idle.op = "idle"
    BY DEF Idle
<1>3. OtpCalls'
    BY <1>1, <1>2 DEF OtpInv, OtpCalls
<1>4. QED
    BY <1>1, <1>2, <1>3 DEF IsVerifying, IsUnset, IsSetting

LEMMA OtpDeleteReset ==
    ASSUME TypeOK, OtpInv, TypeOK', NEW c \in Callers, DeleteReset(c)
    PROVE  OtpInv'
<1> DEFINE read == calls[c].read
           verdict == Verdict(read, calls[c].guess)
<1>1. /\ calls[c].op = "verifyOtp" /\ read # None /\ Ends(c) /\ UNCHANGED <<codes, raced>>
    BY DEF DeleteReset, At, OtpInv, OtpCalls
<1>2. CASE passwordResets' \in {None, passwordResets} /\ UNCHANGED <<tokens, misses>>
  <2>1. ResetGoesOn
      BY <1>2, ResetStands DEF ResetGoesOn
  <2>2. QED
      BY <1>1, <1>2, <2>1, OtpEnds
<1>3. CASE /\ passwordResets' = None
           /\ tokens' = [tokens EXCEPT ![read.code] = IF verdict = "match" THEN @ + 1 ELSE @]
           /\ misses' = [misses EXCEPT ![read.code] = IF verdict = "lastMiss" THEN @ + 1 ELSE @]
  <2>1. /\ read.code \in Codes /\ read.attempts \in Nat /\ IsVerifying(c, read.code)
        /\ tokens \in [Codes -> Nat] /\ misses \in [Codes -> Nat]
      BY <1>1, OtpAnswers DEF OtpInv
  <2>2. verdict = "lastMiss" => read.attempts < MaxOtpAttempts
      BY <2>1, AccountAssumption DEF Verdict
  <2> HIDE DEF verdict
  <2>3. tokens' \in [Codes -> Nat] /\ misses' \in [Codes -> Nat]
      BY <1>3, <2>1
  <2>4. ASSUME NEW k \in Codes \ raced
        PROVE  CodeSpent(k)'
    <3>1. CodeSpent(k) /\ ~HasReset(k)' /\ (IsUnset(k)' => IsUnset(k))
        BY <1>1, <1>3, <2>4, EndedCalls DEF OtpInv, HasReset
    <3>2. \A d \in Callers : IsVerifying(d, k)' => d # c /\ IsVerifying(d, k) /\ calls'[d] = calls[d]
        BY <1>1, <2>4, EndedCalls
    <3>3. CASE k # read.code
      <4>1. tokens'[k] = tokens[k] /\ misses'[k] = misses[k]
          BY <1>3, <2>1, <3>3
      <4>2. QED
          BY <3>1, <3>2, <4>1 DEF CodeSpent
    <3>4. CASE k = read.code
      <4>1. /\ tokens[k] = 0 /\ misses[k] <= read.attempts /\ ~IsUnset(k)
            /\ \A d \in Callers : IsVerifying(d, k) => d = c
          BY <1>1, <2>1, <2>4, <3>4, OtpAnswers
      <4>2. tokens'[k] <= 1 /\ misses'[k] <= MaxOtpAttempts
        <5>1. /\ tokens'[k] = IF verdict = "match" THEN tokens[k] + 1 ELSE tokens[k]
              /\ misses'[k] = IF verdict = "lastMiss" THEN misses[k] + 1 ELSE misses[k]
            BY <1>3, <2>1, <3>4
        <5>2. misses[k] \in Nat /\ misses[k] <= MaxOtpAttempts /\ MaxOtpAttempts \in Nat
            BY <2>1, <2>4, <3>1, AccountAssumption DEF CodeSpent
        <5> HIDE DEF read
        <5>3. QED
            BY <2>1, <2>2, <4>1, <5>1, <5>2
      <4>3. QED
          BY <3>1, <3>2, <4>1, <4>2 DEF CodeSpent
    <3>5. QED
        BY <3>3, <3>4
  <2>5. QED
      BY <1>1, <2>3, <2>4, EndedCalls DEF OtpInv
<1>4. QED
    BY <1>2, <1>3 DEF DeleteReset

LEMMA OtpIncrement ==
    ASSUME TypeOK, OtpInv, TypeOK', NEW c \in Callers, IncrementAttempts(c)
    PROVE  OtpInv'
<1> DEFINE read == calls[c].read
<1>1. /\ calls[c].op = "verifyOtp" /\ read # None /\ Ends(c) /\ UNCHANGED <<codes, tokens, raced>>
      /\ Verdict(read, calls[c].guess) = "miss"
    BY DEF IncrementAttempts, At, OtpInv, OtpCalls
<1>2. passwordResets # None => passwordResets \in Resets /\ passwordResets.attempts \in Nat
    BY DEF TypeOK, Resets
<1>3. CASE UNCHANGED <<passwordResets, misses>>
    BY <1>1, <1>3, OtpEnds, ResetStands
<1>4. CASE UNCHANGED misses /\ passwordResets # None
           /\ passwordResets' = [passwordResets EXCEPT !.attempts = @ + 1]
  <2>1. ResetGoesOn
      BY <1>2, <1>4 DEF ResetGoesOn, Resets
  <2>2. QED
      BY <1>1, <1>4, <2>1, OtpEnds
<1>5. CASE /\ passwordResets # None
           /\ passwordResets' = [passwordResets EXCEPT !.attempts = @ + 1]
           /\ misses' = [misses EXCEPT ![read.code] = @ + 1]
  <2>1. /\ read.code \in Codes /\ read.attempts \in Nat /\ IsVerifying(c, read.code)
        /\ misses \in [Codes -> Nat]
      BY <1>1, OtpAnswers DEF OtpInv
  <2>2. read.attempts + 1 < MaxOtpAttempts
    <3>1. read.attempts < MaxOtpAttempts /\ ~(read.attempts + 1 >= MaxOtpAttempts)
        BY <1>1, <2>1, AccountAssumption DEF Verdict
    <3>2. QED
        BY <2>1, <3>1, AccountAssumption
  <2>3. misses' \in [Codes -> Nat]
      BY <1>5, <2>1
  <2>4. /\ passwordResets'.code = passwordResets.code
        /\ passwordResets'.attempts = passwordResets.attempts + 1 /\ passwordResets.attempts \in Nat
      BY <1>2, <1>5 DEF Resets
  <2>5. ASSUME NEW k \in Codes \ raced
        PROVE  CodeSpent(k)'
    <3>1. /\ CodeSpent(k) /\ (HasReset(k)' => HasReset(k)) /\ (IsUnset(k)' => IsUnset(k))
          /\ misses[k] \in Nat
        BY <1>1, <1>5, <2>1, <2>4, <2>5, EndedCalls DEF OtpInv, HasReset
    <3>2. \A d \in Callers : IsVerifying(d, k)' => d # c /\ IsVerifying(d, k) /\ calls'[d] = calls[d]
        BY <1>1, <2>5, EndedCalls
    <3>3. CASE k # read.code
      <4>1. misses'[k] = misses[k] /\ tokens'[k] = tokens[k]
          BY <1>1, <1>5, <2>1, <3>3
      <4>2. HasReset(k)' => misses'[k] <= passwordResets'.attempts
          BY <2>4, <3>1, <4>1 DEF CodeSpent
      <4>3. QED
          BY <3>1, <3>2, <4>1, <4>2 DEF CodeSpent
    <3>4. CASE k = read.code
      <4>1. /\ tokens[k] = 0 /\ misses[k] <= read.attempts /\ ~IsUnset(k)
            /\ \A d \in Callers : IsVerifying(d, k) => d = c
          BY <1>1, <2>1, <2>5, <3>4, OtpAnswers
      <4>2. misses'[k] = misses[k] + 1 /\ tokens'[k] = 0
          BY <1>1, <1>5, <2>1, <3>4, <4>1
      <4> HIDE DEF read
      <4>3. misses'[k] <= MaxOtpAttempts
          BY <2>1, <2>2, <3>1, <4>1, <4>2, AccountAssumption
      <4>4. HasReset(k)' => misses'[k] <= passwordResets'.attempts
          BY <2>4, <3>1, <4>2 DEF CodeSpent
      <4>5. QED
          BY <3>1, <3>2, <4>1, <4>2, <4>3, <4>4 DEF CodeSpent
    <3>5. QED
        BY <3>3, <3>4
  <2>6. QED
      BY <1>1, <2>3, <2>5, EndedCalls DEF OtpInv
<1>6. QED
    BY <1>3, <1>4, <1>5 DEF IncrementAttempts

LEMMA OtpNext ==
    ASSUME Inv, OtpInv, [Next]_vars, Inv' PROVE OtpInv'
<1>1. TypeOK /\ TypeOK'
    BY DEF Inv
<1>2. ASSUME NEW c \in Callers,
             \/ BeginDeletion(c) \/ RevokeRefreshTokens(c) \/ DisableUser(c) \/ CleanupStep(c)
             \/ ReEnableUser(c) \/ DeleteUser(c)
      PROVE  OtpInv'
    BY <1>1, <1>2, OtpBeginDeletion, OtpDeletionSteps
<1>3. ASSUME NEW c \in Callers,
             \/ BeginUse(c) \/ WriteData(c)
             \/ BeginSendOtp(c) \/ FindUser(c, "sendOtp", "setReset") \/ SetReset(c)
             \/ EmailOtp(c) \/ DropReset(c)
      PROVE  OtpInv'
    BY <1>1, <1>3, OtpUseSteps, OtpBeginSend, OtpFindUser, OtpSetReset, OtpEmailSteps
<1>4. ASSUME NEW c \in Callers,
             \/ BeginVerifyOtp(c) \/ FindUser(c, "verifyOtp", "readReset") \/ ReadReset(c)
             \/ MakeToken(c) \/ DeleteReset(c) \/ IncrementAttempts(c)
      PROVE  OtpInv'
    BY <1>1, <1>4, OtpBeginVerify, OtpFindUser, OtpReadReset, OtpMakeToken, OtpDeleteReset, OtpIncrement
<1>5. CASE OtpExpires
    BY <1>1, <1>5, OtpExpiry
<1>6. CASE UNCHANGED vars
  <2>1. \A d \in Callers : OtpGoesOn(calls[d], calls'[d])
      BY <1>1, <1>6, OtpStands DEF vars
  <2>2. QED
      BY <1>1, <1>6, <2>1, OtpKeeps, ResetStands DEF vars
<1>7. QED
    BY <1>2, <1>3, <1>4, <1>5, <1>6 DEF Next

\* A code that no two verifications were about at the same time signs in once at most,
\* and is refused no more often than there are attempts, for any number of callers,
\* codes and failures (passwordResetOtpService.ts verifyOtp).
THEOREM CodesAreSpent == Spec => []CodeIsSpent
<1>1. OtpInv => CodeIsSpent
    BY DEF OtpInv, CodeSpent, CodeIsSpent
<1>2. Inv /\ OtpInv /\ [Next]_vars => (Inv /\ OtpInv)'
    BY InvStep, OtpNext
<1>3. Init => Inv /\ OtpInv
    BY InvInit, OtpInit
<1>4. QED
    BY <1>1, <1>2, <1>3, PTL DEF Spec
=============================================================================
