------------------------------- MODULE Identity --------------------------------
(***************************************************************************)
(* Who asks: the sessions of users and agents, the one-time codes, and the *)
(* opening of accounts.  The three share no state, so their interleavings  *)
(* show nothing: each behaviour is one of focus.                           *)
(***************************************************************************)
EXTENDS Sessions

CONSTANTS
  Emails,                                          \* of Otp and Signup
  NoEmail, Codes, CodeIds, Registered, Life, Delay, MaxTime, MaxValidations, \* of Otp
  Bvns, Passports, Phones, Holders, Accounts                \* of Signup

\* OTP_EXPIRY_MINUTES is passed to Redis as the life of a key, which must be positive.
ASSUME OtpAssumption ==
  /\ Life \in Nat \ {0}
  /\ Delay \in Nat
  /\ Nil \notin Codes

VARIABLES
  focus,
  now, row, mailKey, codeKey, verified, otpReq, otpCalls, answer,
  account, signup, signupReq, signupCalls, examined, made

O == INSTANCE Otp WITH
  Rows <- CodeIds, MaxCalls <- MaxValidations,
  req <- otpReq, calls <- otpCalls

G == INSTANCE Signup WITH
  Users <- Accounts,
  user <- account, token <- signup, req <- signupReq, calls <- signupCalls

otpVars == <<now, row, mailKey, codeKey, verified, otpReq, otpCalls, answer>>
signupVars == <<account, signup, signupReq, signupCalls, examined, made>>

IdentityInit ==
  /\ focus \in {"sessions", "otp", "signup"}
  /\ Init /\ O!Init /\ G!Init
  /\ focus = "sessions" \/ user = [u \in Users |-> Customer]

IdentityNext ==
  /\ UNCHANGED focus
  /\ \/ focus = "sessions" /\ Next /\ UNCHANGED <<otpVars, signupVars>>
     \/ focus = "otp" /\ O!Next /\ UNCHANGED <<vars, signupVars>>
     \/ focus = "signup" /\ G!Next /\ UNCHANGED <<vars, otpVars>>

IdentitySpec == IdentityInit /\ [][IdentityNext]_<<focus, vars, otpVars, signupVars>>

\* The properties of the instances, stated in their modules.
AcceptedWasSent == O!AcceptedWasSent
VerifiedWasExamined == G!VerifiedWasExamined
SessionMakesOne == G!SessionMakesOne
=============================================================================
