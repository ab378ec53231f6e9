------------------------------- MODULE Sessions -------------------------------
(***************************************************************************)
(* Signing in: password, one-time code, refresh tokens (utils/otp.js, the  *)
(* auth controllers of users and of platform administrators).              *)
(*                                                                         *)
(* No statement here is part of a transaction: a code is read, counted,    *)
(* compared and marked used one statement after the other, and a refresh   *)
(* token is read, deleted and replaced in the same way.                    *)
(***************************************************************************)
EXTENDS Server, FiniteSets, Naturals, Sequences

CONSTANTS
  MaxTries,       \* MAX_ATTEMPTS
  MaxCodes,       \* bound: codes issued
  Tokens          \* refresh tokens that are ever signed

ASSUME SessionsAssumption ==
  MaxTries \in Nat \ {0} /\ MaxCodes \in Nat \ {0} /\ IsFiniteSet(Requests)

VARIABLES
  who,            \* which kind of identity signs in; it does not change
  mayEnter,       \* the account is active, and so is a linked employee
  codes,          \* login_otps of the identity, oldest first
  tokens          \* refresh_tokens: not signed yet, stored, or deleted

sessionVars == <<who, mayEnter, codes, tokens>>

Identities == {"user", "admin"}

CodeRows == [state : {"live", "expired", "used"}, attempts : Nat, opened : Nat]

SessionRequests ==
  [kind : {"issue"}, step : {"clear", "retire", "insert", "mail"}]
    \union [kind : {"consume"}, code : Nat, right : BOOLEAN, step : {"spend", "count", "compare", "mark"}]
    \union [kind : {"enter"}, may : BOOLEAN]
    \union [kind : {"refresh"}, token : Tokens]

SessionsTypeOK ==
  /\ who \in Identities
  /\ mayEnter \in BOOLEAN
  /\ codes \in Seq(CodeRows)
  /\ tokens \in [Tokens -> {"new", "stored", "gone"}]
  /\ request \in [Requests -> {Idle} \union SessionRequests]

SessionsInit ==
  /\ who \in Identities
  /\ mayEnter = TRUE
  /\ codes = <<>>
  /\ tokens = [t \in Tokens |-> "new"]

----------------------------------------------------------------------------
\* updateUser and the other pages that deactivate accounts and employees.
ToggleAccount ==
  /\ mayEnter' = ~mayEnter
  /\ UNCHANGED <<who, codes, tokens, request>>

\* A code outlives OTP_EXPIRY_MINUTES.
CodeExpires(c) ==
  /\ codes[c].state = "live"
  /\ codes' = [codes EXCEPT ![c].state = "expired"]
  /\ UNCHANGED <<who, mayEnter, tokens, request>>

----------------------------------------------------------------------------
\* Issuing a code

Unused(c) == codes[c].state # "used"

\* UPDATE login_otps SET used_at=NOW() WHERE ... used_at IS NULL
invalidateOtps == [c \in DOMAIN codes |-> [codes[c] EXCEPT !.state = "used"]]

IssueCode(h, identity) ==
  /\ who = identity
  /\ mayEnter
  /\ Begin(h, [kind |-> "issue", step |-> "clear"])
  /\ UNCHANGED sessionVars

UserLogin(h)  == IssueCode(h, "user")
AdminLogin(h) == IssueCode(h, "admin")

\* resendOtp asks for no password and serves both kinds of identity.
ResendCode(h) == \E identity \in Identities : IssueCode(h, identity)

\* issueOtp invalidates; storeOtp does it once more, and inserts.
IssueRetire(h) ==
  /\ Doing(h, "issue") /\ request[h].step \in {"clear", "retire"}
  /\ codes' = invalidateOtps
  /\ Go(h, [request[h] EXCEPT !.step = IF @ = "clear" THEN "retire" ELSE "insert"])
  /\ UNCHANGED <<who, mayEnter, tokens>>

IssueInsert(h) ==
  /\ Doing(h, "issue") /\ request[h].step = "insert"
  /\ Len(codes) < MaxCodes
  /\ codes' = Append(codes, [state |-> "live", attempts |-> 0, opened |-> 0])
  /\ Go(h, [request[h] EXCEPT !.step = "mail"])
  /\ UNCHANGED <<who, mayEnter, tokens>>

\* The mail is sent, or whatever code is unused is withdrawn.
IssueMail(h, sent) ==
  /\ Doing(h, "issue") /\ request[h].step = "mail"
  /\ codes' = IF sent THEN codes ELSE invalidateOtps
  /\ End(h)
  /\ UNCHANGED <<who, mayEnter, tokens>>

----------------------------------------------------------------------------
\* Consuming a code

Latest(c) == Unused(c) /\ \A d \in DOMAIN codes : d > c => ~Unused(d)

\* Mutant: attempts are not looked at.
SpentNever(c) == codes[c].state = "expired"

Spent(c) == codes[c].state = "expired" \/ codes[c].attempts >= MaxTries

\* The SELECT of the latest unused code, and what its row says.
ConsumeRead(h, c, right) ==
  /\ c \in DOMAIN codes /\ Latest(c)
  /\ Begin(h, [kind |-> "consume", code |-> c, right |-> right,
               step |-> IF Spent(c) THEN "spend" ELSE "count"])
  /\ UNCHANGED sessionVars

ConsumeSpend(h) ==
  /\ Doing(h, "consume") /\ request[h].step = "spend"
  /\ codes' = [codes EXCEPT ![request[h].code].state = "used"]
  /\ End(h)
  /\ UNCHANGED <<who, mayEnter, tokens>>

ConsumeCount(h) ==
  /\ Doing(h, "consume") /\ request[h].step = "count"
  /\ codes' = [codes EXCEPT ![request[h].code].attempts = @ + 1]
  /\ Go(h, [request[h] EXCEPT !.step = "compare"])
  /\ UNCHANGED <<who, mayEnter, tokens>>

ConsumeCompare(h) ==
  /\ Doing(h, "consume") /\ request[h].step = "compare"
  /\ IF request[h].right THEN Go(h, [request[h] EXCEPT !.step = "mark"]) ELSE End(h)
  /\ UNCHANGED sessionVars

ConsumeMark(h) ==
  /\ Doing(h, "consume") /\ request[h].step = "mark"
  /\ codes' = [codes EXCEPT ![request[h].code].state = "used",
                            ![request[h].code].opened = @ + 1]
  /\ Go(h, [kind |-> "enter", may |-> mayEnter])
  /\ UNCHANGED <<who, mayEnter, tokens>>

----------------------------------------------------------------------------
\* Refresh tokens

storeRefreshToken(t) == tokens[t] = "new" /\ tokens' = [tokens EXCEPT ![t] = "stored"]

\* verifyOtp and adminVerifyOtp after the code: the account as it was read.
Enter(h, t) ==
  /\ Doing(h, "enter")
  /\ IF request[h].may THEN storeRefreshToken(t) ELSE UNCHANGED tokens
  /\ End(h)
  /\ UNCHANGED <<who, mayEnter, codes>>

\* loginUser signs in by password alone.
LoginWithoutCode(h) ==
  /\ who = "user" /\ mayEnter
  /\ Begin(h, [kind |-> "enter", may |-> TRUE])
  /\ UNCHANGED sessionVars

RefreshVerify(h, t) ==
  /\ tokens[t] = "stored"
  /\ Begin(h, [kind |-> "refresh", token |-> t])
  /\ UNCHANGED sessionVars

\* DELETE, then the account; the caller that is refused has lost its token.
RefreshRevoke(h) ==
  /\ Doing(h, "refresh")
  /\ tokens' = [tokens EXCEPT ![request[h].token] = "gone"]
  /\ Go(h, [kind |-> "enter", may |-> mayEnter])
  /\ UNCHANGED <<who, mayEnter, codes>>

Logout(t) ==
  /\ tokens[t] = "stored"
  /\ tokens' = [tokens EXCEPT ![t] = "gone"]
  /\ UNCHANGED <<who, mayEnter, codes, request>>

SessionsNext ==
  \/ ToggleAccount
  \/ \E c \in DOMAIN codes : CodeExpires(c)
  \/ \E t \in Tokens : Logout(t)
  \/ \E h \in Requests :
       \/ UserLogin(h) \/ AdminLogin(h) \/ ResendCode(h)
       \/ IssueRetire(h) \/ IssueInsert(h)
       \/ \E sent \in BOOLEAN : IssueMail(h, sent)
       \/ \E c \in DOMAIN codes, right \in BOOLEAN : ConsumeRead(h, c, right)
       \/ ConsumeSpend(h) \/ ConsumeCount(h) \/ ConsumeCompare(h) \/ ConsumeMark(h)
       \/ \E t \in Tokens : Enter(h, t) \/ RefreshVerify(h, t)
       \/ LoginWithoutCode(h) \/ RefreshRevoke(h)
       \/ Abandon(h) /\ UNCHANGED sessionVars

SessionsSpec ==
  ServerInit /\ SessionsInit /\ [][SessionsNext]_<<request, sessionVars>>

----------------------------------------------------------------------------
\* A code at its limit: consumeOtp reads attempts before it counts one more,
\* so requests that read together may pass the limit together, but never more
\* of them than are in progress at once; nor does a right code that several
\* requests have read open the account more often than that.
CodeHasLimits ==
  \A c \in DOMAIN codes :
    /\ codes[c].attempts < MaxTries + Cardinality(Requests)
    /\ codes[c].opened <= Cardinality(Requests)
============================================================================
