-------------------------------- MODULE Accounts --------------------------------
(***************************************************************************)
(* Accounts, credentials, mailed tokens and sessions                       *)
(* (apps/api/src/auth), and the suspension of a user by moderation.  A     *)
(* user is named by the normalised e-mail address, which is unique.  No    *)
(* handler here runs in a transaction: each read and each write of its     *)
(* repository calls is a step.  That a token or a session expires only     *)
(* disables what need not happen anyway, so expiry is left out.  A request *)
(* whose process dies is one that takes no more steps.  GoogleSignIn adds  *)
(* the other way in and holds the specification.                           *)
(***************************************************************************)
EXTENDS Naturals

CONSTANTS
  Email,     \* normalised e-mail addresses, each with at most one user
  Token,     \* rows of verification_tokens that may come to exist
  Identity,  \* Google subjects
  Handler,   \* API requests in flight at one time
  None,      \* NULL
  MaxEra     \* bound on the password changes and suspensions of one user

ASSUME AccountsAssumption ==
  /\ None \notin Email /\ None \notin Identity
  /\ MaxEra \in Nat

VARIABLES
  status,    \* users.status, "NONE" before the insert
  password,  \* users with a row in password_credentials
  verified,  \* users whose emailVerifiedAt is set
  token,     \* verification_tokens: user and purpose, None without a row
  used,      \* tokens that were ever created
  session,   \* the live rows of sessions
  era,       \* how often the user's sessions were to be revoked (history)
  mem        \* what each handler in flight remembers

userVars == <<status, password, verified>>
tokenVars == <<token, used>>
accountVars == <<userVars, tokenVars, session, era>>

Status == {"ACTIVE", "SUSPENDED"}
Purpose == {"EMAIL_VERIFICATION", "PASSWORD_RESET"}
TokenRow == [user : Email, purpose : Purpose]

(* A session remembers the era it was issued in, as createdAt would, and   *)
(* the identity it was issued to, None for a password.                     *)
Session == [user : Email, era : Nat, by : Identity \cup {None}]

Idle == [at |-> "idle"]
IssueMem  == [at : {"issueSession"}, user : Email, by : Identity \cup {None}]
TokenMem  == [at : {"replaceTokens", "createToken", "markEmailVerified", "updatePassword",
                    "deleteTokens"}, user : Email, purpose : Purpose]
RevokeMem == [at : {"revokeAllSessions"}, user : Email]
AccountMem == {Idle} \cup IssueMem \cup TokenMem \cup RevokeMem

AccountsTypeOK ==
  /\ status \in [Email -> Status \cup {"NONE"}]
  /\ password \subseteq Email
  /\ verified \subseteq Email
  /\ token \in [Token -> TokenRow \cup {None}]
  /\ used \subseteq Token
  /\ session \subseteq Session
  /\ era \in [Email -> Nat]

---------------------------------------------------------------------------
Remember(h, r) == mem' = [mem EXCEPT ![h] = r]
Finish(h) == Remember(h, Idle)
Goto(h, stage) == Remember(h, [mem[h] EXCEPT !.at = stage])

AccountsInit ==
  /\ status = [e \in Email |-> "NONE"]
  /\ password = {}
  /\ verified = {}
  /\ token = [t \in Token |-> None]
  /\ used = {}
  /\ session = {}
  /\ era = [e \in Email |-> 0]
  /\ mem = [h \in Handler |-> Idle]

---------------------------------------------------------------------------
(* Registration and sign-in *)

(* register: createPlayer inserts user and credential together and fails   *)
(* on a used address; then the verification mail is requested.             *)
Register(h, e) ==
  /\ mem[h] = Idle
  /\ status[e] = "NONE"
  /\ status' = [status EXCEPT ![e] = "ACTIVE"]
  /\ password' = password \cup {e}
  /\ Remember(h, [at |-> "replaceTokens", user |-> e, purpose |-> "EMAIL_VERIFICATION"])
  /\ UNCHANGED <<verified, tokenVars, session, era>>

(* login: one read of the user and the credential, then argon2 verifies.   *)
CheckPassword(h, e) ==
  /\ mem[h] = Idle
  /\ e \in password /\ status[e] = "ACTIVE"
  /\ Remember(h, [at |-> "issueSession", user |-> e, by |-> None])
  /\ UNCHANGED accountVars

IssueSession(h) ==
  /\ mem[h].at = "issueSession"
  /\ session' = session \cup {[user |-> mem[h].user, era |-> era[mem[h].user], by |-> mem[h].by]}
  /\ Finish(h)
  /\ UNCHANGED <<userVars, tokenVars, era>>

(* findSessionUser: what the guard lets through.                           *)
Resolves(s) == s \in session /\ status[s.user] = "ACTIVE"

(* logout *)
RevokeSession(s) ==
  /\ Resolves(s)
  /\ session' = session \ {s}
  /\ UNCHANGED <<userVars, tokenVars, era, mem>>

---------------------------------------------------------------------------
(* Mailed tokens *)

(* requestEmailVerificationByEmail, requestPasswordReset: the read.        *)
RequestToken(h, e, p) ==
  /\ mem[h] = Idle
  /\ IF p = "PASSWORD_RESET" THEN status[e] = "ACTIVE"
                             ELSE status[e] # "NONE" /\ e \notin verified
  /\ Remember(h, [at |-> "replaceTokens", user |-> e, purpose |-> p])
  /\ UNCHANGED accountVars

(* deleteTokensFor the user and purpose at hand.                           *)
DeleteTokens(h) ==
  token' = [t \in Token |-> IF token[t] = [user |-> mem[h].user, purpose |-> mem[h].purpose]
                            THEN None ELSE token[t]]

ReplaceTokens(h) ==
  /\ mem[h].at = "replaceTokens"
  /\ DeleteTokens(h)
  /\ Goto(h, "createToken")
  /\ UNCHANGED <<userVars, used, session, era>>

CreateToken(h, t) ==
  /\ mem[h].at = "createToken"
  /\ t \notin used
  /\ token' = [token EXCEPT ![t] = [user |-> mem[h].user, purpose |-> mem[h].purpose]]
  /\ used' = used \cup {t}
  /\ Finish(h)
  /\ UNCHANGED <<userVars, session, era>>

(* verifyEmail and resetPassword find the token; the reset also finds its  *)
(* user, whatever the status.                                              *)
FindToken(h, t) ==
  /\ mem[h] = Idle
  /\ token[t] # None
  /\ Remember(h, [at |-> IF token[t].purpose = "PASSWORD_RESET" THEN "updatePassword"
                                                              ELSE "markEmailVerified",
                  user |-> token[t].user, purpose |-> token[t].purpose])
  /\ UNCHANGED accountVars

MarkEmailVerified(h) ==
  /\ mem[h].at = "markEmailVerified"
  /\ verified' = verified \cup {mem[h].user}
  /\ Goto(h, "deleteTokens")
  /\ UNCHANGED <<status, password, tokenVars, session, era>>

(* updatePassword: an upsert, so a Google user gets a password by it.      *)
UpdatePassword(h) ==
  /\ mem[h].at = "updatePassword"
  /\ era[mem[h].user] < MaxEra
  /\ password' = password \cup {mem[h].user}
  /\ era' = [era EXCEPT ![mem[h].user] = @ + 1]
  /\ Goto(h, "deleteTokens")
  /\ UNCHANGED <<status, verified, tokenVars, session>>

(* The token goes; a reset still has the sessions to revoke.               *)
DeleteUsedTokens(h) ==
  /\ mem[h].at = "deleteTokens"
  /\ DeleteTokens(h)
  /\ IF mem[h].purpose = "PASSWORD_RESET"
     THEN Remember(h, [at |-> "revokeAllSessions", user |-> mem[h].user])
     ELSE Finish(h)
  /\ UNCHANGED <<userVars, used, session, era>>

(* session.deleteMany of the user.                                         *)
RevokeAllSessions(h) ==
  /\ mem[h].at = "revokeAllSessions"
  /\ session' = {s \in session : s.user # mem[h].user}
  /\ Finish(h)
  /\ UNCHANGED <<userVars, tokenVars, era>>

---------------------------------------------------------------------------
(* Moderation *)

(* Mutant: the suspension leaves the sessions alone.                       *)
SuspendOnly(h, e) ==
  /\ mem[h] = Idle
  /\ status[e] # "NONE"
  /\ era[e] < MaxEra
  /\ status' = [status EXCEPT ![e] = "SUSPENDED"]
  /\ era' = [era EXCEPT ![e] = @ + 1]
  /\ UNCHANGED <<password, verified, tokenVars, session, mem>>

(* setSubjectSuspended(USER, true): the status first, then the sessions.   *)
SuspendUser(h, e) ==
  /\ mem[h] = Idle
  /\ status[e] # "NONE"
  /\ era[e] < MaxEra
  /\ status' = [status EXCEPT ![e] = "SUSPENDED"]
  /\ era' = [era EXCEPT ![e] = @ + 1]
  /\ Remember(h, [at |-> "revokeAllSessions", user |-> e])
  /\ UNCHANGED <<password, verified, tokenVars, session>>

ReinstateUser(e) ==
  /\ status[e] # "NONE"
  /\ status' = [status EXCEPT ![e] = "ACTIVE"]
  /\ UNCHANGED <<password, verified, tokenVars, session, era, mem>>

AccountsStep(h) ==
  \/ \E e \in Email : Register(h, e) \/ CheckPassword(h, e) \/ SuspendUser(h, e)
  \/ \E e \in Email, p \in Purpose : RequestToken(h, e, p)
  \/ \E t \in Token : CreateToken(h, t) \/ FindToken(h, t)
  \/ IssueSession(h) \/ ReplaceTokens(h) \/ MarkEmailVerified(h) \/ UpdatePassword(h)
  \/ DeleteUsedTokens(h) \/ RevokeAllSessions(h)

AccountsNext ==
  \/ \E h \in Handler : AccountsStep(h)
  \/ \E s \in session : RevokeSession(s)
  \/ \E e \in Email : ReinstateUser(e)

---------------------------------------------------------------------------
(* A session that is older than a password reset or a suspension of its    *)
(* user exists only while that request has its last write before it: one   *)
(* whose process died in between leaves such sessions, nothing else does.  *)
OldSessionsAreBeingRevoked ==
  \A s \in session : s.era < era[s.user] =>
    \E h \in Handler :
      /\ mem[h].at \in {"deleteTokens", "revokeAllSessions"}
      /\ mem[h].user = s.user
=============================================================================
