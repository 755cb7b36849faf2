---------------------------- MODULE GoogleSignInProofs ----------------------------
(* Proofs about GoogleSignIn, and the Accounts in it, for every value of   *)
(* their constants.                                                        *)
EXTENDS GoogleSignIn, TLAPS

(* Who has a revocation before him: a request past its password, or past   *)
(* its suspension.                                                         *)
Revoking(h, e) ==
  /\ mem[h].user = e
  /\ \/ mem[h].at = "revokeAllSessions"
     \/ mem[h].at = "deleteTokens" /\ mem[h].purpose = "PASSWORD_RESET"

OldSessionsHaveARevoker ==
  \A s \in session : s.era < era[s.user] => \E h \in Handler : Revoking(h, s.user)

ResetsAreResets ==
  \A h \in Handler : mem[h].at = "updatePassword" => mem[h].purpose = "PASSWORD_RESET"

IInv ==
  /\ TypeOK
  /\ ResetsAreResets
  /\ OldSessionsHaveARevoker
  /\ AttemptUsedOnce
  /\ IdentityOpensOneAccount
  /\ AccountsCanBeOpened

Memory == AccountMem \cup ConsumeMem \cup LinkMem

LEMMA InitIInv == Init => IInv
<1> SUFFICES ASSUME Init PROVE IInv
  OBVIOUS
<1> USE DEF Init, AccountsInit
<1>1. TypeOK
  BY DEF TypeOK, AccountsTypeOK, AccountMem
<1>2. \A h \in Handler : mem[h].at = "idle"
  BY DEF Idle
<1>3. QED
  BY <1>1, <1>2 DEF IInv, ResetsAreResets, OldSessionsHaveARevoker, AttemptUsedOnce,
                    IdentityOpensOneAccount, AccountsCanBeOpened

(* The kind of a handler's memory is told by where the handler is.         *)
LEMMA WhatHandlersHold ==
  ASSUME TypeOK, NEW h \in Handler
  PROVE  /\ mem[h].at = "issueSession" => mem[h] \in IssueMem
         /\ mem[h].at \in {"replaceTokens", "createToken", "markEmailVerified", "updatePassword",
                           "deleteTokens"} => mem[h] \in TokenMem
         /\ mem[h].at = "revokeAllSessions" => mem[h] \in RevokeMem
         /\ mem[h].at \in {"deleteAttempt", "exchangeCode"} => mem[h] \in ConsumeMem
         /\ mem[h].at \in {"readLink", "commitLink"} => mem[h] \in LinkMem
<1>1. mem[h] \in {Idle} \cup IssueMem \cup TokenMem \cup RevokeMem \cup ConsumeMem \cup LinkMem
  BY DEF TypeOK, AccountMem
<1>2. mem[h] \in {Idle} => mem[h].at = "idle"
  BY DEF Idle
<1>3. mem[h] \in IssueMem => mem[h].at = "issueSession"
  BY DEF IssueMem
<1>4. mem[h] \in TokenMem => mem[h].at \in {"replaceTokens", "createToken", "markEmailVerified",
                                            "updatePassword", "deleteTokens"}
  BY DEF TokenMem
<1>5. mem[h] \in RevokeMem => mem[h].at = "revokeAllSessions"
  BY DEF RevokeMem
<1>6. mem[h] \in ConsumeMem => mem[h].at \in {"deleteAttempt", "exchangeCode"}
  BY DEF ConsumeMem
<1>7. mem[h] \in LinkMem => mem[h].at \in {"readLink", "commitLink"}
  BY DEF LinkMem
<1>8. QED
  BY <1>1, <1>2, <1>3, <1>4, <1>5, <1>6, <1>7

LEMMA RememberTyped ==
  ASSUME TypeOK, NEW h \in Handler, NEW m \in Memory, Remember(h, m)
  PROVE  mem' \in [Handler -> Memory]
BY DEF TypeOK, Remember, Memory

LEMMA IdleIsMemory == Idle \in Memory
BY DEF Memory, AccountMem

LEMMA TypeKept ==
  ASSUME TypeOK, UNCHANGED <<accountVars, googleVars>>, mem' \in [Handler -> Memory]
  PROVE  TypeOK'
BY DEF TypeOK, AccountsTypeOK, accountVars, userVars, tokenVars, googleVars, Memory

LEMMA AccountsStepTypeOK ==
  ASSUME TypeOK, NEW h \in Handler, AccountsStep(h), UNCHANGED googleVars
  PROVE  TypeOK'
<1> USE DEF TypeOK, AccountsTypeOK, userVars, tokenVars, googleVars, Memory
<1>1. ASSUME NEW e \in Email, Register(h, e)
      PROVE  TypeOK'
  <2>1. [at |-> "replaceTokens", user |-> e, purpose |-> "EMAIL_VERIFICATION"] \in Memory
    BY DEF AccountMem, TokenMem, Purpose
  <2>2. mem' \in [Handler -> Memory]
    BY <1>1, <2>1, RememberTyped DEF Register
  <2>3. QED
    BY <1>1, <2>2 DEF Register, Status
<1>2. ASSUME NEW e \in Email, CheckPassword(h, e)
      PROVE  TypeOK'
  <2>1. [at |-> "issueSession", user |-> e, by |-> None] \in Memory
    BY DEF AccountMem, IssueMem
  <2>2. mem' \in [Handler -> Memory]
    BY <1>2, <2>1, RememberTyped DEF CheckPassword
  <2>3. QED
    BY <1>2, <2>2, TypeKept DEF CheckPassword
<1>3. ASSUME NEW e \in Email, SuspendUser(h, e)
      PROVE  TypeOK'
  <2>1. [at |-> "revokeAllSessions", user |-> e] \in Memory
    BY DEF AccountMem, RevokeMem
  <2>2. mem' \in [Handler -> Memory]
    BY <1>3, <2>1, RememberTyped DEF SuspendUser
  <2>3. QED
    BY <1>3, <2>2 DEF SuspendUser, Status
<1>4. ASSUME NEW e \in Email, NEW p \in Purpose, RequestToken(h, e, p)
      PROVE  TypeOK'
  <2>1. [at |-> "replaceTokens", user |-> e, purpose |-> p] \in Memory
    BY DEF AccountMem, TokenMem
  <2>2. mem' \in [Handler -> Memory]
    BY <1>4, <2>1, RememberTyped DEF RequestToken
  <2>3. QED
    BY <1>4, <2>2, TypeKept DEF RequestToken
<1>5. ASSUME NEW t \in Token, CreateToken(h, t)
      PROVE  TypeOK'
  <2>1. [user |-> mem[h].user, purpose |-> mem[h].purpose] \in TokenRow
    BY <1>5, WhatHandlersHold DEF CreateToken, TokenMem, TokenRow
  <2>2. mem' \in [Handler -> Memory]
    BY <1>5, IdleIsMemory, RememberTyped DEF CreateToken, Finish
  <2>3. QED
    BY <1>5, <2>1, <2>2 DEF CreateToken
<1>6. ASSUME NEW t \in Token, FindToken(h, t)
      PROVE  TypeOK'
  <2>1. token[t] \in TokenRow
    BY <1>6 DEF FindToken
  <2>2. [at |-> IF token[t].purpose = "PASSWORD_RESET" THEN "updatePassword"
                                                      ELSE "markEmailVerified",
         user |-> token[t].user, purpose |-> token[t].purpose] \in Memory
    BY <2>1 DEF TokenRow, AccountMem, TokenMem
  <2>3. mem' \in [Handler -> Memory]
    BY <1>6, <2>2, RememberTyped DEF FindToken
  <2>4. QED
    BY <1>6, <2>3, TypeKept DEF FindToken
<1>7. CASE IssueSession(h)
  <2>1. mem[h] \in IssueMem
    BY <1>7, WhatHandlersHold DEF IssueSession
  <2>2. [user |-> mem[h].user, era |-> era[mem[h].user], by |-> mem[h].by] \in Session
    BY <2>1 DEF IssueMem, Session
  <2>3. mem' \in [Handler -> Memory]
    BY <1>7, IdleIsMemory, RememberTyped DEF IssueSession, Finish
  <2>4. QED
    BY <1>7, <2>2, <2>3 DEF IssueSession
<1>8. ASSUME DeleteTokens(h)
      PROVE  token' \in [Token -> TokenRow \cup {None}]
  BY <1>8 DEF DeleteTokens
<1>9. ASSUME mem[h] \in TokenMem, NEW stage \in {"createToken", "deleteTokens"}, Goto(h, stage)
      PROVE  mem' \in [Handler -> Memory]
  <2>1. [mem[h] EXCEPT !.at = stage] \in Memory
    BY <1>9 DEF AccountMem, TokenMem
  <2>2. QED
    BY <1>9, <2>1, RememberTyped DEF Goto
<1>10. CASE ReplaceTokens(h)
  <2>1. mem' \in [Handler -> Memory]
    BY <1>9, <1>10, WhatHandlersHold DEF ReplaceTokens
  <2>2. QED
    BY <1>8, <1>10, <2>1 DEF ReplaceTokens
<1>11. CASE MarkEmailVerified(h)
  <2>1. mem[h] \in TokenMem
    BY <1>11, WhatHandlersHold DEF MarkEmailVerified
  <2>2. mem' \in [Handler -> Memory]
    BY <1>9, <1>11, <2>1 DEF MarkEmailVerified
  <2>3. QED
    BY <1>11, <2>1, <2>2 DEF MarkEmailVerified, TokenMem
<1>12. CASE UpdatePassword(h)
  <2>1. mem[h] \in TokenMem
    BY <1>12, WhatHandlersHold DEF UpdatePassword
  <2>2. mem' \in [Handler -> Memory]
    BY <1>9, <1>12, <2>1 DEF UpdatePassword
  <2>3. era' \in [Email -> Nat]
    BY <1>12, <2>1 DEF UpdatePassword, TokenMem
  <2>4. QED
    BY <1>12, <2>1, <2>2, <2>3 DEF UpdatePassword, TokenMem
<1>13. CASE DeleteUsedTokens(h)
  <2>1. [at |-> "revokeAllSessions", user |-> mem[h].user] \in Memory
    BY <1>13, WhatHandlersHold DEF DeleteUsedTokens, TokenMem, AccountMem, RevokeMem
  <2>2. mem' \in [Handler -> Memory]
    BY <1>13, <2>1, IdleIsMemory, RememberTyped DEF DeleteUsedTokens, Finish
  <2>3. QED
    BY <1>8, <1>13, <2>2 DEF DeleteUsedTokens
<1>14. CASE RevokeAllSessions(h)
  <2>1. mem' \in [Handler -> Memory]
    BY <1>14, IdleIsMemory, RememberTyped DEF RevokeAllSessions, Finish
  <2>2. QED
    BY <1>14, <2>1 DEF RevokeAllSessions
<1>15. QED
  BY <1>1, <1>2, <1>3, <1>4, <1>5, <1>6, <1>7, <1>10, <1>11, <1>12, <1>13, <1>14 DEF AccountsStep

LEMMA GoogleStepTypeOK ==
  ASSUME TypeOK, NEW h \in Handler, GoogleStep(h)
  PROVE  TypeOK'
<1> USE DEF TypeOK, AccountsTypeOK, userVars, tokenVars, accountVars, googleVars, Memory
<1>1. ASSUME NEW a \in Attempt, FindAttempt(h, a)
      PROVE  TypeOK'
  <2>1. [at |-> "deleteAttempt", attempt |-> a] \in Memory
    BY DEF ConsumeMem
  <2>2. mem' \in [Handler -> Memory]
    BY <1>1, <2>1, RememberTyped DEF FindAttempt
  <2>3. QED
    BY <1>1, <2>2, TypeKept DEF FindAttempt
<1>2. CASE DeleteAttempt(h)
  <2>1. mem[h] \in ConsumeMem
    BY <1>2, WhatHandlersHold DEF DeleteAttempt
  <2>2. [mem[h] EXCEPT !.at = "exchangeCode"] \in Memory
    BY <2>1 DEF ConsumeMem
  <2>3. mem' \in [Handler -> Memory]
    BY <1>2, <2>2, IdleIsMemory, RememberTyped DEF DeleteAttempt, Goto, Finish
  <2>4. QED
    BY <1>2, <2>3 DEF DeleteAttempt
<1>3. ASSUME NEW i \in Identity, NEW e \in Email, ExchangeCode(h, i, e)
      PROVE  TypeOK'
  <2>1. mem[h].attempt \in Attempt
    BY <1>3, WhatHandlersHold DEF ExchangeCode, ConsumeMem
  <2>2. [at |-> "readLink", attempt |-> mem[h].attempt, identity |-> i, user |-> e,
         saw |-> "NONE", retried |-> FALSE] \in LinkMem
    BY <2>1 DEF LinkMem
  <2>3. mem' \in [Handler -> Memory]
    BY <1>3, <2>2, RememberTyped DEF ExchangeCode
  <2>4. QED
    BY <1>3, <2>3, TypeKept DEF ExchangeCode
<1>4. ASSUME NEW e \in Email, NEW read, mem[h].identity \in Identity, SignIn(h, e, read)
      PROVE  mem' \in [Handler -> Memory]
  <2>1. [at |-> "issueSession", user |-> e, by |-> mem[h].identity] \in Memory
    BY <1>4 DEF AccountMem, IssueMem
  <2>2. QED
    BY <1>4, <2>1, IdleIsMemory, RememberTyped DEF SignIn, Finish
<1>5. CASE ReadLink(h)
  <2>1. mem[h] \in LinkMem
    BY <1>5, WhatHandlersHold DEF ReadLink
  <2>2. mem[h].identity \in Identity /\ mem[h].user \in Email
    BY <2>1 DEF LinkMem
  <2>3. CASE link[mem[h].identity] # None
    <3>1. mem' \in [Handler -> Memory]
      BY <1>4, <1>5, <2>2, <2>3 DEF ReadLink
    <3>2. QED
      BY <1>5, <3>1, TypeKept DEF ReadLink
  <2>4. CASE link[mem[h].identity] = None
    <3>1. [mem[h] EXCEPT !.at = "commitLink", !.saw = status[mem[h].user]] \in LinkMem
      BY <2>1, <2>2 DEF LinkMem
    <3>2. mem' \in [Handler -> Memory]
      BY <1>5, <2>4, <3>1, RememberTyped DEF ReadLink
    <3>3. QED
      BY <1>5, <3>2, TypeKept DEF ReadLink
  <2>5. QED
    BY <2>3, <2>4
<1>6. CASE CommitLink(h)
  <2>1. mem[h] \in LinkMem
    BY <1>6, WhatHandlersHold DEF CommitLink
  <2>2. mem[h].identity \in Identity /\ mem[h].user \in Email
    BY <2>1 DEF LinkMem
  <2>3. CASE Conflict(h)
    <3>1. [mem[h] EXCEPT !.at = "readLink", !.retried = TRUE] \in LinkMem
      BY <2>1 DEF LinkMem
    <3>2. mem' \in [Handler -> Memory]
      BY <1>6, <2>3, <3>1, IdleIsMemory, RememberTyped DEF CommitLink, Finish
    <3>3. QED
      BY <1>6, <2>3, <3>2 DEF CommitLink
  <2>4. CASE ~Conflict(h)
    <3>1. mem' \in [Handler -> Memory]
      BY <1>4, <1>6, <2>2, <2>4 DEF CommitLink
    <3>2. QED
      BY <1>6, <2>2, <2>4, <3>1 DEF CommitLink, CreatedUser, Status
  <2>5. QED
    BY <2>3, <2>4
<1>7. CASE Abandon(h)
  BY <1>7, IdleIsMemory, RememberTyped, TypeKept DEF Abandon, Finish
<1>8. QED
  BY <1>1, <1>2, <1>3, <1>5, <1>6, <1>7 DEF GoogleStep

LEMMA StepTypeOK == TypeOK /\ [Next]_vars => TypeOK'
<1> SUFFICES ASSUME TypeOK, [Next]_vars PROVE TypeOK'
  OBVIOUS
<1>1. CASE \E s \in session : RevokeSession(s) /\ UNCHANGED googleVars
  BY <1>1 DEF RevokeSession, TypeOK, AccountsTypeOK, userVars, tokenVars, googleVars
<1>2. CASE \E e \in Email : ReinstateUser(e) /\ UNCHANGED googleVars
  BY <1>2 DEF ReinstateUser, TypeOK, AccountsTypeOK, tokenVars, googleVars, Status
<1>3. CASE \E a \in Attempt : CreateAttempt(a)
  BY <1>3 DEF CreateAttempt, TypeOK, AccountsTypeOK, accountVars, userVars, tokenVars
<1>4. CASE UNCHANGED vars
  BY <1>4 DEF vars, TypeOK, AccountsTypeOK, accountVars, userVars, tokenVars, googleVars
<1>5. QED
  BY <1>1, <1>2, <1>3, <1>4, AccountsStepTypeOK, GoogleStepTypeOK DEF Next, AccountsNext

---------------------------------------------------------------------------
(* A request leaves the others' memory alone.                              *)
LEMMA OthersRemember ==
  ASSUME TypeOK, NEW h \in Handler, AccountsStep(h) \/ GoogleStep(h), NEW g \in Handler \ {h}
  PROVE  mem'[g] = mem[g]
<1>1. CASE AccountsStep(h)
  BY <1>1 DEF TypeOK, AccountsStep, Register, CheckPassword, SuspendUser, RequestToken, CreateToken,
              FindToken, IssueSession, ReplaceTokens, MarkEmailVerified, UpdatePassword,
              DeleteUsedTokens, RevokeAllSessions, Remember, Goto, Finish
<1>2. CASE GoogleStep(h)
  BY <1>2 DEF TypeOK, GoogleStep, FindAttempt, DeleteAttempt, ExchangeCode, ReadLink, CommitLink,
              Abandon, SignIn, Remember, Goto, Finish
<1>3. QED
  BY <1>1, <1>2

(* The stages a request reaches by a step with its own password or token.  *)
AccountStages == {"idle", "issueSession", "replaceTokens", "createToken", "markEmailVerified",
                  "updatePassword", "deleteTokens", "revokeAllSessions"}

LEMMA AccountsStepStage ==
  ASSUME TypeOK, NEW h \in Handler, AccountsStep(h)
  PROVE  /\ mem'[h].at \in AccountStages
         /\ mem'[h].at = "issueSession" => mem'[h].by = None
<1> USE DEF AccountStages
<1>0. mem \in [Handler -> Memory] /\ Idle.at = "idle"
  BY DEF TypeOK, Memory, Idle
<1>a. ASSUME NEW stage \in {"createToken", "deleteTokens"}, Goto(h, stage), mem[h] \in TokenMem
      PROVE  mem'[h].at = stage
  BY <1>0, <1>a DEF Goto, Remember, TokenMem
<1>1. CASE \E e \in Email : Register(h, e) \/ CheckPassword(h, e) \/ SuspendUser(h, e)
  BY <1>0, <1>1 DEF Register, CheckPassword, SuspendUser, Remember
<1>2. CASE \E e \in Email, p \in Purpose : RequestToken(h, e, p)
  BY <1>0, <1>2 DEF RequestToken, Remember
<1>3. CASE \E t \in Token : CreateToken(h, t) \/ FindToken(h, t)
  BY <1>0, <1>3 DEF CreateToken, FindToken, Finish, Remember
<1>4. CASE IssueSession(h) \/ RevokeAllSessions(h)
  BY <1>0, <1>4 DEF IssueSession, RevokeAllSessions, Finish, Remember
<1>5. CASE ReplaceTokens(h) \/ MarkEmailVerified(h) \/ UpdatePassword(h)
  BY <1>a, <1>5, WhatHandlersHold DEF ReplaceTokens, MarkEmailVerified, UpdatePassword
<1>6. CASE DeleteUsedTokens(h)
  BY <1>0, <1>6 DEF DeleteUsedTokens, Finish, Remember
<1>7. QED
  BY <1>1, <1>2, <1>3, <1>4, <1>5, <1>6 DEF AccountsStep

---------------------------------------------------------------------------
(* Attempts *)

UsesAttempt(h) == mem[h].at \in {"exchangeCode", "readLink", "commitLink"}

(* Who uses an attempt either used it before or has just deleted it.       *)
LEMMA GoogleStepUse ==
  ASSUME TypeOK, NEW h \in Handler, GoogleStep(h), UsesAttempt(h)'
  PROVE  \/ UsesAttempt(h) /\ mem'[h].attempt = mem[h].attempt /\ attempt' = attempt
         \/ /\ mem[h].at = "deleteAttempt" /\ mem'[h].attempt = mem[h].attempt
            /\ attempt[mem[h].attempt] = "STARTED"
            /\ attempt' = [attempt EXCEPT ![mem[h].attempt] = "GONE"]
<1>0. mem \in [Handler -> Memory] /\ Idle.at = "idle"
  BY DEF TypeOK, Memory, Idle
<1>a. ASSUME NEW e, NEW read, SignIn(h, e, read)
      PROVE  FALSE
  BY <1>0, <1>a DEF SignIn, Finish, Remember, UsesAttempt
<1>1. CASE \E a \in Attempt : FindAttempt(h, a)
  BY <1>0, <1>1 DEF FindAttempt, Remember, UsesAttempt
<1>2. CASE DeleteAttempt(h)
  <2>1. mem[h] \in ConsumeMem
    BY <1>2, WhatHandlersHold DEF DeleteAttempt
  <2>2. [mem[h] EXCEPT !.at = "exchangeCode"].attempt = mem[h].attempt
    BY <2>1 DEF ConsumeMem
  <2>3. QED
    BY <1>0, <1>2, <2>2 DEF DeleteAttempt, Goto, Finish, Remember, UsesAttempt
<1>3. CASE \E i \in Identity, e \in Email : ExchangeCode(h, i, e)
  BY <1>0, <1>3 DEF ExchangeCode, Remember, UsesAttempt, googleVars
<1>4. CASE ReadLink(h)
  <2>1. mem[h] \in LinkMem
    BY <1>4, WhatHandlersHold DEF ReadLink
  <2>2. [mem[h] EXCEPT !.at = "commitLink", !.saw = status[mem[h].user]].attempt = mem[h].attempt
    BY <2>1 DEF LinkMem
  <2>3. mem' = [mem EXCEPT ![h] = [mem[h] EXCEPT !.at = "commitLink", !.saw = status[mem[h].user]]]
    BY <1>a, <1>4 DEF ReadLink, Remember
  <2>4. QED
    BY <1>0, <1>4, <2>2, <2>3 DEF ReadLink, UsesAttempt, googleVars
<1>5. CASE CommitLink(h)
  <2>1. mem[h] \in LinkMem
    BY <1>5, WhatHandlersHold DEF CommitLink
  <2>2. [mem[h] EXCEPT !.at = "readLink", !.retried = TRUE].attempt = mem[h].attempt
    BY <2>1 DEF LinkMem
  <2>3. mem' = [mem EXCEPT ![h] = [mem[h] EXCEPT !.at = "readLink", !.retried = TRUE]]
    BY <1>0, <1>a, <1>5 DEF CommitLink, Finish, Remember, UsesAttempt
  <2>4. QED
    BY <1>0, <1>5, <2>2, <2>3 DEF CommitLink, UsesAttempt
<1>6. CASE Abandon(h)
  BY <1>0, <1>6 DEF Abandon, Finish, Remember, UsesAttempt
<1>7. QED
  BY <1>1, <1>2, <1>3, <1>4, <1>5, <1>6 DEF GoogleStep

(* An attempt that is gone does not come back.                             *)
LEMMA GoneStays ==
  ASSUME TypeOK, [Next]_vars, NEW a \in Attempt, attempt[a] = "GONE"
  PROVE  attempt'[a] = "GONE"
<1>1. ASSUME NEW h \in Handler, GoogleStep(h)
      PROVE  attempt'[a] = "GONE"
  BY <1>1 DEF TypeOK, GoogleStep, FindAttempt, DeleteAttempt, ExchangeCode, ReadLink, CommitLink,
              Abandon, googleVars
<1>2. CASE \E b \in Attempt : CreateAttempt(b)
  BY <1>2 DEF TypeOK, CreateAttempt
<1>3. QED
  BY <1>1, <1>2 DEF Next, vars, googleVars

LEMMA StepAttempts == TypeOK /\ AttemptUsedOnce /\ [Next]_vars => AttemptUsedOnce'
<1> SUFFICES ASSUME TypeOK, AttemptUsedOnce, [Next]_vars,
                    NEW h \in Handler, UsesAttempt(h)'
             PROVE  /\ attempt'[mem'[h].attempt] = "GONE"
                    /\ \A g \in Handler \ {h} : UsesAttempt(g)' => mem'[g].attempt # mem'[h].attempt
  BY DEF AttemptUsedOnce, UsesAttempt
<1>0. \A g \in Handler : UsesAttempt(g) =>
        /\ mem[g].attempt \in Attempt /\ attempt[mem[g].attempt] = "GONE"
        /\ \A f \in Handler \ {g} : UsesAttempt(f) => mem[f].attempt # mem[g].attempt
  BY WhatHandlersHold DEF AttemptUsedOnce, UsesAttempt, ConsumeMem, LinkMem
<1>1. ASSUME mem' = mem
      PROVE  /\ attempt'[mem'[h].attempt] = "GONE"
             /\ \A g \in Handler \ {h} : UsesAttempt(g)' => mem'[g].attempt # mem'[h].attempt
  BY <1>0, <1>1, GoneStays DEF UsesAttempt
<1>2. ASSUME NEW f \in Handler, AccountsStep(f), UNCHANGED googleVars
      PROVE  /\ attempt'[mem'[h].attempt] = "GONE"
             /\ \A g \in Handler \ {h} : UsesAttempt(g)' => mem'[g].attempt # mem'[h].attempt
  <2>1. ~UsesAttempt(f)'
    BY <1>2, AccountsStepStage DEF UsesAttempt, AccountStages
  <2>2. \A g \in Handler \ {f} : mem'[g] = mem[g]
    BY <1>2, OthersRemember
  <2>3. QED
    BY <1>0, <2>1, <2>2, GoneStays DEF UsesAttempt
<1>3. ASSUME NEW f \in Handler, GoogleStep(f)
      PROVE  /\ attempt'[mem'[h].attempt] = "GONE"
             /\ \A g \in Handler \ {h} : UsesAttempt(g)' => mem'[g].attempt # mem'[h].attempt
  <2>1. \A g \in Handler \ {f} : mem'[g] = mem[g]
    BY <1>3, OthersRemember
  <2>2. CASE ~UsesAttempt(f)'
    BY <1>0, <2>1, <2>2, GoneStays DEF UsesAttempt
  <2>3. CASE UsesAttempt(f)' /\ UsesAttempt(f) /\ mem'[f].attempt = mem[f].attempt
    BY <1>0, <2>1, <2>3, GoneStays DEF UsesAttempt
  <2>4. CASE /\ UsesAttempt(f)'
             /\ mem[f].at = "deleteAttempt" /\ mem'[f].attempt = mem[f].attempt
             /\ attempt[mem[f].attempt] = "STARTED"
             /\ attempt' = [attempt EXCEPT ![mem[f].attempt] = "GONE"]
    <3>1. mem[f].attempt \in Attempt /\ attempt'[mem[f].attempt] = "GONE"
      BY <2>4, WhatHandlersHold DEF ConsumeMem, TypeOK
    <3>2. \A g \in Handler \ {f} : UsesAttempt(g)' => mem'[g].attempt # mem'[f].attempt
      BY <1>0, <2>1, <2>4 DEF UsesAttempt
    <3>3. QED
      BY <1>0, <2>1, <2>4, <3>1, <3>2, GoneStays DEF UsesAttempt
  <2>5. QED
    BY <1>3, <2>2, <2>3, <2>4, GoogleStepUse
<1>4. QED
  BY <1>1, <1>2, <1>3 DEF Next, AccountsNext, RevokeSession, ReinstateUser, CreateAttempt, vars

---------------------------------------------------------------------------
(* Identities *)

(* A link, once made, names the same user for good.                        *)
LEMMA LinksStay ==
  ASSUME TypeOK, [Next]_vars, NEW i \in Identity, link[i] # None
  PROVE  link'[i] = link[i]
<1>1. ASSUME NEW h \in Handler, CommitLink(h)
      PROVE  link'[i] = link[i]
  <2>1. CASE Conflict(h)
    BY <1>1, <2>1 DEF CommitLink
  <2>2. CASE ~Conflict(h)
    <3>1. i # mem[h].identity
      BY <2>2 DEF Conflict
    <3>2. QED
      BY <1>1, <2>2, <3>1 DEF CommitLink, TypeOK
  <2>3. QED
    BY <2>1, <2>2
<1>2. ASSUME NEW h \in Handler, GoogleStep(h), ~CommitLink(h)
      PROVE  link'[i] = link[i]
  BY <1>2 DEF GoogleStep, FindAttempt, DeleteAttempt, ExchangeCode, ReadLink, Abandon, googleVars
<1>3. QED
  BY <1>1, <1>2 DEF Next, CreateAttempt, vars, googleVars

(* Who comes to a session by Google has the user of the identity's link.   *)
LEMMA GoogleStepSession ==
  ASSUME TypeOK, NEW h \in Handler, GoogleStep(h), mem'[h].at = "issueSession"
  PROVE  /\ mem'[h].by \in Identity
         /\ link'[mem'[h].by] = mem'[h].user
<1>0. mem \in [Handler -> Memory] /\ Idle.at = "idle"
  BY DEF TypeOK, Memory, Idle
<1>a. ASSUME NEW e, NEW read, SignIn(h, e, read)
      PROVE  mem'[h].by = mem[h].identity /\ mem'[h].user = e
  <2>1. read = "ACTIVE"
    BY <1>0, <1>a DEF SignIn, Finish, Remember
  <2>2. QED
    BY <1>0, <1>a, <2>1 DEF SignIn, Remember
<1>1. CASE \E a \in Attempt : FindAttempt(h, a)
  BY <1>0, <1>1 DEF FindAttempt, Remember
<1>2. CASE DeleteAttempt(h)
  <2>1. mem[h] \in ConsumeMem
    BY <1>2, WhatHandlersHold DEF DeleteAttempt
  <2>2. [mem[h] EXCEPT !.at = "exchangeCode"].at = "exchangeCode"
    BY <2>1 DEF ConsumeMem
  <2>3. QED
    BY <1>0, <1>2, <2>2 DEF DeleteAttempt, Goto, Finish, Remember
<1>3. CASE \E i \in Identity, e \in Email : ExchangeCode(h, i, e)
  BY <1>0, <1>3 DEF ExchangeCode, Remember
<1>4. CASE ReadLink(h)
  <2>1. mem[h] \in LinkMem
    BY <1>4, WhatHandlersHold DEF ReadLink
  <2>2. [mem[h] EXCEPT !.at = "commitLink", !.saw = status[mem[h].user]].at = "commitLink"
    BY <2>1 DEF LinkMem
  <2>3. link[mem[h].identity] # None
    BY <1>0, <1>4, <2>2 DEF ReadLink, Remember
  <2>4. SignIn(h, link[mem[h].identity], status[link[mem[h].identity]])
    BY <1>4, <2>3 DEF ReadLink
  <2>5. mem'[h].by = mem[h].identity /\ mem'[h].user = link[mem[h].identity]
    BY <1>a, <2>4
  <2>6. QED
    BY <1>4, <2>1, <2>5 DEF ReadLink, googleVars, LinkMem
<1>5. CASE CommitLink(h)
  <2>1. mem[h] \in LinkMem
    BY <1>5, WhatHandlersHold DEF CommitLink
  <2>2. [mem[h] EXCEPT !.at = "readLink", !.retried = TRUE].at = "readLink"
    BY <2>1 DEF LinkMem
  <2>3. ~Conflict(h)
    BY <1>0, <1>5, <2>2 DEF CommitLink, Finish, Remember
  <2>4. mem'[h].by = mem[h].identity /\ mem'[h].user = mem[h].user
    BY <1>a, <1>5, <2>3 DEF CommitLink
  <2>5. mem[h].identity \in Identity
    BY <2>1 DEF LinkMem
  <2>6. link' = [link EXCEPT ![mem[h].identity] = mem[h].user]
    BY <1>5, <2>3 DEF CommitLink
  <2>7. QED
    BY <2>4, <2>5, <2>6 DEF TypeOK
<1>6. CASE Abandon(h)
  BY <1>0, <1>6 DEF Abandon, Finish, Remember
<1>7. QED
  BY <1>1, <1>2, <1>3, <1>4, <1>5, <1>6 DEF GoogleStep

(* Sessions are added by IssueSession alone.                               *)
LEMMA NewSessions ==
  ASSUME TypeOK, [Next]_vars, NEW s \in session', s \notin session
  PROVE  \E h \in Handler :
           /\ IssueSession(h)
           /\ s = [user |-> mem[h].user, era |-> era[mem[h].user], by |-> mem[h].by]
<1>1. ASSUME NEW h \in Handler, GoogleStep(h)
      PROVE  FALSE
  BY <1>1 DEF GoogleStep, FindAttempt, DeleteAttempt, ExchangeCode, ReadLink, CommitLink, Abandon,
              accountVars
<1>2. ASSUME NEW h \in Handler, AccountsStep(h), ~IssueSession(h)
      PROVE  FALSE
  BY <1>2 DEF AccountsStep, Register, CheckPassword, SuspendUser, RequestToken, CreateToken,
              FindToken, ReplaceTokens, MarkEmailVerified, UpdatePassword, DeleteUsedTokens,
              RevokeAllSessions, accountVars
<1>3. QED
  BY <1>1, <1>2 DEF Next, AccountsNext, RevokeSession, ReinstateUser, CreateAttempt, vars,
                    accountVars, IssueSession

LEMMA StepIdentity == TypeOK /\ IdentityOpensOneAccount /\ [Next]_vars => IdentityOpensOneAccount'
<1> SUFFICES ASSUME TypeOK, IdentityOpensOneAccount, [Next]_vars
             PROVE  IdentityOpensOneAccount'
  OBVIOUS
<1>0. None \notin Identity /\ None \notin Email
  BY AccountsAssumption
<1>1. \A h \in Handler : mem[h].at = "issueSession" /\ mem[h].by # None =>
        /\ mem[h].by \in Identity /\ mem[h].user \in Email
        /\ link[mem[h].by] = mem[h].user
        /\ link'[mem[h].by] = mem[h].user
  <2>1. SUFFICES ASSUME NEW h \in Handler, mem[h].at = "issueSession", mem[h].by # None
                 PROVE  /\ mem[h].by \in Identity /\ mem[h].user \in Email
                        /\ link[mem[h].by] = mem[h].user
                        /\ link'[mem[h].by] = mem[h].user
    OBVIOUS
  <2>2. mem[h].by \in Identity /\ mem[h].user \in Email
    BY <2>1, WhatHandlersHold DEF IssueMem
  <2>3. link[mem[h].by] = mem[h].user
    BY <2>1 DEF IdentityOpensOneAccount
  <2>4. QED
    BY <1>0, <2>2, <2>3, LinksStay
<1>2. ASSUME NEW s \in session', s.by # None
      PROVE  link'[s.by] = s.user
  <2>1. CASE s \in session
    <3>1. s.by \in Identity /\ s.user \in Email
      BY <1>2, <2>1 DEF TypeOK, AccountsTypeOK, Session
    <3>2. QED
      BY <1>0, <1>2, <2>1, <3>1, LinksStay DEF IdentityOpensOneAccount
  <2>2. CASE s \notin session
    <3>1. PICK h \in Handler :
            /\ IssueSession(h)
            /\ s = [user |-> mem[h].user, era |-> era[mem[h].user], by |-> mem[h].by]
      BY <1>2, <2>2, NewSessions
    <3>2. QED
      BY <1>1, <1>2, <3>1 DEF IssueSession
  <2>3. QED
    BY <2>1, <2>2
<1>3. ASSUME NEW h \in Handler, mem'[h].at = "issueSession", mem'[h].by # None
      PROVE  link'[mem'[h].by] = mem'[h].user
  <2>1. CASE mem'[h] = mem[h]
    BY <1>1, <1>3, <2>1
  <2>2. CASE GoogleStep(h)
    BY <1>3, <2>2, GoogleStepSession
  <2>3. CASE AccountsStep(h)
    BY <1>3, <2>3, AccountsStepStage
  <2>4. CASE \E g \in Handler \ {h} : AccountsStep(g) \/ GoogleStep(g)
    BY <2>1, <2>4, OthersRemember
  <2>5. QED
    BY <2>1, <2>2, <2>3, <2>4 DEF Next, AccountsNext, RevokeSession, ReinstateUser, CreateAttempt,
                                 vars
<1>4. QED
  BY <1>2, <1>3 DEF IdentityOpensOneAccount

---------------------------------------------------------------------------
(* Ways into an account *)

LEMMA StepOpened == TypeOK /\ AccountsCanBeOpened /\ [Next]_vars => AccountsCanBeOpened'
<1> SUFFICES ASSUME TypeOK, AccountsCanBeOpened, [Next]_vars,
                    NEW e \in Email, status'[e] # "NONE"
             PROVE  e \in password' \/ \E i \in Identity : link'[i] = e
  BY DEF AccountsCanBeOpened
<1>1. password \subseteq password'
  BY DEF Next, AccountsNext, AccountsStep, Register, CheckPassword, SuspendUser, RequestToken,
         CreateToken, FindToken, IssueSession, ReplaceTokens, MarkEmailVerified, UpdatePassword,
         DeleteUsedTokens, RevokeAllSessions, RevokeSession, ReinstateUser, CreateAttempt,
         GoogleStep, FindAttempt, DeleteAttempt, ExchangeCode, ReadLink, CommitLink, Abandon,
         vars, accountVars, userVars
<1>2. CASE status[e] # "NONE"
  <2>1. CASE e \in password
    BY <1>1, <2>1
  <2>2. CASE \E i \in Identity : link[i] = e
    <3>1. PICK i \in Identity : link[i] = e
      BY <2>2
    <3>2. link'[i] = e
      BY <3>1, LinksStay, AccountsAssumption
    <3>3. QED
      BY <3>2
  <2>3. QED
    BY <1>2, <2>1, <2>2 DEF AccountsCanBeOpened
<1>3. CASE status[e] = "NONE"
  <2>1. CASE \E h \in Handler : Register(h, e)
    BY <2>1 DEF Register
  <2>2. CASE \E h \in Handler : CommitLink(h)
    <3>1. PICK h \in Handler : CommitLink(h)
      BY <2>2
    <3>2. ~Conflict(h)
      BY <1>3, <3>1 DEF CommitLink
    <3>3. mem[h].identity \in Identity /\ mem[h].user \in Email
      BY <3>1, WhatHandlersHold DEF CommitLink, LinkMem
    <3>4. e = mem[h].user
      BY <1>3, <3>1, <3>2, <3>3 DEF CommitLink, CreatedUser, TypeOK, AccountsTypeOK
    <3>5. link'[mem[h].identity] = e
      BY <3>1, <3>2, <3>3, <3>4 DEF CommitLink, TypeOK
    <3>6. QED
      BY <3>3, <3>5
  <2>3. CASE \E h \in Handler, f \in Email : f # e /\ Register(h, f)
    BY <1>3, <2>3 DEF Register, TypeOK, AccountsTypeOK
  <2>4. CASE \E h \in Handler, f \in Email : SuspendUser(h, f)
    BY <1>3, <2>4 DEF SuspendUser, TypeOK, AccountsTypeOK
  <2>5. CASE \E f \in Email : ReinstateUser(f)
    BY <1>3, <2>5 DEF ReinstateUser, TypeOK, AccountsTypeOK
  <2>6. CASE UNCHANGED status
    BY <1>3, <2>6
  <2>7. QED
    BY <2>1, <2>2, <2>3, <2>4, <2>5, <2>6
       DEF Next, AccountsNext, AccountsStep, CheckPassword, RequestToken, CreateToken, FindToken,
           IssueSession, ReplaceTokens, MarkEmailVerified, UpdatePassword, DeleteUsedTokens,
           RevokeAllSessions, RevokeSession, CreateAttempt, GoogleStep, FindAttempt,
           DeleteAttempt, ExchangeCode, ReadLink, Abandon, vars, accountVars, userVars
<1>4. QED
  BY <1>2, <1>3

---------------------------------------------------------------------------
(* Old sessions *)

LEMMA StepResets == TypeOK /\ ResetsAreResets /\ [Next]_vars => ResetsAreResets'
<1> SUFFICES ASSUME TypeOK, ResetsAreResets, [Next]_vars,
                    NEW h \in Handler, mem'[h].at = "updatePassword"
             PROVE  mem'[h].purpose = "PASSWORD_RESET"
  BY DEF ResetsAreResets
<1>0. mem \in [Handler -> Memory] /\ Idle.at = "idle"
  BY DEF TypeOK, Memory, Idle
<1>1. CASE mem'[h] = mem[h]
  BY <1>1 DEF ResetsAreResets
<1>2. CASE AccountsStep(h)
  <2>1. CASE \E t \in Token : FindToken(h, t)
    BY <1>0, <2>1 DEF FindToken, Remember
  <2>2. CASE ReplaceTokens(h) \/ MarkEmailVerified(h) \/ UpdatePassword(h)
    <3>1. mem[h] \in TokenMem
      BY <2>2, WhatHandlersHold DEF ReplaceTokens, MarkEmailVerified, UpdatePassword
    <3>2. \A stage : [mem[h] EXCEPT !.at = stage].at = stage
      BY <3>1 DEF TokenMem
    <3>3. QED
      BY <1>0, <2>2, <3>2 DEF ReplaceTokens, MarkEmailVerified, UpdatePassword, Goto, Remember
  <2>3. QED
    BY <1>0, <1>2, <2>1, <2>2
       DEF AccountsStep, Register, CheckPassword, SuspendUser, RequestToken, CreateToken,
           IssueSession, DeleteUsedTokens, RevokeAllSessions, Remember, Finish
<1>3. CASE GoogleStep(h)
  <2>1. CASE DeleteAttempt(h)
    <3>1. [mem[h] EXCEPT !.at = "exchangeCode"].at = "exchangeCode"
      BY <2>1, WhatHandlersHold DEF DeleteAttempt, ConsumeMem
    <3>2. QED
      BY <1>0, <2>1, <3>1 DEF DeleteAttempt, Goto, Finish, Remember
  <2>2. CASE ReadLink(h) \/ CommitLink(h)
    <3>1. mem[h] \in LinkMem
      BY <2>2, WhatHandlersHold DEF ReadLink, CommitLink
    <3>2. [mem[h] EXCEPT !.at = "commitLink", !.saw = status[mem[h].user]].at = "commitLink"
      BY <3>1 DEF LinkMem
    <3>3. [mem[h] EXCEPT !.at = "readLink", !.retried = TRUE].at = "readLink"
      BY <3>1 DEF LinkMem
    <3>4. ASSUME NEW e, NEW read, SignIn(h, e, read)
          PROVE  FALSE
      BY <1>0, <3>4 DEF SignIn, Finish, Remember
    <3>5. CASE ReadLink(h)
      BY <1>0, <3>2, <3>4, <3>5 DEF ReadLink, Remember
    <3>6. CASE CommitLink(h)
      BY <1>0, <3>3, <3>4, <3>6 DEF CommitLink, Finish, Remember
    <3>7. QED
      BY <2>2, <3>5, <3>6
  <2>3. QED
    BY <1>0, <1>3, <2>1, <2>2 DEF GoogleStep, FindAttempt, ExchangeCode, Abandon, Finish, Remember
<1>4. CASE \E g \in Handler \ {h} : AccountsStep(g) \/ GoogleStep(g)
  BY <1>1, <1>4, OthersRemember
<1>5. QED
  BY <1>1, <1>2, <1>3, <1>4 DEF Next, AccountsNext, RevokeSession, ReinstateUser, CreateAttempt,
                               vars

(* A request with a revocation before it goes on to it, and leaves it only *)
(* when no session of its user is left.                                    *)
LEMMA RevokersGoOn ==
  ASSUME TypeOK, [Next]_vars, NEW h \in Handler, NEW e \in Email, Revoking(h, e)
  PROVE  Revoking(h, e)' \/ \A s \in session' : s.user # e
<1>0. mem \in [Handler -> Memory] /\ Idle.at = "idle"
  BY DEF TypeOK, Memory, Idle
<1>1. CASE mem'[h] = mem[h]
  BY <1>1 DEF Revoking
<1>2. CASE AccountsStep(h)
  <2>1. CASE DeleteUsedTokens(h)
    BY <1>0, <2>1 DEF DeleteUsedTokens, Revoking, Remember
  <2>2. CASE RevokeAllSessions(h)
    BY <2>2 DEF RevokeAllSessions, Revoking
  <2>3. QED
    BY <1>0, <1>2, <2>1, <2>2
       DEF AccountsStep, Register, CheckPassword, SuspendUser, RequestToken, CreateToken,
           FindToken, IssueSession, ReplaceTokens, MarkEmailVerified, UpdatePassword, Revoking
<1>3. CASE GoogleStep(h)
  BY <1>0, <1>3 DEF GoogleStep, FindAttempt, DeleteAttempt, ExchangeCode, ReadLink, CommitLink,
                    Abandon, Revoking
<1>4. CASE \E g \in Handler \ {h} : AccountsStep(g) \/ GoogleStep(g)
  BY <1>1, <1>4, OthersRemember
<1>5. QED
  BY <1>1, <1>2, <1>3, <1>4 DEF Next, AccountsNext, RevokeSession, ReinstateUser, CreateAttempt,
                               vars

(* Who starts an era of a user has the revocation before him.              *)
LEMMA NewEras ==
  ASSUME TypeOK, ResetsAreResets, [Next]_vars, NEW e \in Email, era'[e] # era[e]
  PROVE  \E h \in Handler : Revoking(h, e)'
<1>0. mem \in [Handler -> Memory] /\ era \in [Email -> Nat]
  BY DEF TypeOK, AccountsTypeOK, Memory
<1>1. ASSUME NEW h \in Handler, UpdatePassword(h)
      PROVE  Revoking(h, e)'
  <2>1. mem[h] \in TokenMem /\ mem[h].purpose = "PASSWORD_RESET"
    BY <1>1, WhatHandlersHold DEF UpdatePassword, ResetsAreResets
  <2>2. /\ [mem[h] EXCEPT !.at = "deleteTokens"].at = "deleteTokens"
        /\ [mem[h] EXCEPT !.at = "deleteTokens"].purpose = "PASSWORD_RESET"
        /\ [mem[h] EXCEPT !.at = "deleteTokens"].user = mem[h].user
    BY <2>1 DEF TokenMem
  <2>3. mem'[h] = [mem[h] EXCEPT !.at = "deleteTokens"]
    BY <1>0, <1>1 DEF UpdatePassword, Goto, Remember
  <2>4. mem[h].user = e
    BY <1>0, <1>1 DEF UpdatePassword
  <2>5. QED
    BY <2>2, <2>3, <2>4 DEF Revoking
<1>2. ASSUME NEW h \in Handler, NEW f \in Email, SuspendUser(h, f)
      PROVE  Revoking(h, e)'
  <2>1. f = e
    BY <1>0, <1>2 DEF SuspendUser
  <2>2. QED
    BY <1>0, <1>2, <2>1 DEF SuspendUser, Remember, Revoking
<1>3. QED
  BY <1>1, <1>2
     DEF Next, AccountsNext, AccountsStep, Register, CheckPassword, RequestToken, CreateToken,
         FindToken, IssueSession, ReplaceTokens, MarkEmailVerified, DeleteUsedTokens,
         RevokeAllSessions, RevokeSession, ReinstateUser, CreateAttempt, GoogleStep, FindAttempt,
         DeleteAttempt, ExchangeCode, ReadLink, CommitLink, Abandon, vars, accountVars

LEMMA StepOld ==
  TypeOK /\ ResetsAreResets /\ OldSessionsHaveARevoker /\ [Next]_vars => OldSessionsHaveARevoker'
<1> SUFFICES ASSUME TypeOK, ResetsAreResets, OldSessionsHaveARevoker, [Next]_vars,
                    NEW s \in session', s.era < era'[s.user]
             PROVE  \E h \in Handler : Revoking(h, s.user)'
  BY DEF OldSessionsHaveARevoker
<1>1. session' \subseteq Session
  BY StepTypeOK DEF TypeOK, AccountsTypeOK
<1>2. s.user \in Email
  BY <1>1 DEF Session
<1>3. CASE era'[s.user] # era[s.user]
  BY <1>2, <1>3, NewEras
<1>4. CASE era'[s.user] = era[s.user]
  <2>1. s \in session
    <3>1. SUFFICES ASSUME s \notin session PROVE FALSE
      OBVIOUS
    <3>2. PICK h \in Handler :
            /\ IssueSession(h)
            /\ s = [user |-> mem[h].user, era |-> era[mem[h].user], by |-> mem[h].by]
      BY <3>1, NewSessions
    <3>3. s.era = era[s.user] /\ era[s.user] \in Nat
      BY <1>2, <3>2 DEF TypeOK, AccountsTypeOK
    <3>4. QED
      BY <1>4, <3>3
  <2>2. PICK h \in Handler : Revoking(h, s.user)
    BY <1>4, <2>1 DEF OldSessionsHaveARevoker
  <2>3. QED
    BY <1>2, <2>2, RevokersGoOn
<1>5. QED
  BY <1>3, <1>4

---------------------------------------------------------------------------
LEMMA Invariance == Spec => []IInv
<1>1. Init => IInv
  BY InitIInv
<1>2. IInv /\ [Next]_vars => IInv'
  BY StepTypeOK, StepResets, StepOld, StepAttempts, StepIdentity, StepOpened DEF IInv
<1>3. QED
  BY <1>1, <1>2, PTL DEF Spec

(* What the requests of auth.service.ts, account-security.service.ts and   *)
(* google-oauth.service.ts store and remember has the shape they read it   *)
(* in, whatever their interleaving.                                        *)
THEOREM TypeCorrect == Spec => []TypeOK
<1>1. IInv => TypeOK
  BY DEF IInv
<1>2. QED
  BY <1>1, Invariance, PTL

(* Of any number of callbacks with one state, one at most goes on to       *)
(* Google: google-oauth.repository.ts deletes the row and counts.          *)
THEOREM AttemptsUsedOnce == Spec => []AttemptUsedOnce
<1>1. IInv => AttemptUsedOnce
  BY DEF IInv
<1>2. QED
  BY <1>1, Invariance, PTL

(* However the sign-ins of an identity overlap and whatever address Google *)
(* reports, linkIdentity gives them sessions of one and the same user.     *)
THEOREM OneAccountPerIdentity == Spec => []IdentityOpensOneAccount
<1>1. IInv => IdentityOpensOneAccount
  BY DEF IInv
<1>2. QED
  BY <1>1, Invariance, PTL

(* Every user row that createPlayer or linkIdentity leaves can be signed   *)
(* in to, by a password or by Google.                                      *)
THEOREM NobodyLockedOut == Spec => []AccountsCanBeOpened
<1>1. IInv => AccountsCanBeOpened
  BY DEF IInv
<1>2. QED
  BY <1>1, Invariance, PTL

(* A session older than a reset of its user's password, or a suspension,   *)
(* is one that the request in question has still to delete.                *)
THEOREM OldSessionsEnd == Spec => []OldSessionsAreBeingRevoked
<1>1. IInv => OldSessionsAreBeingRevoked
  BY DEF IInv, OldSessionsHaveARevoker, Revoking, OldSessionsAreBeingRevoked
<1>2. QED
  BY <1>1, Invariance, PTL
===============================================================================
