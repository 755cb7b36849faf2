------------------------------ MODULE GoogleSignIn ------------------------------
(***************************************************************************)
(* Signing in with Google (apps/api/src/auth/google-oauth.service.ts and   *)
(* its repository), beside the passwords of Accounts.  The two             *)
(* transactions run at READ COMMITTED: each is a read step and a write     *)
(* step, the write failing as a whole on a unique conflict.  Google itself *)
(* answers an exchange with any verified identity.                         *)
(***************************************************************************)
EXTENDS Accounts

CONSTANTS
  Attempt  \* rows of google_oauth_attempts that may come to exist

VARIABLES
  attempt,  \* "NONE" before the insert, "STARTED", "GONE" after the delete
  link      \* oauth_accounts: the user of an identity

googleVars == <<attempt, link>>
vars == <<accountVars, googleVars, mem>>

ConsumeMem == [at : {"deleteAttempt", "exchangeCode"}, attempt : Attempt]
LinkMem == [at : {"readLink", "commitLink"}, attempt : Attempt, identity : Identity,
            user : Email, saw : Status \cup {"NONE"}, retried : BOOLEAN]

TypeOK ==
  /\ AccountsTypeOK
  /\ attempt \in [Attempt -> {"NONE", "STARTED", "GONE"}]
  /\ link \in [Identity -> Email \cup {None}]
  /\ mem \in [Handler -> AccountMem \cup ConsumeMem \cup LinkMem]

Init ==
  /\ AccountsInit
  /\ attempt = [a \in Attempt |-> "NONE"]
  /\ link = [i \in Identity |-> None]

---------------------------------------------------------------------------
(* start *)
CreateAttempt(a) ==
  /\ attempt[a] = "NONE"
  /\ attempt' = [attempt EXCEPT ![a] = "STARTED"]
  /\ UNCHANGED <<accountVars, link, mem>>

(* consumeAttempt, the findUnique.                                         *)
FindAttempt(h, a) ==
  /\ mem[h] = Idle
  /\ attempt[a] = "STARTED"
  /\ Remember(h, [at |-> "deleteAttempt", attempt |-> a])
  /\ UNCHANGED <<accountVars, googleVars>>

(* Mutant: the count of deleted rows is not looked at.                     *)
DeleteAttemptUnchecked(h) ==
  /\ mem[h].at = "deleteAttempt"
  /\ attempt' = [attempt EXCEPT ![mem[h].attempt] = "GONE"]
  /\ Goto(h, "exchangeCode")
  /\ UNCHANGED <<accountVars, link>>

(* consumeAttempt, the deleteMany: the attempt belongs to whoever deletes  *)
(* its row; a request that deletes none is refused.                        *)
DeleteAttempt(h) ==
  /\ mem[h].at = "deleteAttempt"
  /\ attempt' = [attempt EXCEPT ![mem[h].attempt] = "GONE"]
  /\ IF attempt[mem[h].attempt] = "STARTED" THEN Goto(h, "exchangeCode") ELSE Finish(h)
  /\ UNCHANGED <<accountVars, link>>

(* exchangeCode and validateIdentity: whom Google says it is.              *)
ExchangeCode(h, i, e) ==
  /\ mem[h].at = "exchangeCode"
  /\ Remember(h, [at |-> "readLink", attempt |-> mem[h].attempt, identity |-> i, user |-> e,
                  saw |-> "NONE", retried |-> FALSE])
  /\ UNCHANGED <<accountVars, googleVars>>

(* The session for user e, unless the account was not ACTIVE when read.    *)
SignIn(h, e, read) ==
  IF read = "ACTIVE"
  THEN Remember(h, [at |-> "issueSession", user |-> e, by |-> mem[h].identity])
  ELSE Finish(h)

(* linkIdentity, the reads: a linked identity is done here.                *)
ReadLink(h) ==
  /\ mem[h].at = "readLink"
  /\ LET i == mem[h].identity
     IN IF link[i] # None
        THEN SignIn(h, link[i], status[link[i]])
        ELSE Remember(h, [mem[h] EXCEPT !.at = "commitLink", !.saw = status[mem[h].user]])
  /\ UNCHANGED <<accountVars, googleVars>>

(* Both unique constraints a link can hit: the identity's row, and the     *)
(* e-mail address of the user it would create.                             *)
Conflict(h) ==
  \/ link[mem[h].identity] # None
  \/ mem[h].saw = "NONE" /\ status[mem[h].user] # "NONE"

CreatedUser(h) ==
  [status EXCEPT ![mem[h].user] = IF mem[h].saw = "NONE" THEN "ACTIVE" ELSE @]

(* Mutant: the user is inserted outside the transaction.                   *)
CommitLinkAfterUser(h) ==
  /\ mem[h].at = "commitLink"
  /\ mem[h].saw = "NONE" => status[mem[h].user] = "NONE"
  /\ status' = CreatedUser(h)
  /\ IF Conflict(h)
     THEN IF mem[h].retried THEN Finish(h)
          ELSE Remember(h, [mem[h] EXCEPT !.at = "readLink", !.retried = TRUE])
     ELSE SignIn(h, mem[h].user, status'[mem[h].user])
  /\ link' = IF Conflict(h) THEN link ELSE [link EXCEPT ![mem[h].identity] = mem[h].user]
  /\ UNCHANGED <<password, verified, tokenVars, session, era, attempt>>

(* Mutant: a second sign-in moves the link.                                *)
CommitLinkUpsert(h) ==
  /\ mem[h].at = "commitLink"
  /\ status' = CreatedUser(h)
  /\ verified' = verified \cup {mem[h].user}
  /\ link' = [link EXCEPT ![mem[h].identity] = mem[h].user]
  /\ SignIn(h, mem[h].user, status'[mem[h].user])
  /\ UNCHANGED <<password, tokenVars, session, era, attempt>>

(* linkIdentity, the writes: user and link together or not at all.         *)
(* findOrCreateUser tries once more after a conflict.                      *)
CommitLink(h) ==
  /\ mem[h].at = "commitLink"
  /\ IF Conflict(h)
     THEN /\ IF mem[h].retried THEN Finish(h)
             ELSE Remember(h, [mem[h] EXCEPT !.at = "readLink", !.retried = TRUE])
          /\ UNCHANGED <<status, verified, link>>
     ELSE /\ status' = CreatedUser(h)
          /\ verified' = verified \cup {mem[h].user}
          /\ link' = [link EXCEPT ![mem[h].identity] = mem[h].user]
          /\ SignIn(h, mem[h].user, IF mem[h].saw = "NONE" THEN "ACTIVE" ELSE mem[h].saw)
  /\ UNCHANGED <<password, tokenVars, session, era, attempt>>

(* A request refused before its first write, or a callback with an error,  *)
(* which only abandons the attempt.                                        *)
Abandon(h) ==
  /\ mem[h].at \in {"exchangeCode", "readLink", "issueSession"}
  /\ Finish(h)
  /\ UNCHANGED <<accountVars, googleVars>>

GoogleStep(h) ==
  \/ \E a \in Attempt : FindAttempt(h, a)
  \/ DeleteAttempt(h)
  \/ \E i \in Identity, e \in Email : ExchangeCode(h, i, e)
  \/ ReadLink(h)
  \/ CommitLink(h)
  \/ Abandon(h)

Next ==
  \/ AccountsNext /\ UNCHANGED googleVars
  \/ \E a \in Attempt : CreateAttempt(a)
  \/ \E h \in Handler : GoogleStep(h)

Spec == Init /\ [][Next]_vars

---------------------------------------------------------------------------
(* "attempts are consumed once": of any number of callbacks with one       *)
(* state, one at most goes on to Google and to an account.                 *)
AttemptUsedOnce ==
  \A h \in Handler : mem[h].at \in {"exchangeCode", "readLink", "commitLink"} =>
    /\ attempt[mem[h].attempt] = "GONE"
    /\ \A g \in Handler \ {h} :
         mem[g].at \in {"exchangeCode", "readLink", "commitLink"} =>
           mem[g].attempt # mem[h].attempt

(* An identity opens one account: every session given to it, and every one *)
(* about to be, is of the user its link names, although Google may report  *)
(* a different address each time and sign-ins of one identity overlap.     *)
IdentityOpensOneAccount ==
  /\ \A s \in session : s.by # None => link[s.by] = s.user
  /\ \A h \in Handler : mem[h].at = "issueSession" /\ mem[h].by # None
                          => link[mem[h].by] = mem[h].user

(* Nobody is left with an account without a way into it: a user row has a  *)
(* password or a Google link, whatever conflicts and however often a       *)
(* sign-in was retried.                                                    *)
AccountsCanBeOpened ==
  \A e \in Email : status[e] # "NONE" => e \in password \/ \E i \in Identity : link[i] = e
=============================================================================
