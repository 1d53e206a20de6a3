---------------------------- MODULE AuthSessions ----------------------------
(***************************************************************************)
(* Sign-in, refresh tokens and password resets of one employee             *)
(* (auth.service.ts, auth-session.service.ts, password-reset.service.ts,   *)
(* updateEmployee and deleteEmployee of employees.service.ts).             *)
(*                                                                         *)
(* A family is a sign-in with the sessions its refresh tokens rotate       *)
(* through, numbered in order.  Transactions are of two kinds.  Those of   *)
(* rotation, logout, reuse and the administrator are serializable and wait *)
(* for, or are retried after, each other; those of sign-in, password reset *)
(* and Google are not and see what is committed when a statement starts.   *)
(* Where that shows, a transaction is two actions.                         *)
(***************************************************************************)
EXTENDS Integers

CONSTANTS Families, MaxSessions, MaxCredentials, MaxTokens \* bounds

VARIABLES employee,   \* the Employee row; password and email are versions
          family,     \* how a family was opened
          live,       \* its sessions that are not revoked
          issued,     \* sessions issued in it
          ended,      \* families that a revocation has reached
          overlapped, \* families a revocation could not see (see below)
          rotating,   \* the session a rotation has consumed but not committed
          reused,     \* families whose revocation is due: a token was reused
          signingIn,  \* sign-ins that have verified a credential
          admin,      \* an administrator's transaction and its snapshot
          resetToken, \* PasswordResetToken rows, in the order of requests
          missed      \* reset links a deactivation could not see (see below)

vars == <<employee, family, live, issued, ended, overlapped, rotating, reused,
          signingIn, admin, resetToken, missed>>
sessions == <<family, live, issued, ended, overlapped, rotating, reused>>
resets == <<resetToken, missed>>

Employee == [row : {"NONE", "ACTIVE", "INACTIVE", "DELETED"},
             password : 0..MaxCredentials, google : 0..MaxCredentials]
\* proof: the version of the password or of the Google link that was shown.
Via == {"password", "google", "signUp"}
NotOpened == [via |-> "none", proof |-> 0]
NoChange == [kind |-> "none"]

Init ==
  /\ employee = [row |-> "NONE", password |-> 0, google |-> 0]
  /\ family = [f \in Families |-> NotOpened]
  /\ live = [f \in Families |-> {}]
  /\ issued = [f \in Families |-> 0]
  /\ ended = {} /\ overlapped = {}
  /\ rotating = [f \in Families |-> 0]
  /\ reused = {}
  /\ signingIn = {}
  /\ admin = NoChange
  /\ resetToken = [t \in 1..MaxTokens |-> "NONE"] /\ missed = {}

Active == employee.row = "ACTIVE"
Fresh(f) == family[f] = NotOpened
Rotating == {f \in Families : rotating[f] # 0}
\* A link is never reused: google is odd while an account is linked.
Linked == employee.google % 2 = 1

-----------------------------------------------------------------------------
(* Sign-up and sign-in                                                     *)

\* signUp, its transaction.
SignUp ==
  /\ employee.row = "NONE"
  /\ employee' = [employee EXCEPT !.row = "ACTIVE", !.password = 1]
  /\ signingIn' = {[via |-> "signUp", proof |-> 1]}
  /\ UNCHANGED <<sessions, admin, resets>>

\* signIn and signInWithGoogle verify what they are shown.
VerifyPassword ==
  /\ Active
  /\ signingIn' = signingIn \cup {[via |-> "password", proof |-> employee.password]}
  /\ UNCHANGED <<employee, sessions, admin, resets>>
VerifyGoogle ==
  /\ Active /\ Linked
  /\ signingIn' = signingIn \cup {[via |-> "google", proof |-> employee.google]}
  /\ UNCHANGED <<employee, sessions, admin, resets>>

\* Mutant: the credential is not verified again under the lock.
StillActive(s) == Active
\* createSession: SELECT ... FOR SHARE, which sign-up goes without.
StillProven(s) ==
  CASE s.via = "password" -> Active /\ s.proof = employee.password
    [] s.via = "google" -> Active /\ s.proof = employee.google
    [] OTHER -> TRUE
CreateSession(s, f) ==
  /\ Fresh(f) /\ StillProven(s)
  /\ family' = [family EXCEPT ![f] = s]
  /\ live' = [live EXCEPT ![f] = {1}] /\ issued' = [issued EXCEPT ![f] = 1]
  /\ signingIn' = signingIn \ {s}
  /\ overlapped' = IF s.via = "signUp" /\ ~(Active /\ s.proof = employee.password)
                   THEN overlapped \cup {f} ELSE overlapped
  /\ UNCHANGED <<employee, ended, rotating, reused, admin, resets>>
SignInRefused(s) ==
  /\ ~StillProven(s)
  /\ signingIn' = signingIn \ {s}
  /\ UNCHANGED <<employee, sessions, admin, resets>>

-----------------------------------------------------------------------------
(* Rotation, reuse and logout                                              *)

\* isValid, and the guarded update that consumes the session.
TokenValid(f, g) == Active /\ g \in live[f]
ConsumeToken(f, g) ==
  /\ rotating[f] = 0 /\ issued[f] < MaxSessions
  /\ TokenValid(f, g)
  /\ rotating' = [rotating EXCEPT ![f] = g]
  /\ UNCHANGED <<employee, family, live, issued, ended, overlapped, reused,
                 signingIn, admin, resets>>
\* The new session, and the commit.
CommitRotation(f) ==
  /\ rotating[f] # 0
  /\ issued' = [issued EXCEPT ![f] = @ + 1]
  /\ live' = [live EXCEPT ![f] = (@ \ {rotating[f]}) \cup {issued[f] + 1}]
  /\ rotating' = [rotating EXCEPT ![f] = 0]
  /\ UNCHANGED <<employee, family, ended, overlapped, reused, signingIn, admin, resets>>
\* The process dies first; a revocation that waited for the row revokes it.
AbortRotation(f) ==
  /\ rotating[f] # 0
  /\ rotating' = [rotating EXCEPT ![f] = 0]
  /\ live' = [live EXCEPT ![f] = IF f \in overlapped THEN {} ELSE @]
  /\ UNCHANGED <<employee, family, issued, ended, overlapped, reused, signingIn,
                 admin, resets>>

\* A token that is not valid (any more): its family is revoked, in another
\* transaction, which a crash may forestall.
ReuseToken(f, g) ==
  /\ g <= issued[f] /\ rotating[f] = 0 /\ ~TokenValid(f, g)
  /\ reused' = reused \cup {f}
  /\ UNCHANGED <<employee, family, live, issued, ended, overlapped, rotating,
                 signingIn, admin, resets>>
RevokeFamily(f) ==
  /\ f \in reused /\ rotating[f] = 0
  /\ live' = [live EXCEPT ![f] = {}] /\ ended' = ended \cup {f}
  /\ reused' = reused \ {f}
  /\ UNCHANGED <<employee, family, issued, overlapped, rotating, signingIn, admin, resets>>
RevocationLost(f) ==
  /\ f \in reused
  /\ reused' = reused \ {f}
  /\ UNCHANGED <<employee, family, live, issued, ended, overlapped, rotating,
                 signingIn, admin, resets>>

\* revoke: logout with any token of the family.
Logout(f) ==
  /\ issued[f] > 0 /\ rotating[f] = 0 /\ f \notin ended
  /\ live' = [live EXCEPT ![f] = {}] /\ ended' = ended \cup {f}
  /\ UNCHANGED <<employee, family, issued, overlapped, rotating, reused, signingIn,
                 admin, resets>>

-----------------------------------------------------------------------------
(* Changes of credentials                                                  *)

Opened == {f \in Families : ~Fresh(f)}
\* An updateMany on the sessions of the families it can see.
Revoke(seen) ==
  /\ live' = [f \in Families |-> IF f \in seen THEN {} ELSE live[f]]
  /\ ended' = ended \cup seen
\* A statement that is not serializable waits for the row a rotation has
\* consumed, but does not see the session that the rotation adds.
RevokeCommitted ==
  /\ Revoke(Opened \ Rotating)
  /\ overlapped' = overlapped \cup Rotating

Usable(t) == resetToken[t] = "USABLE"
\* usedAt is null; an expired row is one of these.
Unused(t) == resetToken[t] \in {"USABLE", "EXPIRED"}
UsedUp(seen) ==
  [t \in DOMAIN resetToken |-> IF t \in seen /\ Unused(t) THEN "USED" ELSE resetToken[t]]
\* requestReset reads whether the employee is active, ...
RequestReset(t) ==
  /\ Active /\ resetToken[t] = "NONE" /\ \A u \in 1..t - 1 : resetToken[u] # "NONE"
  /\ resetToken' = [resetToken EXCEPT ![t] = "ASKED"]
  /\ UNCHANGED <<employee, sessions, signingIn, admin, missed>>
\* ... and its transaction does not ask again.  It is serializable: a change
\* by the administrator whose snapshot has a row that it marks is retried.
Contended == admin # NoChange /\ admin.kind # "ACTIVE" /\ \E t \in admin.links : Unused(t)
IssueReset(t) ==
  /\ resetToken[t] = "ASKED"
  /\ resetToken' = [UsedUp(DOMAIN resetToken) EXCEPT ![t] = "USABLE"]
  /\ admin' = IF Contended THEN NoChange ELSE admin
  /\ UNCHANGED <<employee, sessions, signingIn, missed>>
TokenExpires(t) ==
  /\ Usable(t)
  /\ resetToken' = [resetToken EXCEPT ![t] = "EXPIRED"]
  /\ UNCHANGED <<employee, sessions, signingIn, admin, missed>>
\* The administrator's update of the row would be retried after this one.
ResetPassword(t) ==
  /\ Usable(t) /\ Active /\ employee.password < MaxCredentials
  /\ resetToken' = [resetToken EXCEPT ![t] = "USED"]
  /\ employee' = [employee EXCEPT !.password = @ + 1]
  /\ RevokeCommitted
  /\ admin' = NoChange
  /\ UNCHANGED <<family, issued, rotating, reused, signingIn, missed>>

LinkGoogle ==
  /\ Active /\ ~Linked /\ employee.google < MaxCredentials
  /\ employee' = [employee EXCEPT !.google = @ + 1]
  /\ admin' = NoChange
  /\ UNCHANGED <<sessions, signingIn, resets>>
UnlinkGoogle ==
  /\ Active /\ Linked /\ employee.google < MaxCredentials
  /\ employee' = [employee EXCEPT !.google = @ + 1]
  /\ RevokeCommitted
  /\ admin' = NoChange
  /\ UNCHANGED <<family, issued, rotating, reused, signingIn, resets>>

\* The rows there are.
Stored == {t \in DOMAIN resetToken : resetToken[t] \notin {"NONE", "ASKED"}}
\* updateEmployee and deleteEmployee by an administrator: the snapshot, ...
BeginChange(kind) ==
  /\ admin = NoChange /\ employee.row \in {"ACTIVE", "INACTIVE"}
  /\ kind = "password" => employee.password < MaxCredentials
  /\ kind = "INACTIVE" => Active
  /\ kind = "ACTIVE" => ~Active
  /\ admin' = [kind |-> kind, seen |-> Opened, links |-> Stored]
  /\ UNCHANGED <<employee, sessions, signingIn, resets>>
\* ... and the writes.  A sign-in or a reset link that was committed in
\* between is not seen, nor is a link that is only asked for.
Unseen == {t \in DOMAIN resetToken : resetToken[t] = "ASKED" \/ Unused(t)} \ admin.links
CommitChange ==
  /\ admin # NoChange /\ Rotating = {}
  /\ employee' = IF admin.kind = "password"
                 THEN [employee EXCEPT !.password = @ + 1]
                 ELSE [employee EXCEPT !.row = admin.kind]
  /\ IF admin.kind = "ACTIVE" THEN UNCHANGED <<live, ended, overlapped, resets>>
     ELSE /\ Revoke(admin.seen)
          /\ overlapped' = overlapped \cup (Opened \ admin.seen)
          /\ resetToken' = UsedUp(admin.links)
          /\ missed' = IF admin.kind = "password" THEN missed ELSE missed \cup Unseen
  /\ admin' = NoChange
  /\ UNCHANGED <<family, issued, rotating, reused, signingIn>>

Next ==
  \/ SignUp \/ VerifyPassword \/ VerifyGoogle
  \/ \E s \in signingIn : SignInRefused(s) \/ \E f \in Families : CreateSession(s, f)
  \/ \E f \in Families :
       \/ \E g \in 1..MaxSessions : ConsumeToken(f, g) \/ ReuseToken(f, g)
       \/ CommitRotation(f) \/ AbortRotation(f)
       \/ RevokeFamily(f) \/ RevocationLost(f) \/ Logout(f)
  \/ \E t \in DOMAIN resetToken :
       RequestReset(t) \/ IssueReset(t) \/ TokenExpires(t) \/ ResetPassword(t)
  \/ LinkGoogle \/ UnlinkGoogle
  \/ \E kind \in {"password", "INACTIVE", "ACTIVE", "DELETED"} : BeginChange(kind)
  \/ CommitChange

Spec == Init /\ [][Next]_vars

-----------------------------------------------------------------------------
Proven(f) ==
  CASE family[f].via = "google" -> family[f].proof = employee.google
    [] OTHER -> family[f].proof = employee.password
\* A family has one live session, and none once it was logged out, reused or
\* revoked, whatever rotation was under way; whoever has a session is active
\* and has shown the password, or the Google account, that is valid now,
\* unless his sign-in or rotation overlapped the very transaction that
\* revoked.  One reset link at most is good, and only for an active employee,
\* unless it was under way when he was deactivated: then it is good, for
\* whoever reactivates him.
\* (rotate, revoke, createSession, requestReset, resetPassword, updateEmployee.)
SessionsEntitled ==
  /\ employee \in Employee
  /\ \A f \in Families :
       /\ \A g, h \in live[f] : g = h
       /\ f \in ended /\ f \notin overlapped => live[f] = {}
       /\ live[f] # {} /\ f \notin overlapped => Active /\ Proven(f)
  /\ \A t \in DOMAIN resetToken : Usable(t) =>
       /\ t \notin missed => Active
       /\ \A u \in DOMAIN resetToken \ {t} : ~Usable(u)

\* A used, superseded or expired reset link is never good again, and a revoked family
\* gets no new session, except for the overlap above.
RevocationsFinal ==
  /\ \A t \in DOMAIN resetToken : resetToken[t] \in {"EXPIRED", "USED"} =>
       resetToken'[t] \in {"EXPIRED", "USED"}
  /\ \A f \in ended \ overlapped : issued'[f] = issued[f]
=============================================================================
