------------------------------- MODULE Accounts -------------------------------
(***************************************************************************)
(* One account (Author or EditorUser): registration, sign-in, changes and  *)
(* resets of the password, the verification of the address of an author    *)
(* and the authenticator of an editor.  Every request reads the row and    *)
(* saves some of its fields later, without a lock.  A session is not       *)
(* stored: it carries the second in which it was issued, and the row the   *)
(* time of the last change of the password.                                *)
(*                                                                         *)
(* A password is the number of its change.  Requests know the current      *)
(* password when they read the row; the refusals that change nothing       *)
(* (wrong password, weak password, too many attempts) are left out.        *)
(*                                                                         *)
(* Bounds: Requests at once, MaxPasswords, LastSecond; SessionSeconds is   *)
(* how long a session lasts.                                               *)
(***************************************************************************)
EXTENDS Naturals

CONSTANTS Requests, MaxPasswords, LastSecond, SessionSeconds

VARIABLES
    who,       \* "author", "editor" or "viewer", who needs no authenticator
    now,       \* the second
    account,   \* the row; set up: the address is verified, or the secret of the authenticator
    links,     \* the mails with links: to verify the address, to reset this password
    sessions,  \* the sessions that browsers hold: second issued, password they follow the change of
    at         \* per request: where it is, and the row as it read it

vars == <<who, now, account, links, sessions, at>>

NoAccount == [password |-> 0, changedAt |-> 0, setUp |-> 0]
Idle == [at |-> "idle"]
Goto(q, where) == at' = [at EXCEPT ![q] = where]
Loaded(handler) == [at |-> handler, row |-> account]

\* Editors and viewers are created by a command of the operator, with a password.
Init ==
    /\ who \in {"author", "editor", "viewer"}
    /\ now = 1
    /\ account = IF who = "author" THEN NoAccount ELSE [NoAccount EXCEPT !.password = 1]
    /\ links = {}
    /\ sessions = {}
    /\ at = [q \in Requests |-> Idle]

Tick ==
    /\ now < LastSecond
    /\ now' = now + 1
    /\ UNCHANGED <<who, account, links, sessions, at>>

\* Mutant: sessions of the second of the change are rejected, too.
NotAfterChange(s) == s.iat <= account.changedAt

\* _issued_before_password_change: whole seconds on both sides.
BeforeChange(s) == s.iat < account.changedAt

\* read_session, read_author_session
Valid(s) == s.iat + SessionSeconds >= now /\ ~BeforeChange(s)

\* issue_session, issue_author_session
Issue(q) ==
    /\ at[q].at = "issue"
    /\ sessions' = sessions \union {[iat |-> now, change |-> at[q].change]}
    /\ Goto(q, Idle)
    /\ UNCHANGED <<who, now, account, links>>

ToIssue(change) == [at |-> "issue", change |-> change]

(***************************************************************************)
(* Registration and sign-in.                                               *)
(***************************************************************************)

\* author_register looks for the address, and creates the account; the database
\* refuses a second one.  The verification mail may fail.
LoadRegister(q) ==
    /\ at[q].at = "idle" /\ who = "author" /\ account = NoAccount
    /\ Goto(q, Loaded("register"))
    /\ UNCHANGED <<who, now, account, links, sessions>>

Register(q) ==
    /\ at[q].at = "register"
    /\ IF account = NoAccount
       THEN /\ account' = [NoAccount EXCEPT !.password = 1]
            /\ links' \in {links, links \union {[for |-> "verify", password |-> 0]}}
            /\ Goto(q, ToIssue(0))
       ELSE UNCHANGED <<account, links>> /\ Goto(q, Idle)
    /\ UNCHANGED <<who, now, sessions>>

\* author_login; admin_login, which asks an editor for the authenticator's code
\* and lets a viewer in by the password.
Login(q) ==
    /\ at[q].at = "idle" /\ account.password > 0
    /\ who = "editor" => account.setUp > 0
    /\ Goto(q, ToIssue(0))
    /\ UNCHANGED <<who, now, account, links, sessions>>

\* author_logout and admin_logout take the session from the browser.
Logout(s) ==
    /\ sessions' = sessions \ {s}
    /\ UNCHANGED <<who, now, account, links, at>>

(***************************************************************************)
(* The password.                                                           *)
(***************************************************************************)

\* The new password, and the time of the change, which is taken before the save.
NewPassword(row) == [row EXCEPT !.password = account.password + 1, !.changedAt = now]

\* author_change_password, admin_change_password: with a session;
\* author_change_password_direct: with the current password.
LoadChange(q) ==
    /\ at[q].at = "idle" /\ 0 < account.password
    /\ \/ (\E s \in sessions : Valid(s)) /\ Goto(q, Loaded("change"))
       \/ who = "author" /\ Goto(q, Loaded("direct"))
    /\ UNCHANGED <<who, now, account, links, sessions>>

\* save(update_fields) leaves the other fields as they are in the database.
Change(q) ==
    /\ at[q].at \in {"change", "direct"} /\ account.password < MaxPasswords
    /\ account' = NewPassword(account)
    /\ Goto(q, IF at[q].at = "change" THEN ToIssue(account'.password) ELSE Idle)
    /\ UNCHANGED <<who, now, links, sessions>>

\* author_password_reset_request
RequestReset ==
    /\ who = "author" /\ account.password > 0
    /\ links' = links \union {[for |-> "reset", password |-> account.password]}
    /\ UNCHANGED <<who, now, account, sessions, at>>

\* author_password_reset_confirm: the link fits the password it was sent for.
LoadReset(q) ==
    /\ at[q].at = "idle"
    /\ [for |-> "reset", password |-> account.password] \in links
    /\ Goto(q, Loaded("reset"))
    /\ UNCHANGED <<who, now, account, links, sessions>>

Reset(q) ==
    /\ at[q].at = "reset" /\ account.password < MaxPasswords
    /\ account' = [NewPassword(account) EXCEPT !.setUp = 1]
    /\ Goto(q, Idle)
    /\ UNCHANGED <<who, now, links, sessions>>

(***************************************************************************)
(* The address and the authenticator.                                      *)
(***************************************************************************)

\* author_resend_verification
Resend ==
    /\ who = "author" /\ account.setUp = 0 /\ \E s \in sessions : Valid(s)
    /\ links' = links \union {[for |-> "verify", password |-> 0]}
    /\ UNCHANGED <<who, now, account, sessions, at>>

\* author_verify_email
LoadVerify(q) ==
    /\ at[q].at = "idle" /\ [for |-> "verify", password |-> 0] \in links
    /\ Goto(q, Loaded("verify"))
    /\ UNCHANGED <<who, now, account, links, sessions>>

\* admin_verify_password: an editor without an authenticator gets one.
LoadSetUp(q) ==
    /\ at[q].at = "idle" /\ who = "editor" /\ account.setUp = 0
    /\ Goto(q, Loaded("set up"))
    /\ UNCHANGED <<who, now, account, links, sessions>>

\* Mutant: save() without update_fields, of the row as it was read.
SaveAll(q) ==
    /\ at[q].at \in {"verify", "set up"}
    /\ account' = [at[q].row EXCEPT !.setUp = 1]
    /\ Goto(q, Idle)
    /\ UNCHANGED <<who, now, links, sessions>>

SaveSetUp(q) ==
    /\ at[q].at \in {"verify", "set up"}
    /\ account' = [account EXCEPT !.setUp = 1]
    /\ Goto(q, Idle)
    /\ UNCHANGED <<who, now, links, sessions>>

Next ==
    \/ Tick \/ RequestReset \/ Resend
    \/ \E s \in sessions : Logout(s)
    \/ \E q \in Requests :
          \/ LoadRegister(q) \/ Register(q) \/ Login(q) \/ Issue(q)
          \/ LoadChange(q) \/ Change(q) \/ LoadReset(q) \/ Reset(q)
          \/ LoadVerify(q) \/ LoadSetUp(q) \/ SaveSetUp(q)

Spec == Init /\ [][Next]_vars

(***************************************************************************)
(* Properties.                                                             *)
(***************************************************************************)

\* Every row, link and session is one a request writes.
TypeOK ==
    /\ who \in {"author", "editor", "viewer"} /\ now \in 1..LastSecond
    /\ account \in [password : 0..MaxPasswords, changedAt : 0..LastSecond, setUp : 0..1]
    /\ links \subseteq [for : {"verify", "reset"}, password : 0..MaxPasswords]
    /\ sessions \subseteq [iat : 1..LastSecond, change : 0..MaxPasswords]
    /\ \A q \in Requests : at[q].at \in {"idle", "register", "issue", "change", "direct", "reset", "verify", "set up"}

\* "Keep this browser signed in with a fresh session": the session issued after the
\* last change works until it expires, in the second of the change, too.
ChangedBrowserSignedIn ==
    \A s \in sessions :
        s.change = account.password /\ s.iat + SessionSeconds >= now => Valid(s)

\* What a request completed lasts, whichever others read the row before and save
\* after: a replaced password does not come back, a verified address and an
\* authenticator stay, and the browser in which the password was last changed stays
\* signed in.
ChangesLast ==
    /\ [][account'.password >= account.password /\ account'.setUp >= account.setUp]_vars
    /\ []ChangedBrowserSignedIn
=============================================================================
