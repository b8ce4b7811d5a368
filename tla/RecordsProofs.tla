----------------------------- MODULE RecordsProofs -----------------------------
(***************************************************************************)
(* What the records keep, for any number of rows, requests, files, venues, *)
(* journals, days and costs.  Each part of Records has its inductive       *)
(* invariant under its own heading; the parts share no state, so the       *)
(* invariant of all is their conjunction (at the end).                     *)
(***************************************************************************)
EXTENDS Records, Sequences, FiniteSetTheorems, WellFoundedInduction, TLAPS

(***************************************************************************)
(* Calls.                                                                  *)
(***************************************************************************)

Days == 0..LastDay
CallRows == [tier : {"none", "verified_index", "claimed"}, by : {"none", "reading", "check"},
             calls : [Deadlines -> Days], checked : Days, verified : Days]

\* A row that a check wrote has the day of the check, and its calls were read on the
\* day of their confirmation or later.
CheckedRow(r) == r.by = "check" => r.checked > 0 /\ \A c \in Deadlines : r.calls[c] <= readOn[c]

CallsInv ==
    /\ CallsPart!TypeOK
    /\ checker <= today /\ staged.checked <= today
    /\ \A c \in Deadlines : readOn[c] <= today
    /\ CheckedRow(listing) /\ CheckedRow(edit)

LEMMA CallsInit == CallsPart!Init => CallsInv
<1> SUFFICES ASSUME CallsPart!Init  PROVE CallsInv
  OBVIOUS
<1>1. CallsPart!NoVenue \in CallRows /\ CallsPart!NoVenue.by = "none"
  BY BoundsAssumption DEF CallsPart!NoVenue, CallRows, Days
<1>2. readOn \in [Deadlines -> Days] /\ \A c \in Deadlines : readOn[c] <= today
  BY BoundsAssumption DEF CallsPart!Init, Days
<1>3. staged \in [calls : SUBSET Deadlines, checked : Days] /\ staged.checked <= today
  BY BoundsAssumption DEF CallsPart!Init, Days
<1> QED
  BY <1>1, <1>2, <1>3, BoundsAssumption
  DEF CallsPart!Init, CallsInv, CallsPart!TypeOK, CheckedRow, CallsPart!Days, Days, CallRows

\* Time passes, and calls are read again, but no read day goes back.
LEMMA CallsGo ==
  ASSUME CallsInv, today' \in Days \ {0}, today <= today', sitePages' \in SUBSET Deadlines, config' \in SUBSET Deadlines,
         staged' \in [calls : SUBSET Deadlines, checked : Days], staged'.checked <= today',
         checker' \in Days, checker' <= today',
         \/ UNCHANGED readOn
         \/ \E calls \in SUBSET Deadlines : readOn' = CallsPart!Read(calls),
         {listing', edit'} \subseteq CallRows,
         \A r \in {listing', edit'} : r \in {listing, edit} \/ CheckedRow(r)'
  PROVE  CallsInv'
<1>0. /\ readOn \in [Deadlines -> Days] /\ \A c \in Deadlines : readOn[c] <= today
      /\ today \in Days
  BY DEF CallsInv, CallsPart!TypeOK, CallsPart!Days, Days
<1>1. /\ readOn' \in [Deadlines -> Days]
      /\ \A c \in Deadlines : readOn[c] <= readOn'[c] /\ readOn'[c] <= today'
  BY <1>0, BoundsAssumption DEF CallsPart!Read, Days
<1>2. \A r \in CallRows : CheckedRow(r) => CheckedRow(r)'
  BY <1>0, <1>1, BoundsAssumption DEF CheckedRow, CallRows, Days
<1>3. {listing, edit} \subseteq CallRows /\ CheckedRow(listing) /\ CheckedRow(edit)
  BY DEF CallsInv, CallsPart!TypeOK, CallsPart!Days, Days, CallRows
<1>4. CheckedRow(listing)' /\ CheckedRow(edit)'
  BY <1>2, <1>3 DEF CheckedRow
<1> QED  BY <1>1, <1>4 DEF CallsInv, CallsPart!TypeOK, CallsPart!Days, Days, CallRows

LEMMA ConfirmedCalls ==
  ASSUME NEW calls, NEW d \in Days
  PROVE  /\ CallsPart!Confirmed(calls, d) \in [Deadlines -> Days]
         /\ \A c \in Deadlines : CallsPart!Confirmed(calls, d)[c] = IF c \in calls THEN d ELSE 0
  BY BoundsAssumption DEF CallsPart!Confirmed, Days

LEMMA CallsStep == CallsInv /\ [CallsPart!Next]_callsVars => CallsInv'
<1> SUFFICES ASSUME CallsInv, [CallsPart!Next]_callsVars  PROVE CallsInv'
  OBVIOUS
<1>0. /\ today \in Days \ {0} /\ sitePages \in SUBSET Deadlines /\ config \in SUBSET Deadlines
      /\ staged \in [calls : SUBSET Deadlines, checked : Days] /\ staged.checked <= today
      /\ checker \in Days /\ checker <= today /\ {listing, edit} \subseteq CallRows
      /\ readOn \in [Deadlines -> Days]
  BY DEF CallsInv, CallsPart!TypeOK, CallsPart!Days, Days, CallRows
<1>1. CASE CallsPart!DayPasses
  <2>1. today' \in Days \ {0} /\ today <= today' /\ checker <= today' /\ staged.checked <= today'
    BY <1>0, <1>1, BoundsAssumption DEF CallsPart!DayPasses, Days
  <2> QED  BY <1>0, <1>1, <2>1, CallsGo DEF CallsPart!DayPasses
<1>2. CASE CallsPart!PagesChange
  BY <1>0, <1>2, CallsGo DEF CallsPart!PagesChange, Days
<1>3. CASE CallsPart!Stage
  <2>1. CallsPart!Open(sitePages, today) \in SUBSET Deadlines
    BY <1>0 DEF CallsPart!Open
  <2>2. staged' \in [calls : SUBSET Deadlines, checked : Days] /\ staged'.checked = today
    BY <1>0, <1>3, <2>1 DEF CallsPart!Stage
  <2> QED  BY <1>0, <1>3, <2>1, <2>2, CallsGo DEF CallsPart!Stage, Days
<1>4. CASE CallsPart!StageAgain
  <2>1. staged' \in [calls : SUBSET Deadlines, checked : Days] /\ staged'.checked = today
    BY <1>0, <1>4 DEF CallsPart!StageAgain
  <2>2. staged.calls \intersect CallsPart!Open(sitePages, today) \in SUBSET Deadlines
    BY <1>0
  <2> QED  BY <1>0, <1>4, <2>1, <2>2, CallsGo DEF CallsPart!StageAgain, Days
<1>5. CASE CallsPart!Publish
  <2>1. listing' = [tier |-> "verified_index", by |-> "reading",
                    calls |-> CallsPart!Confirmed(staged.calls, staged.checked),
                    checked |-> staged.checked, verified |-> staged.checked]
    BY <1>5 DEF CallsPart!Publish
  <2>2. listing' \in CallRows /\ listing'.by = "reading"
    BY <1>0, <2>1, ConfirmedCalls DEF CallRows
  <2> QED  BY <1>0, <1>5, <2>2, CallsGo DEF CallsPart!Publish, CheckedRow, Days
<1>6. CASE CallsPart!ApplyChanges
  <2>1. listing' \in CallRows /\ listing'.by = listing.by /\ listing'.calls = listing.calls /\ listing'.checked = listing.checked
    BY <1>0, <1>6 DEF CallsPart!ApplyChanges, CallRows
  <2>2. CheckedRow(listing)'
    BY <1>6, <2>1 DEF CallsPart!ApplyChanges, CallsInv, CheckedRow
  <2> QED  BY <1>0, <1>6, <2>1, <2>2, CallsGo DEF CallsPart!ApplyChanges, Days
<1>7. CASE CallsPart!CreateByHand
  <2>1. listing' \in CallRows /\ listing'.by = "none"
    BY <1>0, <1>7, BoundsAssumption DEF CallsPart!CreateByHand, CallsPart!NoVenue, CallRows, Days
  <2> QED  BY <1>0, <1>7, <2>1, CallsGo DEF CallsPart!CreateByHand, CheckedRow, Days
<1>8. CASE CallsPart!SaveConfig
  <2>1. listing' \in CallRows /\ listing'.by = listing.by /\ listing'.calls = listing.calls /\ listing'.checked = listing.checked
    BY <1>0, <1>8 DEF CallsPart!SaveConfig, CallRows
  <2>2. CheckedRow(listing)'
    BY <1>8, <2>1 DEF CallsPart!SaveConfig, CallsInv, CheckedRow
  <2> QED  BY <1>0, <1>8, <2>1, <2>2, CallsGo DEF CallsPart!SaveConfig, Days
<1>9. CASE CallsPart!EditLoads
  BY <1>0, <1>9, CallsGo DEF CallsPart!EditLoads, Days
<1>10. CASE CallsPart!EditSaves
  <2>1. listing' \in CallRows /\ listing'.by = edit.by /\ listing'.calls = edit.calls /\ listing'.checked = edit.checked
    BY <1>0, <1>10 DEF CallsPart!EditSaves, CallRows
  <2>2. CheckedRow(listing)'
    BY <1>10, <2>1 DEF CallsPart!EditSaves, CallsInv, CheckedRow
  <2>3. CallsPart!NoVenue \in CallRows /\ CallsPart!NoVenue.by = "none"
    BY BoundsAssumption DEF CallsPart!NoVenue, CallRows, Days
  <2>4. edit' \in CallRows /\ CheckedRow(edit)'
    BY <1>10, <2>3 DEF CallsPart!EditSaves, CheckedRow
  <2> QED  BY <1>0, <1>10, <2>1, <2>2, <2>4, CallsGo DEF CallsPart!EditSaves, Days
<1>11. CASE CallsPart!CheckStarts
  BY <1>0, <1>11, CallsGo DEF CallsPart!CheckStarts, Days
<1>12. CASE CallsPart!CheckSucceeds
  <2>1. PICK found : found = CallsPart!Open(sitePages, checker)
    OBVIOUS
  <2>2. found \in SUBSET Deadlines
    BY <1>0, <2>1 DEF CallsPart!Open
  <2>3. PICK calls : /\ calls = CallsPart!Confirmed(found, checker) /\ calls \in [Deadlines -> Days]
                     /\ \A c \in Deadlines : calls[c] = IF c \in found THEN checker ELSE 0
    BY <1>0, ConfirmedCalls
  <2>4. /\ listing' = [listing EXCEPT !.by = "check", !.calls = calls, !.checked = checker]
        /\ readOn' = CallsPart!Read(found)
        /\ checker > 0
    BY <1>12, <2>1, <2>3 DEF CallsPart!CheckSucceeds
  <2>5. listing' \in CallRows /\ listing'.calls = calls /\ listing'.checked = checker
    BY <1>0, <2>3, <2>4 DEF CallRows
  <2>6. \A c \in Deadlines : calls[c] <= readOn'[c]
    BY <1>0, <2>3, <2>4, BoundsAssumption DEF CallsPart!Read, Days
  <2>7. CheckedRow(listing)'
    BY <2>4, <2>5, <2>6 DEF CheckedRow
  <2> QED  BY <1>0, <1>12, <2>2, <2>4, <2>5, <2>7, BoundsAssumption, CallsGo DEF CallsPart!CheckSucceeds, Days
<1>13. CASE CallsPart!CheckFails
  BY <1>0, <1>13, BoundsAssumption, CallsGo DEF CallsPart!CheckFails, Days
<1>14. CASE UNCHANGED callsVars
  BY <1>14 DEF callsVars, CallsInv, CallsPart!TypeOK, CheckedRow
<1> QED
  BY <1>1, <1>2, <1>3, <1>4, <1>5, <1>6, <1>7, <1>8, <1>9, <1>10, <1>11, <1>12, <1>13, <1>14 DEF CallsPart!Next

LEMMA CallsAreFresh == CallsInv => CallsPart!CheckedCallsAreFresh
<1> SUFFICES ASSUME CallsInv, listing.tier = "verified_index", listing.by = "check",
                    NEW c \in CallsPart!Visible
             PROVE  CallsPart!Fresh(c)
  BY DEF CallsPart!CheckedCallsAreFresh
<1>1. listing.checked > 0 /\ c \in Deadlines /\ listing.calls[c] <= readOn[c]
  BY DEF CallsInv, CheckedRow, CallsPart!Visible, CallsPart!Open
<1>2. listing.calls[c] > 0 /\ listing.calls[c] + Window >= today
  BY <1>1 DEF CallsPart!Visible, CallsPart!Candidates
<1>3. listing.calls[c] \in Days /\ readOn[c] \in Days /\ today \in Days
  BY <1>1 DEF CallsInv, CallsPart!TypeOK, CallsPart!Days, Days
<1> QED  BY <1>1, <1>2, <1>3, BoundsAssumption DEF CallsPart!Fresh, Days

(***************************************************************************)
(* Accounts.                                                               *)
(***************************************************************************)

Passwords == 0..MaxPasswords
Accounts == [password : Passwords, changedAt : 0..LastSecond, setUp : 0..1]
AccountPlaces == {"idle", "register", "issue", "change", "direct", "reset", "verify", "set up"}

\* A session follows a change of the password that has been, and one that follows
\* the last is not older than it.
SessionsFollow ==
    /\ account.changedAt <= second
    /\ \A s \in sessions : /\ s.change <= account.password
                           /\ s.change = account.password => account.changedAt <= s.iat
    /\ accountAt = [q \in Requests |-> accountAt[q]]
    /\ \A q \in Requests : accountAt[q].at = "issue" => accountAt[q].change \in 0..account.password

AccountInv == AccountPart!TypeOK /\ SessionsFollow

AccountOnlyGrows == account'.password >= account.password /\ account'.setUp >= account.setUp

LEMMA AccountInit == AccountPart!Init => AccountInv
<1> SUFFICES ASSUME AccountPart!Init  PROVE AccountInv
  OBVIOUS
<1>1. account \in Accounts /\ account.changedAt = 0
  BY BoundsAssumption DEF AccountPart!Init, AccountPart!NoAccount, Accounts, Passwords
<1>2. second \in 1..LastSecond /\ 0 <= second
  BY BoundsAssumption DEF AccountPart!Init
<1>3. /\ accountAt = [q \in Requests |-> accountAt[q]]
      /\ \A q \in Requests : accountAt[q].at = "idle"
  BY DEF AccountPart!Init, AccountPart!Idle
<1> QED
  BY <1>1, <1>2, <1>3 DEF AccountPart!Init, AccountInv, AccountPart!TypeOK, SessionsFollow, Accounts, Passwords

\* The request q goes on to where, and saves the row.
LEMMA AccountGoes ==
  ASSUME AccountInv, NEW q \in Requests, NEW where, AccountPart!Goto(q, where), UNCHANGED <<who, second>>,
         where.at \in AccountPlaces, where.at = "issue" => where.change \in 0..account'.password,
         account' \in Accounts, account'.password >= account.password, account'.changedAt <= second,
         account'.password = account.password => account'.changedAt = account.changedAt,
         links' \subseteq [for : {"verify", "reset"}, password : Passwords],
         \A s \in sessions' : \/ s \in sessions
                              \/ /\ s \in [iat : 1..LastSecond, change : Passwords]
                                 /\ s.change <= account'.password /\ account'.changedAt <= s.iat
  PROVE  AccountInv'
<1>0. /\ account \in Accounts /\ second \in 1..LastSecond
      /\ sessions \subseteq [iat : 1..LastSecond, change : Passwords]
  BY DEF AccountInv, AccountPart!TypeOK, Accounts, Passwords
<1>1. /\ accountAt' = [x \in Requests |-> accountAt'[x]]
      /\ accountAt'[q] = where
      /\ \A x \in Requests \ {q} : accountAt'[x] = accountAt[x]
  BY DEF AccountInv, SessionsFollow, AccountPart!Goto
<1>2. ASSUME NEW x \in Requests
      PROVE  /\ accountAt'[x].at \in AccountPlaces
             /\ accountAt'[x].at = "issue" => accountAt'[x].change \in 0..account'.password
  <2>1. CASE x = q
    BY <1>1, <2>1
  <2>2. CASE x # q
    <3>1. accountAt'[x] = accountAt[x] /\ accountAt[x].at \in AccountPlaces
      BY <1>1, <2>2 DEF AccountInv, AccountPart!TypeOK, AccountPlaces
    <3>2. accountAt[x].at = "issue" => accountAt[x].change \in 0..account.password
      BY DEF AccountInv, SessionsFollow
    <3>3. account.password \in Nat /\ account'.password \in Nat
      BY <1>0, BoundsAssumption DEF Accounts, Passwords
    <3>4. \A n \in 0..account.password : n \in 0..account'.password
      BY <3>3
    <3> QED  BY <3>1, <3>2, <3>4
  <2> QED  BY <2>1, <2>2
<1>3. \A s \in sessions' : /\ s \in [iat : 1..LastSecond, change : Passwords]
                           /\ s.change <= account'.password
                           /\ s.change = account'.password => account'.changedAt <= s.iat
  BY <1>0, BoundsAssumption DEF AccountInv, SessionsFollow, Accounts, Passwords
<1> QED
  BY <1>1, <1>2, <1>3 DEF AccountInv, AccountPart!TypeOK, SessionsFollow, AccountPlaces, Accounts, Passwords

LEMMA AccountStep ==
  AccountInv /\ [AccountPart!Next]_accountVars => AccountInv' /\ AccountOnlyGrows
<1> SUFFICES ASSUME AccountInv, [AccountPart!Next]_accountVars  PROVE AccountInv' /\ AccountOnlyGrows
  OBVIOUS
<1>0. /\ account \in Accounts /\ second \in 1..LastSecond /\ account.changedAt <= second
      /\ sessions \subseteq [iat : 1..LastSecond, change : Passwords]
      /\ links \subseteq [for : {"verify", "reset"}, password : Passwords]
  BY DEF AccountInv, AccountPart!TypeOK, SessionsFollow, Accounts, Passwords
<1>1. account.password \in Passwords /\ account.setUp \in 0..1 /\ account.changedAt \in 0..LastSecond
  BY <1>0 DEF Accounts
<1>2. AccountPart!Idle.at = "idle" /\ "idle" \in AccountPlaces
  BY DEF AccountPart!Idle, AccountPlaces
<1>3. UNCHANGED account => AccountOnlyGrows
  BY <1>1, BoundsAssumption DEF AccountOnlyGrows, Passwords
<1>4. CASE AccountPart!Tick
  <2>1. second' \in 1..LastSecond /\ account.changedAt <= second'
    BY <1>0, <1>1, <1>4, BoundsAssumption DEF AccountPart!Tick
  <2> QED  BY <1>3, <1>4, <2>1 DEF AccountPart!Tick, AccountInv, AccountPart!TypeOK, SessionsFollow
<1>5. CASE AccountPart!RequestReset \/ AccountPart!Resend
  <2>1. links' \subseteq [for : {"verify", "reset"}, password : Passwords]
    BY <1>0, <1>1, <1>5, BoundsAssumption DEF AccountPart!RequestReset, AccountPart!Resend, Passwords
  <2>2. UNCHANGED <<who, second, account, sessions, accountAt>>
    BY <1>5 DEF AccountPart!RequestReset, AccountPart!Resend
  <2> QED  BY <1>3, <2>1, <2>2 DEF AccountInv, AccountPart!TypeOK, SessionsFollow, Passwords
<1>6. ASSUME NEW s \in sessions, AccountPart!Logout(s)  PROVE AccountInv' /\ AccountOnlyGrows
  BY <1>3, <1>6 DEF AccountPart!Logout, AccountInv, AccountPart!TypeOK, SessionsFollow
<1>7. ASSUME NEW q \in Requests, AccountPart!Issue(q)  PROVE AccountInv' /\ AccountOnlyGrows
  <2>1. accountAt[q].change \in 0..account.password
    BY <1>7 DEF AccountPart!Issue, AccountInv, SessionsFollow
  <2>2. PICK s : s = [iat |-> second, change |-> accountAt[q].change]
    OBVIOUS
  <2>3. /\ s \in [iat : 1..LastSecond, change : Passwords]
        /\ s.change <= account.password /\ account.changedAt <= s.iat
    BY <1>0, <1>1, <2>1, <2>2, BoundsAssumption DEF Passwords
  <2>4. sessions' = sessions \union {s} /\ AccountPart!Goto(q, AccountPart!Idle) /\ UNCHANGED <<who, second, account, links>>
    BY <1>7, <2>2 DEF AccountPart!Issue
  <2>5. \A x \in sessions' : x \in sessions \/ (/\ x \in [iat : 1..LastSecond, change : Passwords]
                                                /\ x.change <= account'.password /\ account'.changedAt <= x.iat)
    BY <2>3, <2>4
  <2> QED  BY <1>0, <1>1, <1>2, <1>3, <2>4, <2>5, BoundsAssumption, AccountGoes DEF Passwords
\* The handlers that only load the row.
<1>8. ASSUME NEW q \in Requests, NEW where, AccountPart!Goto(q, where), UNCHANGED <<who, second, account, links, sessions>>,
             where.at \in AccountPlaces, where.at = "issue" => where.change = 0
      PROVE  AccountInv' /\ AccountOnlyGrows
  BY <1>0, <1>1, <1>3, <1>8, BoundsAssumption, AccountGoes DEF Passwords
<1>9. \A handler \in AccountPlaces : AccountPart!Loaded(handler).at = handler
  BY DEF AccountPart!Loaded
<1>10. ASSUME NEW q \in Requests, AccountPart!LoadRegister(q) \/ AccountPart!LoadReset(q) \/ AccountPart!LoadVerify(q)
                                   \/ AccountPart!LoadSetUp(q) \/ AccountPart!LoadChange(q)
       PROVE  AccountInv' /\ AccountOnlyGrows
  <2>1. PICK handler \in {"register", "reset", "verify", "set up", "change", "direct"} :
          AccountPart!Goto(q, AccountPart!Loaded(handler))
    BY <1>10 DEF AccountPart!LoadRegister, AccountPart!LoadReset, AccountPart!LoadVerify, AccountPart!LoadSetUp, AccountPart!LoadChange
  <2>2. UNCHANGED <<who, second, account, links, sessions>>
    BY <1>10 DEF AccountPart!LoadRegister, AccountPart!LoadReset, AccountPart!LoadVerify, AccountPart!LoadSetUp, AccountPart!LoadChange
  <2>3. handler \in AccountPlaces /\ handler # "issue"
    BY DEF AccountPlaces
  <2> QED  BY <1>8, <1>9, <2>1, <2>2, <2>3
<1>11. ASSUME NEW q \in Requests, AccountPart!Login(q)  PROVE AccountInv' /\ AccountOnlyGrows
  <2>1. PICK where : where = AccountPart!ToIssue(0)
    OBVIOUS
  <2>2. where.at = "issue" /\ where.change = 0 /\ where.at \in AccountPlaces
    BY <2>1 DEF AccountPart!ToIssue, AccountPlaces
  <2>3. AccountPart!Goto(q, where) /\ UNCHANGED <<who, second, account, links, sessions>>
    BY <1>11, <2>1 DEF AccountPart!Login
  <2> QED  BY <1>8, <2>2, <2>3
<1>12. ASSUME NEW q \in Requests, AccountPart!Register(q)  PROVE AccountInv' /\ AccountOnlyGrows
  <2>1. CASE account # AccountPart!NoAccount
    BY <1>2, <1>8, <1>12, <2>1 DEF AccountPart!Register
  <2>2. CASE account = AccountPart!NoAccount
    <3>1. /\ account' = [AccountPart!NoAccount EXCEPT !.password = 1]
          /\ AccountPart!Goto(q, AccountPart!ToIssue(0))
          /\ UNCHANGED <<who, second, sessions>>
      BY <1>12, <2>2 DEF AccountPart!Register
    <3>2. /\ account' \in Accounts /\ account'.password = 1 /\ account'.changedAt = 0 /\ account'.setUp = 0
          /\ account.password = 0 /\ account.setUp = 0
      BY <2>2, <3>1, BoundsAssumption DEF AccountPart!NoAccount, Accounts, Passwords
    <3>3. links' \subseteq [for : {"verify", "reset"}, password : Passwords]
      BY <1>0, <1>12, <2>2, BoundsAssumption DEF AccountPart!Register, Passwords
    <3>4. PICK where : where = AccountPart!ToIssue(0)
      OBVIOUS
    <3>6. where.at = "issue" /\ where.change = 0 /\ where.at \in AccountPlaces
      BY <3>4 DEF AccountPart!ToIssue, AccountPlaces
    <3>7. 0 \in 0..account'.password /\ account'.password >= account.password /\ account'.changedAt <= second
      BY <1>0, <3>2
    <3>8. AccountPart!Goto(q, where)
      BY <3>1, <3>4
    <3>5. AccountOnlyGrows
      BY <3>2 DEF AccountOnlyGrows
    <3> QED  BY <3>1, <3>2, <3>3, <3>5, <3>6, <3>7, <3>8, AccountGoes
  <2> QED  BY <2>1, <2>2
\* The password becomes the next one, now.
<1>13. ASSUME account.password < MaxPasswords
       PROVE  /\ AccountPart!NewPassword(account) \in Accounts
              /\ AccountPart!NewPassword(account).password = account.password + 1
              /\ AccountPart!NewPassword(account).changedAt = second
              /\ AccountPart!NewPassword(account).setUp = account.setUp
  <2>1. PICK next \in Passwords : next = account.password + 1
    BY <1>1, <1>13, BoundsAssumption DEF Passwords
  <2>2. PICK moment \in 0..LastSecond : moment = second
    BY <1>0
  <2>3. PICK row : row = [account EXCEPT !.password = next, !.changedAt = moment]
    OBVIOUS
  <2>4. row \in Accounts /\ row.password = next /\ row.changedAt = moment /\ row.setUp = account.setUp
    BY <1>0, <2>3 DEF Accounts
  <2>5. AccountPart!NewPassword(account) = row
    BY <2>1, <2>2, <2>3 DEF AccountPart!NewPassword
  <2> QED  BY <2>1, <2>2, <2>4, <2>5
<1>14. ASSUME NEW q \in Requests, AccountPart!Change(q)  PROVE AccountInv' /\ AccountOnlyGrows
  <2>1. /\ account' \in Accounts /\ account'.password = account.password + 1 /\ account'.changedAt = second
        /\ account'.setUp = account.setUp /\ UNCHANGED <<who, second, links, sessions>>
    BY <1>13, <1>14 DEF AccountPart!Change
  <2>2. AccountOnlyGrows
    BY <1>1, <2>1, BoundsAssumption DEF AccountOnlyGrows, Passwords
  <2>3. PICK where : where = IF accountAt[q].at = "change" THEN AccountPart!ToIssue(account'.password) ELSE AccountPart!Idle
    OBVIOUS
  <2>4. AccountPart!Goto(q, where)
    BY <1>14, <2>3 DEF AccountPart!Change
  <2>5. where.at \in AccountPlaces /\ (where.at = "issue" => where.change = account'.password)
    BY <2>3 DEF AccountPart!ToIssue, AccountPart!Idle, AccountPlaces
  <2>6. where.at = "issue" => where.change \in 0..account'.password
    BY <1>1, <2>1, <2>5, BoundsAssumption DEF Passwords
  <2> QED  BY <1>0, <1>1, <2>1, <2>2, <2>4, <2>5, <2>6, BoundsAssumption, AccountGoes DEF Passwords
<1>15. ASSUME NEW q \in Requests, AccountPart!Reset(q)  PROVE AccountInv' /\ AccountOnlyGrows
  <2>1. /\ account' = [AccountPart!NewPassword(account) EXCEPT !.setUp = 1] /\ account.password < MaxPasswords
        /\ AccountPart!Goto(q, AccountPart!Idle) /\ UNCHANGED <<who, second, links, sessions>>
    BY <1>15 DEF AccountPart!Reset
  <2>2. /\ account' \in Accounts /\ account'.password = account.password + 1 /\ account'.changedAt = second
        /\ account'.setUp = 1
    BY <1>13, <2>1 DEF Accounts
  <2>3. AccountOnlyGrows
    BY <1>1, <2>2, BoundsAssumption DEF AccountOnlyGrows, Passwords
  <2> QED  BY <1>0, <1>1, <1>2, <2>1, <2>2, <2>3, BoundsAssumption, AccountGoes DEF Passwords
<1>16. ASSUME NEW q \in Requests, AccountPart!SaveSetUp(q)  PROVE AccountInv' /\ AccountOnlyGrows
  <2>1. account' = [account EXCEPT !.setUp = 1] /\ AccountPart!Goto(q, AccountPart!Idle) /\ UNCHANGED <<who, second, links, sessions>>
    BY <1>16 DEF AccountPart!SaveSetUp
  <2>2. account' \in Accounts /\ account'.password = account.password /\ account'.changedAt = account.changedAt /\ account'.setUp = 1
    BY <1>0, <2>1 DEF Accounts
  <2>3. AccountOnlyGrows
    BY <1>1, <2>2, BoundsAssumption DEF AccountOnlyGrows, Passwords
  <2> QED  BY <1>0, <1>1, <1>2, <2>1, <2>2, <2>3, BoundsAssumption, AccountGoes DEF Passwords
<1>17. CASE UNCHANGED accountVars
  BY <1>3, <1>17 DEF accountVars, AccountInv, AccountPart!TypeOK, SessionsFollow
<1> QED
  BY <1>4, <1>5, <1>6, <1>7, <1>10, <1>11, <1>12, <1>14, <1>15, <1>16, <1>17 DEF AccountPart!Next

LEMMA BrowserSignedIn == AccountInv => AccountPart!ChangedBrowserSignedIn
<1> SUFFICES ASSUME AccountInv, NEW s \in sessions, s.change = account.password,
                    s.iat + SessionSeconds >= second
             PROVE  AccountPart!Valid(s)
  BY DEF AccountPart!ChangedBrowserSignedIn
<1>1. account.changedAt <= s.iat
  BY DEF AccountInv, SessionsFollow
<1>2. s \in [iat : 1..LastSecond, change : Passwords] /\ account \in Accounts
  BY DEF AccountInv, AccountPart!TypeOK, Accounts, Passwords
<1>3. s.iat \in 1..LastSecond /\ account.changedAt \in 0..LastSecond
  BY <1>2 DEF Accounts
<1>4. ~(s.iat < account.changedAt)
  BY <1>1, <1>3, BoundsAssumption
<1> QED  BY <1>4 DEF AccountPart!Valid, AccountPart!BeforeChange

(***************************************************************************)
(* Backup and restore.                                                     *)
(***************************************************************************)

Attempts == BackupPart!Attempts
Steps == {"dump", "archive", "verify", "rename", "purge", "report", "write", "done", "over"}
Bundles == [place : {"none", "partial", "final"}, rows : SUBSET Uploads,
            media : SUBSET Uploads, manifest : {"none", "verified", "torn"}]
Over == {"done", "over"}

\* Where the bundle of an attempt is while the attempt is at that step.
PlaceOf(step) ==
    CASE step = "dump" -> "none"
      [] step \in {"archive", "verify", "rename"} -> "partial"
      [] OTHER -> "final"

\* The bundle of an attempt at work is where the attempt has put it, since no bundle
\* passes its retention while it is made.
AtWork == \A b \in Attempts : attempt[b] \notin Over => bundle[b].place = PlaceOf(attempt[b]) /\ b \notin old

\* What the restore has in hand.
Restores ==
    {BackupPart!Idle}
    \union [at : {"database", "aside"}, bundle : Attempts, staged : SUBSET Uploads]
    \union [at : {"place"}, staged : SUBSET Uploads, aside : BOOLEAN, previous : SUBSET Uploads]

BackupInv == BackupPart!TypeOK /\ AtWork /\ restore \in Restores

\* The step of NothingDestroyed.
NothingGoes ==
    /\ BackupPart!Final # {} => BackupPart!Final' # {}
    /\ restore' # restore => BackupPart!OnDisk \subseteq BackupPart!OnDisk'

LEMMA BackupInit == BackupPart!Init => BackupInv
<1> SUFFICES ASSUME BackupPart!Init  PROVE BackupInv
  OBVIOUS
<1>1. /\ bundle \in [Attempts -> Bundles] /\ attempt \in [Attempts -> Steps]
      /\ \A b \in Attempts : attempt[b] = "dump" /\ bundle[b].place = "none" /\ b \notin old
  BY DEF BackupPart!Init, BackupPart!NoBundle, Attempts, Bundles, Steps
<1>2. AtWork
  BY <1>1 DEF AtWork, PlaceOf
<1>3. restore \in Restores /\ restore.at = "idle"
  BY DEF BackupPart!Init, BackupPart!Idle, Restores
<1>4. 0 \in 0..MaxRestores
  BY BoundsAssumption
<1> QED
  BY <1>1, <1>2, <1>3, <1>4 DEF BackupPart!Init, BackupInv, BackupPart!TypeOK, Attempts, Bundles, Steps

\* The attempt b goes on to its next step, with its bundle as it is then; the others stay.
LEMMA AttemptGoes ==
  ASSUME BackupInv, NEW b \in Attempts, NEW step \in Steps, NEW new \in Bundles,
         attempt[b] \notin Over, BackupPart!NextIs(b, step), BackupPart!Bundled(b, new),
         step \notin Over => new.place = PlaceOf(step), new.place = "final" \/ bundle[b].place # "final",
         UNCHANGED <<rows, media, root, kept, old, restore, restores>>
  PROVE  BackupInv' /\ NothingGoes
<1>0. attempt \in [Attempts -> Steps] /\ bundle \in [Attempts -> Bundles]
  BY DEF BackupInv, BackupPart!TypeOK, Attempts, Bundles, Steps
<1>1. /\ attempt' \in [Attempts -> Steps] /\ bundle' \in [Attempts -> Bundles]
      /\ attempt'[b] = step /\ bundle'[b] = new
      /\ \A c \in Attempts \ {b} : attempt'[c] = attempt[c] /\ bundle'[c] = bundle[c]
  BY <1>0 DEF BackupPart!NextIs, BackupPart!Bundled
<1>2. AtWork'
  BY <1>1 DEF BackupInv, AtWork, PlaceOf, Attempts, BackupPart!Attempts
<1>3. BackupPart!TypeOK' /\ (restore \in Restores)'
  BY <1>1 DEF BackupInv, BackupPart!TypeOK, Attempts, Bundles, Steps, Restores, BackupPart!Attempts, BackupPart!Idle
<1>4. \A c \in Attempts : bundle[c].place = "final" => bundle'[c].place = "final"
  BY <1>1
<1>5. BackupPart!Final \subseteq BackupPart!Final'
  BY <1>4 DEF BackupPart!Final, Attempts, BackupPart!Attempts
<1> QED  BY <1>2, <1>3, <1>5 DEF BackupInv, NothingGoes

\* Some bundles that no attempt works on are removed, as the attempt b goes on.
LEMMA Removing ==
  ASSUME BackupInv, NEW b \in Attempts, NEW step \in Steps, NEW S \in SUBSET Attempts,
         attempt[b] \notin Over, BackupPart!NextIs(b, step), bundle' = BackupPart!Without(S),
         \A c \in S \ {b} : c \in old, step \notin Over => b \notin S /\ bundle[b].place = PlaceOf(step),
         BackupPart!Final # {} => BackupPart!Final \ S # {},
         UNCHANGED <<rows, media, root, kept, old, restore, restores>>
  PROVE  BackupInv' /\ NothingGoes
<1>0. attempt \in [Attempts -> Steps] /\ bundle \in [Attempts -> Bundles]
  BY DEF BackupInv, BackupPart!TypeOK, Attempts, Bundles, Steps
<1>1. /\ attempt' \in [Attempts -> Steps] /\ attempt'[b] = step
      /\ \A c \in Attempts \ {b} : attempt'[c] = attempt[c]
  BY <1>0 DEF BackupPart!NextIs
<1>2. BackupPart!NoBundle \in Bundles
  BY DEF BackupPart!NoBundle, Bundles
<1>3. bundle' \in [Attempts -> Bundles] /\ \A c \in Attempts \ S : bundle'[c] = bundle[c]
  BY <1>0, <1>2 DEF BackupPart!Without, Attempts
<1>4. AtWork'
  <2> SUFFICES ASSUME NEW c \in Attempts, attempt'[c] \notin Over
               PROVE  bundle'[c].place = PlaceOf(attempt'[c]) /\ c \notin old
    BY DEF AtWork, Attempts, BackupPart!Attempts
  <2>1. CASE c = b
    BY <1>1, <1>3, <2>1 DEF BackupInv, AtWork
  <2>2. CASE c # b
    BY <1>1, <1>3, <2>2 DEF BackupInv, AtWork
  <2> QED  BY <2>1, <2>2
<1>5. BackupPart!TypeOK' /\ (restore \in Restores)'
  BY <1>1, <1>3 DEF BackupInv, BackupPart!TypeOK, Attempts, Bundles, Steps, Restores, BackupPart!Attempts, BackupPart!Idle
<1>6. BackupPart!Final \ S \subseteq BackupPart!Final'
  BY <1>3 DEF BackupPart!Final, Attempts, BackupPart!Attempts
<1> QED  BY <1>4, <1>5, <1>6 DEF BackupInv, NothingGoes

\* The attempts of a backup.
LEMMA AttemptSteps ==
  ASSUME BackupInv, NEW b \in Attempts,
         \/ BackupPart!Dump(b) \/ BackupPart!Archive(b) \/ BackupPart!Verify(b) \/ BackupPart!Rename(b)
         \/ BackupPart!Truncate(b) \/ BackupPart!Report(b) \/ BackupPart!Dies(b)
  PROVE  BackupInv' /\ NothingGoes
<1>0. /\ bundle[b] \in Bundles /\ rows \in SUBSET Uploads /\ media \in SUBSET Uploads
      /\ attempt[b] \notin Over => bundle[b].place = PlaceOf(attempt[b])
  BY DEF BackupInv, BackupPart!TypeOK, AtWork, Attempts, Bundles
<1>1. CASE BackupPart!Dump(b)
  <2>1. PICK new : new = [BackupPart!NoBundle EXCEPT !.place = "partial", !.rows = rows]
    OBVIOUS
  <2>2. new \in Bundles /\ new.place = "partial"
    BY <1>0, <2>1 DEF BackupPart!NoBundle, Bundles
  <2>3. /\ attempt[b] = "dump" /\ BackupPart!NextIs(b, "archive") /\ BackupPart!Bundled(b, new)
        /\ UNCHANGED <<rows, media, root, kept, old, restore, restores>>
    BY <1>1, <2>1 DEF BackupPart!Dump, BackupPart!appVars
  <2>4. bundle[b].place # "final"
    BY <1>0, <2>3 DEF PlaceOf, Over
  <2> QED  BY <2>2, <2>3, <2>4, AttemptGoes DEF Over, Steps, PlaceOf
<1>2. CASE BackupPart!Archive(b)
  <2>1. PICK new : new = [bundle[b] EXCEPT !.media = media]
    OBVIOUS
  <2>2. new \in Bundles /\ new.place = bundle[b].place
    BY <1>0, <2>1 DEF Bundles
  <2>3. /\ attempt[b] = "archive" /\ BackupPart!NextIs(b, "verify") /\ BackupPart!Bundled(b, new)
        /\ UNCHANGED <<rows, media, root, kept, old, restore, restores>>
    BY <1>2, <2>1 DEF BackupPart!Archive, BackupPart!appVars
  <2> QED  BY <1>0, <2>2, <2>3, AttemptGoes DEF Over, Steps, PlaceOf
<1>3. CASE BackupPart!Verify(b) \/ BackupPart!Truncate(b) \/ BackupPart!Report(b)
  <2>1. PICK word \in {"verified", "torn"}, step \in {"rename", "write", "done"} :
          /\ BackupPart!NextIs(b, step) /\ BackupPart!Bundled(b, [bundle[b] EXCEPT !.manifest = word])
          /\ attempt[b] = CASE step = "rename" -> "verify" [] step = "write" -> "report" [] OTHER -> "write"
          /\ UNCHANGED <<rows, media, root, kept, old, restore, restores>>
    BY <1>3 DEF BackupPart!Verify, BackupPart!Truncate, BackupPart!Report, BackupPart!appVars
  <2>2. PICK new : new = [bundle[b] EXCEPT !.manifest = word]
    OBVIOUS
  <2>3. new \in Bundles /\ new.place = bundle[b].place
    BY <1>0, <2>2 DEF Bundles
  <2>4. attempt[b] \notin Over /\ (step \notin Over => PlaceOf(step) = PlaceOf(attempt[b]))
    BY <2>1 DEF Over, PlaceOf
  <2> QED  BY <1>0, <2>1, <2>2, <2>3, <2>4, AttemptGoes DEF Steps
<1>4. CASE BackupPart!Rename(b)
  <2>1. PICK new : new = [bundle[b] EXCEPT !.place = "final"]
    OBVIOUS
  <2>2. new \in Bundles /\ new.place = "final"
    BY <1>0, <2>1 DEF Bundles
  <2>3. /\ attempt[b] = "rename" /\ BackupPart!NextIs(b, "purge") /\ BackupPart!Bundled(b, new)
        /\ UNCHANGED <<rows, media, root, kept, old, restore, restores>>
    BY <1>4, <2>1 DEF BackupPart!Rename, BackupPart!appVars
  <2> QED  BY <2>2, <2>3, AttemptGoes DEF Over, Steps, PlaceOf
<1>5. CASE BackupPart!Dies(b)
  <2>1. BackupPart!Bundled(b, bundle[b])
    BY <1>5 DEF BackupPart!Dies, BackupPart!Bundled, BackupInv, BackupPart!TypeOK
  <2> QED  BY <1>0, <1>5, <2>1, AttemptGoes DEF BackupPart!Dies, BackupPart!appVars, Over, Steps
<1> QED  BY <1>1, <1>2, <1>3, <1>4, <1>5

\* The application, the clock and the restore: no bundle moves.
LEMMA BundlesStay ==
  ASSUME BackupInv, UNCHANGED <<attempt, bundle>>, old' \subseteq Attempts,
         \A b \in old' \ old : attempt[b] \in Over,
         rows' \subseteq Uploads, media' \subseteq Uploads, kept' \subseteq SUBSET Uploads,
         root' \in BOOLEAN, media' # {} => root', restore' \in Restores, restores' \in 0..MaxRestores,
         restore' # restore => BackupPart!OnDisk \subseteq BackupPart!OnDisk'
  PROVE  BackupInv' /\ NothingGoes
<1>1. AtWork'
  BY DEF BackupInv, AtWork, Attempts, BackupPart!Attempts
<1>2. restore'.at \in {"idle", "database", "aside", "place"}
  BY DEF Restores, BackupPart!Idle
<1>3. BackupPart!TypeOK' /\ (restore \in Restores)'
  BY <1>2 DEF BackupInv, BackupPart!TypeOK, Attempts, Restores, BackupPart!Attempts, BackupPart!Idle
<1>4. BackupPart!Final' = BackupPart!Final
  BY DEF BackupPart!Final, BackupPart!Attempts
<1> QED  BY <1>1, <1>3, <1>4 DEF BackupInv, NothingGoes

LEMMA BackupStep == BackupInv /\ [BackupPart!Next]_backupVars => BackupInv' /\ NothingGoes
<1> SUFFICES ASSUME BackupInv, [BackupPart!Next]_backupVars  PROVE BackupInv' /\ NothingGoes
  OBVIOUS
<1>0. /\ rows \subseteq Uploads /\ media \subseteq Uploads /\ kept \subseteq SUBSET Uploads
      /\ root \in BOOLEAN /\ (media # {} => root)
      /\ attempt \in [Attempts -> Steps] /\ bundle \in [Attempts -> Bundles]
      /\ old \subseteq Attempts /\ restore \in Restores /\ restores \in 0..MaxRestores
      /\ \A b \in old : attempt[b] \in Over
  BY DEF BackupInv, BackupPart!TypeOK, AtWork, Attempts, Bundles, Steps
<1>1. ASSUME NEW f \in Uploads, BackupPart!Upload(f) \/ BackupPart!Remove(f)  PROVE BackupInv' /\ NothingGoes
  BY <1>0, <1>1, BundlesStay DEF BackupPart!Upload, BackupPart!Remove
<1>2. ASSUME NEW b \in Attempts,
             \/ BackupPart!Dump(b) \/ BackupPart!Archive(b) \/ BackupPart!Verify(b) \/ BackupPart!Rename(b)
             \/ BackupPart!Truncate(b) \/ BackupPart!Report(b) \/ BackupPart!Dies(b)
      PROVE  BackupInv' /\ NothingGoes
  BY <1>2, AttemptSteps
<1>3. ASSUME NEW b \in Attempts, BackupPart!Purge(b)  PROVE BackupInv' /\ NothingGoes
  <2>1. PICK S : S = (BackupPart!Final \intersect old) \ {b}
    OBVIOUS
  <2>2. S \in SUBSET Attempts /\ b \notin S /\ \A c \in S : c \in old
    BY <1>0, <2>1
  <2>3. /\ attempt[b] = "purge" /\ bundle' = BackupPart!Without(S) /\ BackupPart!NextIs(b, "report")
        /\ UNCHANGED <<rows, media, root, kept, old, restore, restores>>
    BY <1>3, <2>1 DEF BackupPart!Purge, BackupPart!appVars
  <2>4. bundle[b].place = "final"
    BY <2>3 DEF BackupInv, AtWork, PlaceOf, Over
  <2>5. b \in BackupPart!Final
    BY <2>4 DEF BackupPart!Final, Attempts
  <2> QED  BY <2>2, <2>3, <2>4, <2>5, Removing DEF Over, Steps, PlaceOf
<1>4. ASSUME NEW b \in Attempts, BackupPart!Fail(b)  PROVE BackupInv' /\ NothingGoes
  <2>1. /\ attempt[b] \notin Over /\ BackupPart!NextIs(b, "over")
        /\ UNCHANGED <<rows, media, root, kept, old, restore, restores>>
    BY <1>4 DEF BackupPart!Fail, BackupPart!appVars, Over
  <2>2. CASE bundle[b].place = "partial"
    <3>1. BackupPart!Final \ {b} = BackupPart!Final
      BY <2>2 DEF BackupPart!Final
    <3>2. bundle' = BackupPart!Without({b})
      BY <1>4, <2>2 DEF BackupPart!Fail
    <3> QED  BY <2>1, <3>1, <3>2, Removing DEF Over, Steps
  <2>3. CASE bundle[b].place # "partial"
    <3>1. BackupPart!Bundled(b, bundle[b]) /\ bundle[b] \in Bundles
      BY <1>0, <1>4, <2>3 DEF BackupPart!Fail, BackupPart!Bundled
    <3> QED  BY <2>1, <3>1, AttemptGoes DEF Over, Steps
  <2> QED  BY <2>2, <2>3
<1>5. ASSUME NEW b \in Attempts, BackupPart!Expires(b)  PROVE BackupInv' /\ NothingGoes
  BY <1>0, <1>5, BundlesStay DEF BackupPart!Expires, BackupPart!appVars, Over
<1>6. ASSUME NEW b \in Attempts, BackupPart!Stage(b)  PROVE BackupInv' /\ NothingGoes
  <2>1. restores' \in 0..MaxRestores
    BY <1>0, <1>6, BoundsAssumption DEF BackupPart!Stage
  <2>2. bundle[b].media \in SUBSET Uploads
    BY <1>0 DEF Bundles
  <2>3. restore' \in Restores
    BY <1>6, <2>2 DEF BackupPart!Stage, Restores
  <2>4. UNCHANGED <<rows, media, root, kept, attempt, bundle, old>>
    BY <1>6 DEF BackupPart!Stage, BackupPart!appVars
  <2>5. BackupPart!OnDisk' = BackupPart!OnDisk
    BY <2>4 DEF BackupPart!OnDisk
  <2> QED  BY <1>0, <2>1, <2>3, <2>4, <2>5, BundlesStay
\* The restore, which puts directories aside and takes nothing away.
<1>7. CASE BackupPart!RestoreDatabase
  <2>1. restore.at = "database" /\ restore.bundle \in Attempts
    BY <1>0, <1>7 DEF BackupPart!RestoreDatabase, BackupPart!Final, Attempts
  <2>2. restore' \in Restores
    BY <1>0, <1>7, <2>1 DEF BackupPart!RestoreDatabase, Restores, BackupPart!Idle
  <2>3. rows' \in SUBSET Uploads
    BY <1>0, <1>7, <2>1 DEF BackupPart!RestoreDatabase, Bundles
  <2>4. UNCHANGED <<media, root, kept, attempt, bundle, old, restores>>
    BY <1>7 DEF BackupPart!RestoreDatabase
  <2>5. BackupPart!OnDisk' = BackupPart!OnDisk
    BY <2>4 DEF BackupPart!OnDisk
  <2> QED  BY <1>0, <2>2, <2>3, <2>4, <2>5, BundlesStay
<1>8. CASE BackupPart!PutAside
  <2>1. restore.staged \in SUBSET Uploads
    BY <1>0, <1>8 DEF BackupPart!PutAside, Restores, BackupPart!Idle
  <2>2. restore' \in Restores
    BY <1>0, <1>8, <2>1 DEF BackupPart!PutAside, Restores
  <2>3. BackupPart!OnDisk \subseteq BackupPart!OnDisk'
    BY <1>0, <1>8 DEF BackupPart!PutAside, BackupPart!OnDisk
  <2> QED  BY <1>0, <1>8, <2>2, <2>3, BundlesStay DEF BackupPart!PutAside
<1>9. CASE BackupPart!PutInPlace
  <2>1. restore.staged \in SUBSET Uploads
    BY <1>0, <1>9 DEF BackupPart!PutInPlace, Restores, BackupPart!Idle
  <2>2. BackupPart!OnDisk \subseteq BackupPart!OnDisk'
    BY <1>9 DEF BackupPart!PutInPlace, BackupPart!OnDisk
  <2>3. restore' \in Restores
    BY <1>9 DEF BackupPart!PutInPlace, Restores
  <2> QED  BY <1>0, <1>9, <2>1, <2>2, <2>3, BundlesStay DEF BackupPart!PutInPlace
<1>10. CASE BackupPart!PutBack
  <2>1. restore.previous \in SUBSET Uploads /\ restore.aside \in BOOLEAN
    BY <1>0, <1>10 DEF BackupPart!PutBack, Restores, BackupPart!Idle
  <2>2. BackupPart!OnDisk \subseteq BackupPart!OnDisk'
    BY <1>0, <1>10 DEF BackupPart!PutBack, BackupPart!OnDisk
  <2>3. restore' \in Restores
    BY <1>10 DEF BackupPart!PutBack, Restores
  <2>4. /\ media' \subseteq Uploads /\ kept' \subseteq SUBSET Uploads /\ root' \in BOOLEAN /\ (media' # {} => root')
        /\ UNCHANGED <<rows, attempt, bundle, old, restores>>
    BY <1>0, <1>10, <2>1 DEF BackupPart!PutBack
  <2> QED  BY <1>0, <2>2, <2>3, <2>4, BundlesStay
<1>11. CASE BackupPart!Interrupted
  <2>1. restore' \in Restores
    BY <1>11 DEF BackupPart!Interrupted, Restores
  <2>2. rows' \subseteq Uploads /\ UNCHANGED <<media, root, kept, attempt, bundle, old, restores>>
    BY <1>0, <1>11 DEF BackupPart!Interrupted
  <2>3. BackupPart!OnDisk' = BackupPart!OnDisk
    BY <2>2 DEF BackupPart!OnDisk
  <2> QED  BY <1>0, <2>1, <2>2, <2>3, BundlesStay
<1>12. CASE UNCHANGED backupVars
  BY <1>0, <1>12, BundlesStay DEF backupVars
<1> QED
  BY <1>1, <1>2, <1>3, <1>4, <1>5, <1>6, <1>7, <1>8, <1>9, <1>10, <1>11, <1>12 DEF BackupPart!Next, Attempts

(***************************************************************************)
(* The venue index.                                                        *)
(***************************************************************************)

\* The modules of the parts count as this one does.
LEMMA SameCount == \A S : CataloguePart!Cardinality(S) = Cardinality(S)
BY SMT DEF CataloguePart!Cardinality, Cardinality

SourceRows == [size : {0} \union JournalSizes, fields : CataloguePart!Fields]
IndexRows == [size : JournalSizes, missing : BOOLEAN, held : BOOLEAN, worklist : BOOLEAN]

\* A record has a size the catalogue once gave, so none is like NotIn.
Index == /\ index = [j \in Journals |-> index[j]]
         /\ \A j \in Journals : index[j] \in IndexRows \/ index[j] = CataloguePart!NotIn

Belongs(j) == j \in CataloguePart!Listed /\ CataloguePart!InScope(j)

Walks == [at : {"walk"}, method : {"subfield_filter", "keyword_search"}, todo : SUBSET CataloguePart!Listed,
          seen : SUBSET CataloguePart!Listed, cutoff : {0} \union JournalSizes]
Passes == Walks \union [at : {"none", "link"}] \union [at : {"worklist"}, todo : SUBSET Journals]

\* A walk by subfield has seen, or is yet to see, all that belongs to the index; what it
\* has kept is no smaller than what is left; and it is cut off when the index is full.
Walk ==
    pass.at = "walk" /\ pass.method = "subfield_filter" =>
        /\ \A j \in Journals : Belongs(j) => j \in pass.todo \union pass.seen
        /\ \A j \in pass.seen :
              /\ Belongs(j) /\ j \notin pass.todo
              /\ \A k \in pass.todo : source[k].size <= source[j].size
        /\ pass.cutoff > 0 => Cardinality(pass.seen) >= MaxRecords

CatalogueInv == source \in [Journals -> SourceRows] /\ Index /\ pass \in Passes /\ Walk

\* The step of NothingLostOfTheCatalogue, of a journal.
Kept(j) ==
    /\ CataloguePart!Removed(j) \/ CataloguePart!Flagged(j) =>
          \/ ~Belongs(j)
          \/ Cardinality({k \in CataloguePart!Listed \ {j} :
                 CataloguePart!InScope(k) /\ source[k].size >= source[j].size}) >= MaxRecords
    /\ CataloguePart!Removed(j) => ~index[j].held /\ ~index[j].worklist
AllKept == \A j \in Journals : Kept(j)

LEMMA CatalogueInit == CataloguePart!Init => CatalogueInv
<1> SUFFICES ASSUME CataloguePart!Init  PROVE CatalogueInv
  OBVIOUS
<1>1. source \in [Journals -> SourceRows] /\ Index
  BY DEF CataloguePart!Init, SourceRows, CataloguePart!Fields, Index
<1>2. pass \in Passes /\ pass.at # "walk"
  BY DEF CataloguePart!Init, Passes
<1> QED  BY <1>1, <1>2 DEF CatalogueInv, Walk

LEMMA CatalogueTypes == CatalogueInv => CataloguePart!TypeOK
<1> SUFFICES ASSUME CatalogueInv  PROVE CataloguePart!TypeOK
  OBVIOUS
<1>1. \A j \in CataloguePart!Indexed : index[j] \in IndexRows
  BY DEF CatalogueInv, Index, CataloguePart!Indexed
<1>2. pass.at \in {"none", "walk", "worklist", "link"}
  BY DEF CatalogueInv, Passes, Walks
<1> QED  BY <1>1, <1>2 DEF CatalogueInv, CataloguePart!TypeOK, SourceRows, IndexRows

LEMMA RowsDiffer == \A row \in IndexRows : row # CataloguePart!NotIn /\ row.size # 0
  BY BoundsAssumption DEF IndexRows, CataloguePart!NotIn

LEMMA SourceSizes ==
  \A row \in SourceRows : row.size \in {0} \union JournalSizes /\ row.size \in Nat
<1>1. \A row \in SourceRows : row.size \in {0} \union JournalSizes
  BY DEF SourceRows
<1>2. {0} \union JournalSizes \subseteq Nat
  BY BoundsAssumption
<1> QED  BY <1>1, <1>2

\* The record that is made of none.
LEMMA NewRecords ==
  /\ [CataloguePart!NotIn EXCEPT !.held = FALSE] = CataloguePart!NotIn
  /\ \A size \in JournalSizes :
        /\ [CataloguePart!NotIn EXCEPT !.size = size, !.missing = FALSE] \in IndexRows
        /\ ~[CataloguePart!NotIn EXCEPT !.size = size, !.missing = FALSE].missing
<1>1. PICK none, zero : none = CataloguePart!NotIn /\ zero = 0
  OBVIOUS
<1>2. none = [size |-> zero, missing |-> FALSE, held |-> FALSE, worklist |-> FALSE]
  BY <1>1 DEF CataloguePart!NotIn
<1>3. [none EXCEPT !.held = FALSE] = none
  <2>1. \A row \in [size : {zero}, missing : {FALSE}, held : {FALSE}, worklist : {FALSE}] :
          [row EXCEPT !.held = FALSE] = row
    OBVIOUS
  <2>2. none \in [size : {zero}, missing : {FALSE}, held : {FALSE}, worklist : {FALSE}]
    BY <1>2
  <2> QED  BY <2>1, <2>2, Zenon
<1>4. ASSUME NEW size \in JournalSizes
      PROVE  /\ [none EXCEPT !.size = size, !.missing = FALSE] \in IndexRows
             /\ ~[none EXCEPT !.size = size, !.missing = FALSE].missing
  <2>1. PICK row : row = [none EXCEPT !.size = size, !.missing = FALSE]
    OBVIOUS
  <2>2. row = [size |-> size, missing |-> FALSE, held |-> FALSE, worklist |-> FALSE]
    BY <1>2, <2>1
  <2>3. row \in IndexRows /\ ~row.missing
    BY <2>2 DEF IndexRows
  <2> QED  BY <2>1, <2>3
<1> QED  BY <1>1, <1>3, <1>4, Zenon

\* A table of which each record stays or goes on as a record keeps everything.
LEMMA NothingGone ==
  ASSUME CatalogueInv, index' = [j \in Journals |-> index'[j]],
         \A j \in Journals : \/ index'[j] = index[j]
                             \/ /\ index'[j] \in IndexRows
                                /\ index'[j].missing => index[j].missing
  PROVE  Index' /\ AllKept
<1>1. \A j \in Journals : index'[j] \in IndexRows \/ index'[j] = CataloguePart!NotIn
  BY DEF CatalogueInv, Index
<1>2. \A j \in Journals : ~CataloguePart!Removed(j) /\ ~CataloguePart!Flagged(j)
  BY RowsDiffer DEF CataloguePart!Removed, CataloguePart!Flagged
<1> QED  BY <1>1, <1>2 DEF Index, AllKept, Kept, CataloguePart!NotIn

\* The record of a journal that the catalogue lists is created or refreshed.
LEMMA Upserting ==
  ASSUME CatalogueInv, NEW j \in CataloguePart!Listed
  PROVE  /\ CataloguePart!Upserted(j) = [k \in Journals |-> CataloguePart!Upserted(j)[k]]
         /\ CataloguePart!Upserted(j)[j] \in IndexRows /\ ~CataloguePart!Upserted(j)[j].missing
         /\ \A k \in Journals \ {j} : CataloguePart!Upserted(j)[k] = index[k]
<1>1. j \in Journals /\ source[j] \in SourceRows /\ source[j].size > 0
  BY DEF CataloguePart!Listed, CatalogueInv
<1>2. PICK size \in JournalSizes : size = source[j].size
  BY <1>1, SourceSizes
<1>3. PICK row : row = [index[j] EXCEPT !.size = size, !.missing = FALSE]
  OBVIOUS
<1>4. row \in IndexRows /\ ~row.missing
  <2>1. CASE index[j] \in IndexRows
    BY <1>3, <2>1 DEF IndexRows
  <2>2. CASE index[j] = CataloguePart!NotIn
    BY <1>3, <2>2, NewRecords
  <2> QED  BY <1>1, <2>1, <2>2 DEF CatalogueInv, Index
<1>5. CataloguePart!Upserted(j) = [index EXCEPT ![j] = row]
  BY <1>2, <1>3 DEF CataloguePart!Upserted
<1>6. index = [k \in Journals |-> index[k]]
  BY DEF CatalogueInv, Index
<1> QED  BY <1>1, <1>4, <1>5, <1>6

\* A step that leaves the walk, or is none of it.
LEMMA NoWalk ==
  ASSUME CatalogueInv, UNCHANGED source, Index', pass' \in Passes, pass'.at # "walk" \/ UNCHANGED pass
  PROVE  CatalogueInv'
<1>1. CataloguePart!Listed' = CataloguePart!Listed /\ \A j : Belongs(j)' <=> Belongs(j)
  BY DEF CataloguePart!Listed, Belongs, CataloguePart!InScope
<1>2. Walk'
  BY <1>1 DEF CatalogueInv, Walk
<1>3. (pass \in Passes)'
  BY <1>1 DEF Passes, Walks
<1> QED  BY <1>2, <1>3 DEF CatalogueInv, SourceRows, CataloguePart!Fields

LEMMA StartsFull == CatalogueInv /\ CataloguePart!StartFull => CatalogueInv' /\ AllKept
<1> SUFFICES ASSUME CatalogueInv, CataloguePart!StartFull  PROVE CatalogueInv' /\ AllKept
  OBVIOUS
<1>1. UNCHANGED <<source, index>>
  BY DEF CataloguePart!StartFull
<1>2. Index' /\ AllKept
  BY <1>1, NothingGone DEF CatalogueInv, Index
<1>3. CataloguePart!Listed' = CataloguePart!Listed /\ \A j : Belongs(j)' <=> Belongs(j)
  BY <1>1 DEF CataloguePart!Listed, Belongs, CataloguePart!InScope
<1>4. PICK method \in {"subfield_filter", "keyword_search"}, found \in SUBSET CataloguePart!Listed :
        /\ pass' = CataloguePart!AtWalk(method, found)
        /\ method = "subfield_filter" => \A j \in CataloguePart!Listed : source[j].fields # "out" => j \in found
  BY DEF CataloguePart!StartFull
<1>5. /\ pass' \in Walks /\ pass'.method = method /\ pass'.todo = found /\ pass'.seen = {} /\ pass'.cutoff = 0
  BY <1>4 DEF CataloguePart!AtWalk, Walks
<1>6. (pass \in Passes)'
  BY <1>3, <1>5 DEF Passes, Walks
<1>7. Walk'
  <2>1. \A j : Belongs(j) => source[j].fields # "out" /\ j \in CataloguePart!Listed
    BY DEF Belongs, CataloguePart!InScope
  <2> QED  BY <1>3, <1>4, <1>5, <2>1 DEF Walk
<1> QED  BY <1>1, <1>2, <1>6, <1>7 DEF CatalogueInv, SourceRows, CataloguePart!Fields

LEMMA WalkSteps ==
  ASSUME CatalogueInv, NEW j \in Journals, CataloguePart!Keep(j) \/ CataloguePart!OutOfScope(j)
  PROVE  CatalogueInv' /\ AllKept
<1>0. pass \in Walks /\ pass.cutoff = 0 /\ CataloguePart!ComesNext(j) /\ j \in pass.todo /\ UNCHANGED source
  BY DEF CataloguePart!Keep, CataloguePart!OutOfScope, CatalogueInv, Passes, Walks, CataloguePart!ComesNext
<1>1. CataloguePart!Listed' = CataloguePart!Listed /\ \A k : Belongs(k)' <=> Belongs(k)
  BY <1>0 DEF CataloguePart!Listed, Belongs, CataloguePart!InScope
<1>2. j \in CataloguePart!Listed /\ source[j] \in SourceRows /\ source[j].size > 0
  BY <1>0 DEF Walks, CataloguePart!Listed, CatalogueInv
<1>3. CASE CataloguePart!Keep(j)
  <2>1. Index' /\ AllKept
    BY <1>2, <1>3, Upserting, NothingGone DEF CataloguePart!Keep
  <2>2. PICK size \in JournalSizes : size = source[j].size
    BY <1>2, SourceSizes
  <2>3. PICK cutoff : cutoff = IF Cardinality(pass.seen) + 1 >= MaxRecords THEN source[j].size ELSE 0
    OBVIOUS
  <2>8. pass' = [pass EXCEPT !.todo = @ \ {j}, !.seen = @ \union {j}, !.cutoff = cutoff]
    <3>1. pass' = [pass EXCEPT !.todo = @ \ {j}, !.seen = @ \union {j},
                      !.cutoff = IF CataloguePart!Cardinality(pass.seen) + 1 >= MaxRecords THEN source[j].size ELSE 0]
      BY <1>3 DEF CataloguePart!Keep
    <3>2. cutoff = IF CataloguePart!Cardinality(pass.seen) + 1 >= MaxRecords THEN source[j].size ELSE 0
      BY <2>3, SameCount
    <3> QED  BY <3>1, <3>2
  <2>9. cutoff \in {0} \union JournalSizes
    BY <2>2, <2>3
  <2>4. /\ pass' \in Walks /\ pass'.method = pass.method /\ pass'.todo = pass.todo \ {j}
        /\ pass'.seen = pass.seen \union {j} /\ pass'.cutoff = cutoff
    BY <1>0, <1>2, <2>8, <2>9 DEF Walks
  <2>5. ASSUME pass.method = "subfield_filter"
        PROVE  /\ \A k \in Journals : Belongs(k) => k \in pass'.todo \union pass'.seen
               /\ \A k \in pass'.seen : /\ Belongs(k) /\ k \notin pass'.todo
                                        /\ \A l \in pass'.todo : source[l].size <= source[k].size
               /\ pass'.cutoff > 0 => Cardinality(pass'.seen) >= MaxRecords
    <3>1. /\ \A k \in Journals : Belongs(k) => k \in pass.todo \union pass.seen
          /\ \A k \in pass.seen : /\ Belongs(k) /\ k \notin pass.todo
                                  /\ \A l \in pass.todo : source[l].size <= source[k].size
      BY <1>0, <2>5 DEF CatalogueInv, Walk, Walks
    <3>2. Belongs(j) /\ \A l \in pass.todo : source[l].size <= source[j].size
      BY <1>0, <1>2, <1>3, <2>5 DEF CataloguePart!Keep, CataloguePart!ComesNext, Belongs
    <3>3. IsFiniteSet(pass.seen) /\ Cardinality(pass.seen) \in Nat
      <4>1. pass.seen \subseteq Journals
        BY <1>0 DEF Walks, CataloguePart!Listed
      <4> QED  BY <4>1, FS_Subset, FS_CardinalityType, BoundsAssumption
    <3>4. j \notin pass.seen
      BY <1>0, <3>1
    <3>5. Cardinality(pass'.seen) = Cardinality(pass.seen) + 1
      BY <2>4, <3>3, <3>4, FS_AddElement
    <3>6. pass'.cutoff > 0 => Cardinality(pass'.seen) >= MaxRecords
      BY <2>3, <2>4, <3>5
    <3> QED  BY <2>4, <3>1, <3>2, <3>6
  <2>6. Walk'
    BY <1>0, <1>1, <2>4, <2>5 DEF Walk
  <2>7. (pass \in Passes)'
    BY <1>1, <2>4 DEF Passes, Walks
  <2> QED  BY <1>0, <2>1, <2>6, <2>7 DEF CatalogueInv, SourceRows, CataloguePart!Fields
<1>4. CASE CataloguePart!OutOfScope(j)
  <2>1. /\ ~Belongs(j) /\ index' = CataloguePart!Without(CataloguePart!Removable({j}))
        /\ pass' = [pass EXCEPT !.todo = @ \ {j}]
    BY <1>4 DEF CataloguePart!OutOfScope, Belongs
  <2>2. /\ pass' \in Walks /\ pass'.method = pass.method /\ pass'.todo = pass.todo \ {j}
        /\ pass'.seen = pass.seen /\ pass'.cutoff = pass.cutoff
    BY <1>0, <2>1 DEF Walks
  <2>3. Walk'
    BY <1>0, <1>1, <2>1, <2>2 DEF CatalogueInv, Walk
  <2>4. (pass \in Passes)'
    BY <1>1, <2>2 DEF Passes, Walks
  <2>5. /\ index' = [k \in Journals |-> index'[k]]
        /\ \A k \in Journals : \/ index'[k] = index[k]
                               \/ k = j /\ index'[k] = CataloguePart!NotIn /\ ~index[k].held /\ ~index[k].worklist
    BY <2>1 DEF CataloguePart!Without, CataloguePart!Removable
  <2>6. Index'
    BY <2>5 DEF CatalogueInv, Index, CataloguePart!NotIn
  <2>7. AllKept
    BY <2>1, <2>5 DEF AllKept, Kept, CataloguePart!Removed, CataloguePart!Flagged, CataloguePart!NotIn
  <2> QED  BY <1>0, <2>3, <2>4, <2>6, <2>7 DEF CatalogueInv, SourceRows, CataloguePart!Fields
<1> QED  BY <1>3, <1>4

\* A complete pass removes and flags only what does not belong, or has its place
\* taken by as many that are no smaller.
LEMMA FinishesFull == CatalogueInv /\ CataloguePart!FinishFull => CatalogueInv' /\ AllKept
<1> SUFFICES ASSUME CatalogueInv, CataloguePart!FinishFull  PROVE CatalogueInv' /\ AllKept
  OBVIOUS
<1>0. pass \in Walks /\ pass' = [at |-> "link"] /\ UNCHANGED source
  BY DEF CataloguePart!FinishFull, CatalogueInv, Passes, Walks
<1>1. pass' \in Passes /\ pass'.at # "walk"
  BY <1>0 DEF Passes
<1>2. CASE UNCHANGED index
  BY <1>0, <1>1, <1>2, NothingGone, NoWalk DEF CatalogueInv, Index
<1>3. CASE ~UNCHANGED index
  <2> DEFINE unseen == {j \in CataloguePart!Indexed \ pass.seen : ~index[j].worklist}
             small == {j \in unseen : index[j].size <= pass.cutoff}
  <2>1. /\ CataloguePart!Complete
        /\ index' = [j \in Journals |-> IF j \in unseen \ small
                                        THEN [index[j] EXCEPT !.missing = TRUE]
                                        ELSE CataloguePart!Without(CataloguePart!Removable(small))[j]]
    BY <1>3 DEF CataloguePart!FinishFull
  <2>2. ASSUME NEW j \in Journals
        PROVE  \/ index'[j] = index[j]
               \/ j \in unseen /\ index'[j] \in IndexRows
               \/ j \in unseen /\ index'[j] = CataloguePart!NotIn /\ ~index[j].held
    <3>1. CASE j \in unseen \ small
      <4>1. index[j] \in IndexRows /\ index'[j] = [index[j] EXCEPT !.missing = TRUE]
        BY <2>1, <3>1 DEF CatalogueInv, Index, CataloguePart!Indexed
      <4> QED  BY <3>1, <4>1 DEF IndexRows
    <3>2. CASE j \notin unseen \ small
      <4>1. index'[j] = CataloguePart!Without(CataloguePart!Removable(small))[j]
        BY <2>1, <3>2
      <4>2. CASE j \in CataloguePart!Removable(small)
        BY <4>1, <4>2 DEF CataloguePart!Without, CataloguePart!Removable
      <4>3. CASE j \notin CataloguePart!Removable(small)
        BY <4>1, <4>3 DEF CataloguePart!Without
      <4> QED  BY <4>2, <4>3
    <3> QED  BY <3>1, <3>2
  <2>3. ASSUME NEW j \in unseen, Belongs(j)
        PROVE  Cardinality({k \in CataloguePart!Listed \ {j} :
                   CataloguePart!InScope(k) /\ source[k].size >= source[j].size}) >= MaxRecords
    <3> DEFINE larger == {k \in CataloguePart!Listed \ {j} :
                             CataloguePart!InScope(k) /\ source[k].size >= source[j].size}
    <3>1. pass.method = "subfield_filter" /\ (pass.todo = {} \/ pass.cutoff > 0)
      BY <2>1 DEF CataloguePart!Complete
    <3>2. /\ \A k \in Journals : Belongs(k) => k \in pass.todo \union pass.seen
          /\ \A k \in pass.seen : /\ Belongs(k) /\ k \notin pass.todo
                                  /\ \A l \in pass.todo : source[l].size <= source[k].size
          /\ pass.cutoff > 0 => Cardinality(pass.seen) >= MaxRecords
      BY <1>0, <3>1 DEF CatalogueInv, Walk, Walks
    <3>3. j \in pass.todo /\ j \notin pass.seen
      BY <2>3, <3>2 DEF CataloguePart!Indexed
    <3>4. \A k \in CataloguePart!Listed : source[k].size \in Nat
      BY SourceSizes DEF CatalogueInv, CataloguePart!Listed
    <3>5. pass.seen \subseteq larger
      BY <3>2, <3>3, <3>4, <2>3 DEF Belongs
    <3>6. IsFiniteSet(larger)
      BY FS_Subset, BoundsAssumption DEF CataloguePart!Listed
    <3>7. /\ Cardinality(pass.seen) <= Cardinality(larger) /\ Cardinality(pass.seen) \in Nat
          /\ Cardinality(larger) \in Nat
      BY <3>5, <3>6, FS_Subset, FS_CardinalityType
    <3> QED  BY <3>1, <3>2, <3>3, <3>7, BoundsAssumption
  <2> HIDE DEF unseen, small
  <2>4. \A j \in unseen : ~index[j].worklist
    BY DEF unseen
  <2>5. ASSUME NEW j \in Journals  PROVE Kept(j)
    <3>1. CASE index'[j] = index[j]
      BY <3>1 DEF Kept, CataloguePart!Removed, CataloguePart!Flagged
    <3>2. CASE j \in unseen /\ index'[j] \in IndexRows
      BY <2>3, <3>2, RowsDiffer DEF Kept, CataloguePart!Removed
    <3>3. CASE j \in unseen /\ index'[j] = CataloguePart!NotIn /\ ~index[j].held
      BY <2>3, <2>4, <3>3 DEF Kept
    <3> QED  BY <2>2, <3>1, <3>2, <3>3
  <2>8. AllKept
    BY <2>5 DEF AllKept
  <2>6. index' = [j \in Journals |-> index'[j]]
    BY <2>1
  <2>7. Index'
    BY <2>2, <2>6 DEF CatalogueInv, Index, CataloguePart!NotIn
  <2> QED  BY <1>0, <1>1, <2>7, <2>8, NoWalk
<1> QED  BY <1>2, <1>3

LEMMA CatalogueStep == CatalogueInv /\ [CataloguePart!Next]_catalogueVars => CatalogueInv' /\ AllKept
<1> SUFFICES ASSUME CatalogueInv, [CataloguePart!Next]_catalogueVars  PROVE CatalogueInv' /\ AllKept
  OBVIOUS
<1>0. /\ index = [j \in Journals |-> index[j]] /\ source \in [Journals -> SourceRows]
      /\ \A j \in Journals : index[j] \in IndexRows \/ index[j] = CataloguePart!NotIn
  BY DEF CatalogueInv, Index
<1>1. ASSUME NEW j \in Journals, CataloguePart!SourceChanges(j)  PROVE CatalogueInv' /\ AllKept
  <2>1. source' \in [Journals -> SourceRows]
    BY <1>0, <1>1 DEF CataloguePart!SourceChanges, SourceRows
  <2>2. UNCHANGED <<index, pass>> /\ pass.at = "none"
    BY <1>1 DEF CataloguePart!SourceChanges
  <2>3. (pass \in Passes)' /\ Walk'
    BY <2>2 DEF CatalogueInv, Passes, Walks, Walk
  <2>4. Index' /\ AllKept
    BY <1>0, <2>2, NothingGone
  <2> QED  BY <2>1, <2>3, <2>4 DEF CatalogueInv, SourceRows, CataloguePart!Fields
<1>2. CASE CataloguePart!StartFull
  BY <1>2, StartsFull
<1>3. ASSUME NEW j \in Journals, CataloguePart!Keep(j) \/ CataloguePart!OutOfScope(j)
      PROVE  CatalogueInv' /\ AllKept
  BY <1>3, WalkSteps
<1>4. CASE CataloguePart!FinishFull
  BY <1>4, FinishesFull
<1>5. CASE CataloguePart!LinkToVenues
  <2>1. PICK named \in SUBSET CataloguePart!Indexed :
          index' = [j \in Journals |-> [index[j] EXCEPT !.held = @ \/ j \in named]]
    BY <1>5 DEF CataloguePart!LinkToVenues
  <2>2. ASSUME NEW j \in Journals
        PROVE  \/ index'[j] = index[j]
               \/ index'[j] \in IndexRows /\ (index'[j].missing => index[j].missing)
    <3>1. PICK held \in BOOLEAN : held = (index[j].held \/ j \in named)
      OBVIOUS
    <3>2. index'[j] = [index[j] EXCEPT !.held = held]
      BY <2>1, <3>1
    <3>3. CASE index[j] \in IndexRows
      BY <3>2, <3>3 DEF IndexRows
    <3>4. CASE index[j] = CataloguePart!NotIn
      <4>1. j \notin named
        BY <3>4 DEF CataloguePart!Indexed
      <4>2. ~index[j].held
        BY <3>4 DEF CataloguePart!NotIn
      <4>3. held = FALSE
        BY <3>1, <4>1, <4>2
      <4> QED  BY <3>2, <3>4, <4>3, NewRecords
    <3> QED  BY <1>0, <3>3, <3>4
  <2>3. Index' /\ AllKept
    BY <2>1, <2>2, NothingGone
  <2> QED  BY <1>5, <2>3, NoWalk DEF CataloguePart!LinkToVenues, Passes
<1>6. CASE CataloguePart!StartWorklist
  BY <1>0, <1>6, NothingGone, NoWalk DEF CataloguePart!StartWorklist, Passes
<1>7. ASSUME NEW j \in Journals, CataloguePart!AddListed(j)  PROVE CatalogueInv' /\ AllKept
  <2>1. pass.at = "worklist" /\ pass' = [pass EXCEPT !.todo = @ \ {j}] /\ UNCHANGED source
    BY <1>7 DEF CataloguePart!AddListed
  <2>2. pass' \in Passes /\ pass'.at # "walk"
    BY <2>1 DEF CatalogueInv, Passes, Walks
  <2>3. CASE j \notin CataloguePart!Listed
    BY <1>0, <1>7, <2>1, <2>2, <2>3, NothingGone, NoWalk DEF CataloguePart!AddListed
  <2>4. CASE j \in CataloguePart!Listed
    <3>1. PICK up : up = CataloguePart!Upserted(j)
      OBVIOUS
    <3>2. /\ up = [k \in Journals |-> up[k]] /\ up[j] \in IndexRows /\ ~up[j].missing
          /\ \A k \in Journals \ {j} : up[k] = index[k]
      BY <2>4, <3>1, Upserting
    <3>3. index' = [up EXCEPT ![j].worklist = TRUE]
      BY <1>7, <2>4, <3>1 DEF CataloguePart!AddListed
    <3>4. PICK row : row = [up[j] EXCEPT !.worklist = TRUE]
      OBVIOUS
    <3>5. row \in IndexRows /\ ~row.missing
      BY <3>2, <3>4 DEF IndexRows
    <3>6. index' = [up EXCEPT ![j] = row]
      BY <3>3, <3>4
    <3>7. /\ index' = [k \in Journals |-> index'[k]] /\ index'[j] = row
          /\ \A k \in Journals \ {j} : index'[k] = index[k]
      BY <3>2, <3>6
    <3>8. Index' /\ AllKept
      BY <3>5, <3>7, NothingGone
    <3> QED  BY <2>1, <2>2, <3>8, NoWalk
  <2> QED  BY <2>3, <2>4
<1>8. CASE CataloguePart!FinishWorklist \/ CataloguePart!Interrupted
  BY <1>0, <1>8, NothingGone, NoWalk DEF CataloguePart!FinishWorklist, CataloguePart!Interrupted, Passes
<1>9. ASSUME NEW j \in Journals, CataloguePart!Hold(j)  PROVE CatalogueInv' /\ AllKept
  <2>1. index[j] \in IndexRows
    BY <1>0, <1>9 DEF CataloguePart!Hold, CataloguePart!Indexed
  <2>2. PICK row : row = [index[j] EXCEPT !.held = ~@]
    OBVIOUS
  <2>3. row \in IndexRows /\ row.missing = index[j].missing
    BY <2>1, <2>2 DEF IndexRows
  <2>4. index' = [index EXCEPT ![j] = row] /\ UNCHANGED <<source, pass>>
    BY <1>9, <2>2 DEF CataloguePart!Hold
  <2>5. Index' /\ AllKept
    BY <1>0, <2>3, <2>4, NothingGone
  <2> QED  BY <2>4, <2>5, NoWalk DEF CatalogueInv
<1>10. CASE UNCHANGED catalogueVars
  BY <1>0, <1>10, NothingGone, NoWalk DEF catalogueVars, CatalogueInv
<1> QED
  BY <1>1, <1>2, <1>3, <1>4, <1>5, <1>6, <1>7, <1>8, <1>9, <1>10 DEF CataloguePart!Next

(***************************************************************************)
(* Readiness and matching.                                                 *)
(***************************************************************************)

MatchRows == [text : Nat, config : Nat]
MatchableRows == [matchable : BOOLEAN, updated : Nat, config : Nat \ {0}]

\* The texts that the manuscript and its assessments are about; a semantic assessment
\* that is being made is there.
Assessed ==
    /\ text \in 1..MaxText /\ profile \in 0..text
    /\ mech \in [text : 0..text, status : MatchingPart!Statuses, by : Authors \union {0}]
    /\ sem \in [text : 0..text, status : MatchingPart!Statuses, older : BOOLEAN]
    /\ job["readiness"].at = "reading" => job["readiness"].text \in 1..text /\ sem.status # "none"
    /\ MatchingPart!SemanticNotOlder

\* What a request keeps of the manuscript.
AuthorOK(w) ==
    /\ w.at = "mechanical" => w.profile \in 0..text
    /\ w.at \in {"shortlist", "gate"} => w.text \in 1..text
AuthorsOK ==
    /\ request = [q \in Authors |-> request[q]]
    /\ \A q \in Authors : AuthorOK(request[q])

MatchJobs == {MatchingPart!Idle, [at |-> "queued"]}
             \union [at : {"match"}, rows : [Venues -> MatchRows], lost : SUBSET Venues]

\* A match is of a text and a configuration that were; a row that the matching has
\* listed is there, or is known to be lost.
Matches ==
    /\ matched \in [Venues -> MatchableRows] /\ match \in [Venues -> MatchRows]
    /\ \A v \in Venues : match[v] # MatchingPart!NoMatch =>
          match[v].text \in 1..text /\ match[v].config \in 1..matched[v].config
    /\ DOMAIN job = MatchingPart!Jobs /\ job = [j \in MatchingPart!Jobs |-> job[j]]
    /\ job["matching"] \in MatchJobs
    /\ job["matching"].at = "match" =>
          \A v \in Venues : job["matching"].rows[v] # MatchingPart!NoMatch =>
              /\ job["matching"].rows[v].config \in 1..matched[v].config
              /\ v \notin job["matching"].lost => match[v] # MatchingPart!NoMatch
    /\ now \in 1..MaxTime /\ shortlistedAt \in 0..now

MatchingInv == Assessed /\ AuthorsOK /\ Matches

LEMMA MatchingTypes == MatchingInv => MatchingPart!TypeOK
<1> SUFFICES ASSUME MatchingInv  PROVE MatchingPart!TypeOK
  OBVIOUS
<1>1. mech.text \in 0..text /\ mech.status \in MatchingPart!Statuses
  BY DEF MatchingInv, Assessed
<1>2. sem.text \in 0..text /\ sem.status \in MatchingPart!Statuses
  BY DEF MatchingInv, Assessed
<1> QED  BY <1>1, <1>2 DEF MatchingInv, Assessed, Matches, MatchingPart!TypeOK, MatchingPart!Matched

LEMMA MatchingInit == MatchingPart!Init => MatchingInv
<1> SUFFICES ASSUME MatchingPart!Init  PROVE MatchingInv
  OBVIOUS
<1>1. /\ text = 1 /\ profile = 0 /\ text \in 1..MaxText /\ 0 \in 0..text
      /\ now \in 1..MaxTime /\ shortlistedAt \in 0..now
  BY BoundsAssumption DEF MatchingPart!Init, MatchingPart!None
<1>2. PICK zero : zero = 0
  OBVIOUS
<1>3. mech = [text |-> zero, status |-> "none", by |-> zero]
  BY <1>2 DEF MatchingPart!Init, MatchingPart!None
<1>4. sem = [text |-> zero, status |-> "none", older |-> FALSE]
  BY <1>2 DEF MatchingPart!Init, MatchingPart!None
<1>5. zero \in 0..text /\ zero \in Authors \union {0}
  BY <1>1, <1>2
<1>6. /\ mech \in [text : 0..text, status : MatchingPart!Statuses, by : Authors \union {0}]
      /\ sem \in [text : 0..text, status : MatchingPart!Statuses, older : BOOLEAN] /\ sem.status = "none"
  BY <1>3, <1>4, <1>5 DEF MatchingPart!Statuses
<1>7. job = [j \in MatchingPart!Jobs |-> MatchingPart!Idle] /\ request = [q \in Authors |-> MatchingPart!Idle]
  BY DEF MatchingPart!Init
<1>8. job["readiness"].at = "idle" /\ job["matching"] = MatchingPart!Idle /\ job["matching"].at = "idle"
  BY <1>7 DEF MatchingPart!Jobs, MatchingPart!Idle
<1>9. Assessed
  BY <1>1, <1>6, <1>8 DEF Assessed, MatchingPart!SemanticNotOlder, MatchingPart!SemanticShown
<1>10. AuthorsOK
  BY <1>7 DEF AuthorsOK, AuthorOK, MatchingPart!Idle
<1>11. \A v \in Venues : match[v] = MatchingPart!NoMatch
  BY DEF MatchingPart!Init
<1>12. match \in [Venues -> MatchRows]
  BY DEF MatchingPart!Init, MatchingPart!NoMatch, MatchRows
<1>13. matched \in [Venues -> MatchableRows]
  BY DEF MatchingPart!Init, MatchableRows
<1>14. Matches
  BY <1>1, <1>7, <1>8, <1>11, <1>12, <1>13 DEF Matches, MatchJobs
<1> QED  BY <1>9, <1>10, <1>14 DEF MatchingInv

\* A request goes on to where; the manuscript keeps its text.
LEMMA AuthorGoes ==
  ASSUME AuthorsOK, NEW q \in Authors, NEW where, MatchingPart!Goto(q, where), AuthorOK(where), UNCHANGED text
  PROVE  AuthorsOK'
<1>1. /\ request' = [x \in Authors |-> request'[x]] /\ request'[q] = where
      /\ \A x \in Authors \ {q} : request'[x] = request[x]
  BY DEF AuthorsOK, MatchingPart!Goto
<1>2. \A x \in Authors : AuthorOK(request'[x])
  BY <1>1 DEF AuthorsOK
<1> QED  BY <1>1, <1>2 DEF AuthorsOK, AuthorOK

LEMMA AuthorsStay == ASSUME AuthorsOK, UNCHANGED <<text, request>>  PROVE AuthorsOK'
BY DEF AuthorsOK, AuthorOK

\* The assessments, the matches, or both stay as they are.
LEMMA AssessmentsStay ==
  ASSUME Assessed, UNCHANGED <<text, profile, mech, sem>>,
         job'["readiness"] = job["readiness"] \/ job'["readiness"].at # "reading"
  PROVE  Assessed'
BY DEF Assessed, MatchingPart!SemanticNotOlder, MatchingPart!SemanticShown, MatchingPart!Statuses

LEMMA MatchesStay ==
  ASSUME Matches, UNCHANGED <<text, match, matched>>,
         job' = [j \in MatchingPart!Jobs |-> job'[j]], job'["matching"] = job["matching"],
         now' \in 1..MaxTime, shortlistedAt' \in 0..now'
  PROVE  Matches'
<1>1. DOMAIN job' = MatchingPart!Jobs
  OBVIOUS
<1> QED  BY <1>1 DEF Matches, MatchingPart!Jobs, MatchingPart!NoMatch, MatchJobs, MatchRows, MatchableRows, MatchingPart!Idle

LEMMA EditStep == MatchingInv /\ MatchingPart!Edit => MatchingInv'
<1> SUFFICES ASSUME MatchingInv, MatchingPart!Edit  PROVE MatchingInv'
  OBVIOUS
<1>1. /\ text \in Nat /\ text' \in 1..MaxText /\ 0 \in 0..text'
      /\ \A n \in 0..text : n \in 0..text' /\ \A m \in 1..text : m \in 1..text'
  BY BoundsAssumption DEF MatchingInv, Assessed, MatchingPart!Edit
<1>2. /\ profile' = 0 /\ match' = [v \in Venues |-> MatchingPart!NoMatch]
      /\ UNCHANGED <<mech, sem, matched, now, shortlistedAt, request, job>>
      /\ job["readiness"] = MatchingPart!Idle /\ job["matching"] = MatchingPart!Idle
  BY DEF MatchingPart!Edit, MatchingPart!None, MatchingPart!Jobs
<1>3. \A m \in 1..text : m \in 1..text'
  BY BoundsAssumption DEF MatchingInv, Assessed, MatchingPart!Edit
<1>4. /\ mech' \in [text : 0..text', status : MatchingPart!Statuses, by : Authors \union {0}]
      /\ sem' \in [text : 0..text', status : MatchingPart!Statuses, older : BOOLEAN]
  BY <1>1, <1>2 DEF MatchingInv, Assessed
<1>5. job'["readiness"].at # "reading" /\ job'["matching"].at # "match" /\ job'["matching"] \in MatchJobs
  BY <1>2 DEF MatchingPart!Idle, MatchJobs
<1>6. Assessed'
  BY <1>1, <1>2, <1>4, <1>5
  DEF MatchingInv, Assessed, MatchingPart!SemanticNotOlder, MatchingPart!SemanticShown, MatchingPart!Statuses
<1>7. AuthorsOK'
  BY <1>1, <1>2, <1>3 DEF MatchingInv, AuthorsOK, AuthorOK
<1>8. match' \in [Venues -> MatchRows] /\ \A v \in Venues : match'[v] = MatchingPart!NoMatch
  BY <1>2 DEF MatchingPart!NoMatch, MatchRows
<1>9. Matches'
  BY <1>2, <1>5, <1>8
  DEF MatchingInv, Matches, MatchingPart!Jobs, MatchingPart!NoMatch, MatchJobs, MatchRows, MatchableRows, MatchingPart!Idle
<1> QED  BY <1>6, <1>7, <1>9 DEF MatchingInv

\* The two readiness checks.
LEMMA ReadinessSteps ==
  ASSUME MatchingInv,
         \/ \E q \in Authors : MatchingPart!MechanicalStarts(q) \/ MatchingPart!MechanicalEnds(q)
         \/ MatchingPart!SemanticStarts \/ MatchingPart!SemanticEnds
  PROVE  MatchingInv'
<1>0. /\ text \in 1..MaxText /\ text \in 0..text /\ text \in 1..text /\ text \in Nat /\ profile \in 0..text
      /\ mech \in [text : 0..text, status : MatchingPart!Statuses, by : Authors \union {0}]
      /\ sem \in [text : 0..text, status : MatchingPart!Statuses, older : BOOLEAN]
      /\ now \in 1..MaxTime /\ shortlistedAt \in 0..now /\ job = [j \in MatchingPart!Jobs |-> job[j]]
  BY BoundsAssumption DEF MatchingInv, Assessed, Matches
<1>1. ASSUME NEW q \in Authors, MatchingPart!MechanicalStarts(q)  PROVE MatchingInv'
  <2>1. UNCHANGED <<text, profile, match, matched, now, shortlistedAt, job>>
    BY <1>1 DEF MatchingPart!MechanicalStarts
  <2>2. mech' \in [text : 0..text, status : MatchingPart!Statuses, by : Authors \union {0}]
    BY <1>0, <1>1 DEF MatchingPart!MechanicalStarts, MatchingPart!Statuses
  <2>3. sem' \in [text : 0..text, status : MatchingPart!Statuses, older : BOOLEAN]
        /\ sem'.status = sem.status /\ (sem.status # "none" => sem'.older)
    BY <1>0, <1>1 DEF MatchingPart!MechanicalStarts
  <2>4. Assessed'
    BY <1>0, <2>1, <2>2, <2>3
    DEF MatchingInv, Assessed, MatchingPart!SemanticNotOlder, MatchingPart!SemanticShown, MatchingPart!Statuses
  <2>5. AuthorsOK'
    <3>1. AuthorOK(MatchingPart!AtMechanical(profile))
      BY <1>0 DEF AuthorOK, MatchingPart!AtMechanical
    <3> QED  BY <1>1, <2>1, <3>1, AuthorGoes DEF MatchingPart!MechanicalStarts, MatchingInv
  <2> QED  BY <1>0, <2>1, <2>4, <2>5, MatchesStay DEF MatchingInv
<1>2. ASSUME NEW q \in Authors, MatchingPart!MechanicalEnds(q)  PROVE MatchingInv'
  <2>1. UNCHANGED <<text, sem, match, matched, now, shortlistedAt, job>> /\ MatchingPart!Goto(q, MatchingPart!Idle)
    BY <1>2 DEF MatchingPart!MechanicalEnds
  <2>2. profile' \in 0..text
    BY <1>0, <1>2 DEF MatchingPart!MechanicalEnds, MatchingInv, AuthorsOK, AuthorOK
  <2>3. PICK status1 \in {"completed", "failed"} :
          mech' = IF mech.by = q THEN [mech EXCEPT !.status = status1] ELSE mech
    BY <1>2 DEF MatchingPart!MechanicalEnds
  <2>4. mech' \in [text : 0..text, status : MatchingPart!Statuses, by : Authors \union {0}] /\ mech'.text = mech.text
    BY <1>0, <2>3 DEF MatchingPart!Statuses
  <2>5. Assessed'
    BY <1>0, <2>1, <2>2, <2>4
    DEF MatchingInv, Assessed, MatchingPart!SemanticNotOlder, MatchingPart!SemanticShown, MatchingPart!Statuses
  <2>6. AuthorsOK'
    <3>1. AuthorOK(MatchingPart!Idle)
      BY DEF AuthorOK, MatchingPart!Idle
    <3> QED  BY <2>1, <3>1, AuthorGoes DEF MatchingInv
  <2> QED  BY <1>0, <2>1, <2>5, <2>6, MatchesStay DEF MatchingInv
<1>3. CASE MatchingPart!SemanticStarts
  <2>1. UNCHANGED <<text, profile, mech, match, matched, now, shortlistedAt, request>>
    BY <1>3 DEF MatchingPart!SemanticStarts, MatchingPart!matches
  <2>2. PICK next : /\ job' = [job EXCEPT !["readiness"] = next]
                    /\ \/ next = [at |-> "reading", text |-> text] /\ sem' = [text |-> text, status |-> "pending", older |-> FALSE]
                       \/ next = MatchingPart!Idle /\ UNCHANGED sem
    BY <1>3 DEF MatchingPart!SemanticStarts
  <2>3. /\ job' = [j \in MatchingPart!Jobs |-> job'[j]] /\ job'["matching"] = job["matching"] /\ job'["readiness"] = next
    BY <1>0, <2>2 DEF MatchingPart!Jobs
  <2>4. CASE next = MatchingPart!Idle /\ UNCHANGED sem
    <3>1. job'["readiness"].at # "reading"
      BY <2>3, <2>4 DEF MatchingPart!Idle
    <3> QED  BY <1>0, <2>1, <2>3, <2>4, <3>1, AssessmentsStay, MatchesStay, AuthorsStay DEF MatchingInv
  <2>5. CASE next = [at |-> "reading", text |-> text] /\ sem' = [text |-> text, status |-> "pending", older |-> FALSE]
    <3>1. /\ sem' \in [text : 0..text, status : MatchingPart!Statuses, older : BOOLEAN]
          /\ sem'.text = text /\ sem'.status = "pending"
      BY <1>0, <2>5 DEF MatchingPart!Statuses
    <3>2. job'["readiness"].text \in 1..text
      BY <1>0, <2>3, <2>5
    <3>3. mech.text <= text
      BY <1>0
    <3>4. Assessed'
      BY <1>0, <2>1, <3>1, <3>2, <3>3
      DEF MatchingInv, Assessed, MatchingPart!SemanticNotOlder, MatchingPart!SemanticShown, MatchingPart!Statuses
    <3> QED  BY <1>0, <2>1, <2>3, <3>4, MatchesStay, AuthorsStay DEF MatchingInv
  <2> QED  BY <2>2, <2>4, <2>5
<1>4. CASE MatchingPart!SemanticEnds
  <2>1. UNCHANGED <<text, mech, match, matched, now, shortlistedAt, request>>
    BY <1>4 DEF MatchingPart!SemanticEnds, MatchingPart!matches
  <2>2. job' = [job EXCEPT !["readiness"] = MatchingPart!Idle]
    BY <1>4 DEF MatchingPart!SemanticEnds
  <2>3. /\ job' = [j \in MatchingPart!Jobs |-> job'[j]] /\ job'["matching"] = job["matching"]
        /\ job'["readiness"].at # "reading"
    BY <1>0, <2>2 DEF MatchingPart!Jobs, MatchingPart!Idle
  <2>4. job["readiness"].text \in 1..text /\ sem.status # "none"
    BY <1>4 DEF MatchingPart!SemanticEnds, MatchingInv, Assessed
  <2>5. profile' \in 0..text
    BY <1>0, <1>4, <2>4 DEF MatchingPart!SemanticEnds
  <2>6. PICK status1 \in {"completed", "failed"} : sem' = [sem EXCEPT !.status = status1]
    BY <1>4 DEF MatchingPart!SemanticEnds
  <2>7. sem' \in [text : 0..text, status : MatchingPart!Statuses, older : BOOLEAN]
        /\ sem'.text = sem.text /\ sem'.older = sem.older
    BY <1>0, <2>6 DEF MatchingPart!Statuses
  <2>8. Assessed'
    BY <1>0, <2>1, <2>3, <2>4, <2>5, <2>7
    DEF MatchingInv, Assessed, MatchingPart!SemanticNotOlder, MatchingPart!SemanticShown, MatchingPart!Statuses
  <2> QED  BY <1>0, <2>1, <2>3, <2>8, MatchesStay, AuthorsStay DEF MatchingInv
<1> QED  BY <1>1, <1>2, <1>3, <1>4

\* Requests that list venues, rank them or give up.
LEMMA RankingSteps ==
  ASSUME MatchingInv, NEW q \in Authors,
         \/ MatchingPart!GenerateStarts(q) \/ MatchingPart!RefreshStarts(q)
         \/ MatchingPart!Shortlist(q) \/ MatchingPart!GateFails(q)
  PROVE  MatchingInv'
<1>0. /\ text \in 1..text /\ now \in 1..MaxTime /\ shortlistedAt \in 0..now /\ job = [j \in MatchingPart!Jobs |-> job[j]]
  BY BoundsAssumption DEF MatchingInv, Assessed, Matches
<1>1. UNCHANGED <<text, profile, mech, sem, match, matched, job>>
  BY DEF MatchingPart!GenerateStarts, MatchingPart!RefreshStarts, MatchingPart!Shortlist, MatchingPart!GateFails,
         MatchingPart!manuscript, MatchingPart!matches
<1>2. now' \in 1..MaxTime /\ shortlistedAt' \in 0..now'
  <2>1. CASE UNCHANGED <<now, shortlistedAt>>
    BY <1>0, <2>1
  <2>2. CASE now < MaxTime /\ now' = now + 1 /\ shortlistedAt' = now'
    BY <1>0, <2>2, BoundsAssumption
  <2> QED  BY <2>1, <2>2
           DEF MatchingPart!GenerateStarts, MatchingPart!RefreshStarts, MatchingPart!Shortlist, MatchingPart!GateFails,
               MatchingPart!matches
<1>3. AuthorOK(MatchingPart!Idle)
  BY DEF AuthorOK, MatchingPart!Idle
<1>4. \A task, old1, since : AuthorOK(MatchingPart!AtShortlist(task, old1, since))
  BY <1>0 DEF AuthorOK, MatchingPart!AtShortlist
<1>5. \A task, kept1, all, n : n \in 1..text => AuthorOK(MatchingPart!AtGate(task, n, kept1, all))
  BY DEF AuthorOK, MatchingPart!AtGate
<1>6. \E where : MatchingPart!Goto(q, where) /\ AuthorOK(where)
  <2>1. CASE MatchingPart!GenerateStarts(q) \/ MatchingPart!RefreshStarts(q) \/ MatchingPart!GateFails(q)
    BY <1>3, <1>4, <2>1 DEF MatchingPart!GenerateStarts, MatchingPart!RefreshStarts, MatchingPart!GateFails
  <2>2. CASE MatchingPart!Shortlist(q)
    <3>1. request[q].text \in 1..text
      BY <2>2 DEF MatchingPart!Shortlist, MatchingInv, AuthorsOK, AuthorOK
    <3>2. PICK where : /\ MatchingPart!Goto(q, where)
                       /\ \/ where = MatchingPart!Idle
                          \/ \E task, kept1, all : where = MatchingPart!AtGate(task, request[q].text, kept1, all)
      BY <2>2 DEF MatchingPart!Shortlist
    <3> QED  BY <1>3, <1>5, <3>1, <3>2
  <2> QED  BY <2>1, <2>2
<1> QED  BY <1>0, <1>1, <1>2, <1>6, AssessmentsStay, MatchesStay, AuthorGoes DEF MatchingInv

\* The matches are written, and those off the shortlist removed.
LEMMA MatchSteps ==
  ASSUME MatchingInv, NEW q \in Authors, MatchingPart!Gate(q) \/ MatchingPart!Stamp(q)
  PROVE  MatchingInv'
<1>0. /\ text \in Nat /\ now \in 1..MaxTime /\ shortlistedAt \in 0..now /\ job = [j \in MatchingPart!Jobs |-> job[j]]
      /\ matched \in [Venues -> MatchableRows] /\ match \in [Venues -> MatchRows] /\ job["matching"] \in MatchJobs
  BY BoundsAssumption DEF MatchingInv, Assessed, Matches
<1>1. UNCHANGED <<text, profile, mech, sem, matched>>
  BY DEF MatchingPart!Gate, MatchingPart!Stamp, MatchingPart!manuscript
<1>2. AuthorsOK'
  <2>1. AuthorOK(MatchingPart!Idle) /\ \A kept1, all : AuthorOK(MatchingPart!AtStamp(kept1, all))
    BY DEF AuthorOK, MatchingPart!Idle, MatchingPart!AtStamp
  <2>2. \E where : MatchingPart!Goto(q, where) /\ AuthorOK(where)
    BY <2>1 DEF MatchingPart!Gate, MatchingPart!Stamp
  <2> QED  BY <1>1, <2>2, AuthorGoes DEF MatchingInv
<1>3. CASE MatchingPart!Gate(q)
  <2>1. request[q].text \in 1..text
    BY <1>3 DEF MatchingPart!Gate, MatchingInv, AuthorsOK, AuthorOK
  <2>2. UNCHANGED <<now, shortlistedAt, job>>
    BY <1>3 DEF MatchingPart!Gate
  <2>3. match' = [v \in Venues |-> IF v \in request[q].kept
                                   THEN [text |-> request[q].text, config |-> matched[v].config] ELSE match[v]]
    BY <1>3 DEF MatchingPart!Gate
  <2>4. ASSUME NEW v \in Venues
        PROVE  /\ match'[v] \in MatchRows
               /\ match'[v] # MatchingPart!NoMatch => match'[v].text \in 1..text /\ match'[v].config \in 1..matched[v].config
               /\ match[v] # MatchingPart!NoMatch => match'[v] # MatchingPart!NoMatch
    <3>1. CASE v \notin request[q].kept
      BY <1>0, <2>3, <3>1 DEF MatchingInv, Matches
    <3>2. CASE v \in request[q].kept
      <4>1. matched[v].config \in Nat \ {0}
        BY <1>0 DEF MatchableRows
      <4>2. match'[v].text = request[q].text /\ match'[v].config = matched[v].config /\ match'[v] \in MatchRows
        BY <1>0, <2>1, <2>3, <3>2, <4>1 DEF MatchRows
      <4>3. match'[v].text # MatchingPart!NoMatch.text
        BY <1>0, <2>1, <4>2 DEF MatchingPart!NoMatch
      <4> QED  BY <2>1, <4>1, <4>2, <4>3
    <3> QED  BY <3>1, <3>2
  <2>5. match' \in [Venues -> MatchRows]
    BY <2>3, <2>4
  <2>6. Matches'
    BY <1>0, <1>1, <2>2, <2>4, <2>5
    DEF MatchingInv, Matches, MatchingPart!Jobs, MatchingPart!NoMatch, MatchJobs, MatchRows, MatchableRows, MatchingPart!Idle
  <2> QED  BY <1>1, <1>2, <2>2, <2>6, AssessmentsStay DEF MatchingInv
<1>4. CASE MatchingPart!Stamp(q)
  <2>1. now' \in 1..MaxTime /\ shortlistedAt' \in 0..now'
    BY <1>0, <1>4, BoundsAssumption DEF MatchingPart!Stamp
  <2>2. PICK removed \in SUBSET Venues :
          /\ match' = [v \in Venues |-> IF v \in removed THEN MatchingPart!NoMatch ELSE match[v]]
          /\ job' = IF job["matching"].at = "match"
                    THEN [job EXCEPT !["matching"].lost = @ \union removed] ELSE job
    BY <1>4 DEF MatchingPart!Stamp, MatchingPart!Matched
  <2>3. MatchingPart!NoMatch \in MatchRows
    BY DEF MatchingPart!NoMatch, MatchRows
  <2>4. /\ match' \in [Venues -> MatchRows]
        /\ \A v \in Venues : match'[v] # MatchingPart!NoMatch => match'[v] = match[v]
        /\ \A v \in Venues \ removed : match'[v] = match[v]
    BY <1>0, <2>2, <2>3
  <2>5. job'["readiness"] = job["readiness"] /\ job' = [j \in MatchingPart!Jobs |-> job'[j]]
    BY <1>0, <2>2 DEF MatchingPart!Jobs
  <2>6. CASE job["matching"].at # "match"
    BY <1>0, <1>1, <2>1, <2>2, <2>4, <2>5, <2>6, <1>2, AssessmentsStay
    DEF MatchingInv, Matches, MatchingPart!Jobs, MatchingPart!NoMatch, MatchJobs, MatchRows, MatchableRows, MatchingPart!Idle
  <2>7. CASE job["matching"].at = "match"
    <3>1. job["matching"] \in [at : {"match"}, rows : [Venues -> MatchRows], lost : SUBSET Venues]
      BY <1>0, <2>7 DEF MatchJobs, MatchingPart!Idle
    <3>2. PICK listed : listed = [job["matching"] EXCEPT !.lost = @ \union removed]
      OBVIOUS
    <3>3. /\ listed \in [at : {"match"}, rows : [Venues -> MatchRows], lost : SUBSET Venues]
          /\ listed.rows = job["matching"].rows /\ listed.lost = job["matching"].lost \union removed
      BY <3>1, <3>2
    <3>4. job'["matching"] = listed
      BY <1>0, <2>2, <2>7, <3>2 DEF MatchingPart!Jobs
    <3>5. \A v \in Venues : job'["matching"].rows[v] # MatchingPart!NoMatch =>
              /\ job'["matching"].rows[v].config \in 1..matched[v].config
              /\ v \notin job'["matching"].lost => match'[v] # MatchingPart!NoMatch
      BY <2>4, <2>7, <3>3, <3>4 DEF MatchingInv, Matches
    <3>6. job'["matching"] \in MatchJobs
      BY <3>3, <3>4 DEF MatchJobs
    <3>7. Matches'
      BY <1>0, <1>1, <2>1, <2>4, <2>5, <3>5, <3>6
      DEF MatchingInv, Matches, MatchingPart!Jobs, MatchingPart!NoMatch, MatchJobs, MatchRows, MatchableRows, MatchingPart!Idle
    <3> QED  BY <1>1, <1>2, <2>5, <3>7, AssessmentsStay DEF MatchingInv
  <2> QED  BY <2>6, <2>7
<1> QED  BY <1>3, <1>4

\* The semantic matching, and what is queued.
LEMMA MatchingJobSteps ==
  ASSUME MatchingInv,
         \/ MatchingPart!MatchingStarts \/ MatchingPart!MatchingEnds
         \/ \E j \in MatchingPart!Jobs : MatchingPart!Queue(j)
         \/ \E v \in Venues : MatchingPart!MatchOne(v)
  PROVE  MatchingInv'
<1>0. /\ text \in Nat /\ now \in 1..MaxTime /\ shortlistedAt \in 0..now /\ job = [j \in MatchingPart!Jobs |-> job[j]]
      /\ matched \in [Venues -> MatchableRows] /\ match \in [Venues -> MatchRows] /\ job["matching"] \in MatchJobs
  BY BoundsAssumption DEF MatchingInv, Assessed, Matches
<1>1. UNCHANGED <<text, profile, mech, sem, matched, now, shortlistedAt, request>>
  BY DEF MatchingPart!MatchingStarts, MatchingPart!MatchingEnds, MatchingPart!Queue, MatchingPart!MatchOne,
         MatchingPart!manuscript, MatchingPart!matches
<1>2. /\ MatchingPart!Idle \in MatchJobs /\ [at |-> "queued"] \in MatchJobs
      /\ MatchingPart!Idle.at = "idle"
  BY DEF MatchJobs, MatchingPart!Idle
<1>3. AuthorsOK'
  BY <1>1, AuthorsStay DEF MatchingInv
\* The matching job becomes next, and a match at most gets another configuration.
<1>4. ASSUME NEW next \in MatchJobs, job' = [job EXCEPT !["matching"] = next],
             match' \in [Venues -> MatchRows],
             \A v \in Venues : match'[v] # MatchingPart!NoMatch =>
                 match'[v].text \in 1..text /\ match'[v].config \in 1..matched[v].config,
             next.at = "match" => \A v \in Venues : next.rows[v] # MatchingPart!NoMatch =>
                 /\ next.rows[v].config \in 1..matched[v].config
                 /\ v \notin next.lost => match'[v] # MatchingPart!NoMatch
      PROVE  MatchingInv'
  <2>1. /\ job' = [j \in MatchingPart!Jobs |-> job'[j]] /\ job'["matching"] = next
        /\ job'["readiness"] = job["readiness"]
    BY <1>0, <1>4 DEF MatchingPart!Jobs
  <2>2. Matches'
    BY <1>0, <1>1, <1>4, <2>1
    DEF MatchingInv, Matches, MatchingPart!Jobs, MatchingPart!NoMatch, MatchJobs, MatchRows, MatchableRows, MatchingPart!Idle
  <2> QED  BY <1>1, <1>3, <2>1, <2>2, AssessmentsStay DEF MatchingInv
<1>5. \A v \in Venues : match[v] # MatchingPart!NoMatch =>
          match[v].text \in 1..text /\ match[v].config \in 1..matched[v].config
  BY DEF MatchingInv, Matches
<1>6. CASE MatchingPart!MatchingEnds
  BY <1>0, <1>2, <1>4, <1>5, <1>6 DEF MatchingPart!MatchingEnds, MatchingPart!matches
<1>7. CASE MatchingPart!MatchingStarts
  <2>1. MatchingPart!AtMatch(match) \in MatchJobs
    BY <1>0 DEF MatchingPart!AtMatch, MatchJobs
  <2>2. UNCHANGED match
    BY <1>7 DEF MatchingPart!MatchingStarts, MatchingPart!matches
  <2>3. MatchingPart!AtMatch(match).rows = match
    BY DEF MatchingPart!AtMatch
  <2>4. PICK next : /\ job' = [job EXCEPT !["matching"] = next]
                    /\ next = MatchingPart!Idle \/ next = MatchingPart!AtMatch(match)
    BY <1>7 DEF MatchingPart!MatchingStarts
  <2>5. CASE next = MatchingPart!Idle
    BY <1>0, <1>2, <1>4, <1>5, <2>2, <2>4, <2>5
  <2>6. CASE next = MatchingPart!AtMatch(match)
    BY <1>0, <1>4, <1>5, <2>1, <2>2, <2>3, <2>4, <2>6
  <2> QED  BY <2>4, <2>5, <2>6
<1>8. ASSUME NEW j \in MatchingPart!Jobs, MatchingPart!Queue(j)  PROVE MatchingInv'
  <2>1. job' = [job EXCEPT ![j] = [at |-> "queued"]] /\ UNCHANGED match
    BY <1>8 DEF MatchingPart!Queue, MatchingPart!matches
  <2>2. CASE j = "matching"
    <3>1. PICK next : next = [at |-> "queued"]
      OBVIOUS
    <3>2. next.at # "match" /\ next \in MatchJobs
      BY <1>2, <3>1
    <3> QED  BY <1>0, <1>4, <1>5, <2>1, <2>2, <3>1, <3>2
  <2>3. CASE j = "readiness"
    <3>1. /\ job'["matching"] = job["matching"] /\ job'["readiness"].at # "reading"
          /\ job' = [x \in MatchingPart!Jobs |-> job'[x]]
      BY <1>0, <2>1, <2>3 DEF MatchingPart!Jobs
    <3> QED  BY <1>0, <1>1, <1>3, <2>1, <3>1, AssessmentsStay, MatchesStay DEF MatchingInv
  <2> QED  BY <2>2, <2>3 DEF MatchingPart!Jobs
<1>9. ASSUME NEW v \in Venues, MatchingPart!MatchOne(v)  PROVE MatchingInv'
  <2>1. job["matching"].at = "match" /\ job["matching"].rows[v] # MatchingPart!NoMatch
    BY <1>9 DEF MatchingPart!MatchOne
  <2>2. job["matching"] \in [at : {"match"}, rows : [Venues -> MatchRows], lost : SUBSET Venues]
    BY <1>0, <2>1 DEF MatchJobs, MatchingPart!Idle
  <2>3. CASE v \in job["matching"].lost
    BY <1>0, <1>2, <1>4, <1>5, <1>9, <2>3 DEF MatchingPart!MatchOne
  <2>4. CASE v \notin job["matching"].lost
    <3>1. /\ match' = [match EXCEPT ![v].config = job["matching"].rows[v].config]
          /\ job' = [job EXCEPT !["matching"].rows[v] = MatchingPart!NoMatch]
      BY <1>9, <2>4 DEF MatchingPart!MatchOne
    <3>2. /\ job["matching"].rows[v].config \in 1..matched[v].config
          /\ match[v] # MatchingPart!NoMatch
      BY <2>1, <2>4 DEF MatchingInv, Matches
    <3>3. PICK config1 : config1 = job["matching"].rows[v].config
      OBVIOUS
    <3>4. config1 \in 1..matched[v].config /\ config1 \in Nat /\ config1 # 0
      BY <1>0, <3>2, <3>3 DEF MatchableRows
    <3>5. PICK row : row = [match[v] EXCEPT !.config = config1]
      OBVIOUS
    <3>6. row \in MatchRows /\ row.config = config1 /\ row.text = match[v].text
      BY <1>0, <3>4, <3>5 DEF MatchRows
    <3>7. row # MatchingPart!NoMatch
      BY <3>4, <3>6 DEF MatchingPart!NoMatch
    <3>8. match' = [match EXCEPT ![v] = row]
      BY <3>1, <3>3, <3>5
    <3>9. /\ match' \in [Venues -> MatchRows] /\ match'[v] = row
          /\ \A x \in Venues \ {v} : match'[x] = match[x]
      BY <1>0, <3>6, <3>8
    <3>10. \A x \in Venues : match'[x] # MatchingPart!NoMatch =>
              match'[x].text \in 1..text /\ match'[x].config \in 1..matched[x].config
      BY <1>5, <3>2, <3>4, <3>6, <3>9
    <3>11. PICK next : next = [job["matching"] EXCEPT !.rows[v] = MatchingPart!NoMatch]
      OBVIOUS
    <3>12. MatchingPart!NoMatch \in MatchRows
      BY DEF MatchingPart!NoMatch, MatchRows
    <3>13. /\ next \in [at : {"match"}, rows : [Venues -> MatchRows], lost : SUBSET Venues]
           /\ next.lost = job["matching"].lost /\ next.rows[v] = MatchingPart!NoMatch
           /\ \A x \in Venues \ {v} : next.rows[x] = job["matching"].rows[x]
      BY <2>2, <3>11, <3>12
    <3>14. job' = [job EXCEPT !["matching"] = next]
      BY <3>1, <3>11
    <3>15. \A x \in Venues : next.rows[x] # MatchingPart!NoMatch =>
              /\ next.rows[x].config \in 1..matched[x].config
              /\ x \notin next.lost => match'[x] # MatchingPart!NoMatch
      BY <2>1, <3>7, <3>9, <3>13 DEF MatchingInv, Matches
    <3>16. next \in MatchJobs
      BY <3>13 DEF MatchJobs
    <3> QED  BY <1>4, <3>9, <3>10, <3>14, <3>15, <3>16
  <2> QED  BY <2>3, <2>4
<1> QED  BY <1>6, <1>7, <1>8, <1>9

LEMMA VenueStep ==
  ASSUME MatchingInv, NEW v \in Venues, MatchingPart!VenueChanges(v)
  PROVE  MatchingInv'
<1>0. /\ now \in 1..MaxTime /\ shortlistedAt \in 0..now /\ matched \in [Venues -> MatchableRows]
  BY DEF MatchingInv, Matches
<1>1. now' \in 1..MaxTime /\ shortlistedAt' \in 0..now' /\ now' \in Nat
  BY <1>0, BoundsAssumption DEF MatchingPart!VenueChanges, MatchingPart!matches
<1>2. UNCHANGED <<text, profile, mech, sem, match, request, job>>
  BY DEF MatchingPart!VenueChanges, MatchingPart!manuscript, MatchingPart!matches
<1>3. PICK shown \in BOOLEAN :
        matched' = [matched EXCEPT ![v] = [matchable |-> shown, updated |-> now', config |-> @.config + 1]]
  BY DEF MatchingPart!VenueChanges
<1>4. PICK row : row = [matchable |-> shown, updated |-> now', config |-> matched[v].config + 1]
  OBVIOUS
<1>5. matched[v].config \in Nat \ {0}
  BY <1>0 DEF MatchableRows
<1>6. row \in MatchableRows /\ row.config = matched[v].config + 1
  BY <1>1, <1>4, <1>5 DEF MatchableRows
<1>7. /\ matched' \in [Venues -> MatchableRows] /\ matched'[v] = row
      /\ \A x \in Venues \ {v} : matched'[x] = matched[x]
  BY <1>0, <1>3, <1>4, <1>6
<1>8. \A x \in Venues : \A n \in 1..matched[x].config : n \in 1..matched'[x].config
  BY <1>5, <1>6, <1>7
<1>9. Matches'
  BY <1>1, <1>2, <1>7, <1>8
  DEF MatchingInv, Matches, MatchingPart!Jobs, MatchingPart!NoMatch, MatchJobs, MatchRows, MatchableRows, MatchingPart!Idle
<1> QED  BY <1>2, <1>9, AssessmentsStay, AuthorsStay DEF MatchingInv

LEMMA MatchingStep == MatchingInv /\ [MatchingPart!Next]_matchingVars => MatchingInv'
<1> SUFFICES ASSUME MatchingInv, [MatchingPart!Next]_matchingVars  PROVE MatchingInv'
  OBVIOUS
<1>1. CASE UNCHANGED matchingVars
  <2>1. Matches'
    BY <1>1 DEF matchingVars, MatchingInv, Matches, MatchingPart!Jobs, MatchingPart!NoMatch, MatchJobs, MatchRows, MatchableRows, MatchingPart!Idle
  <2> QED  BY <1>1, <2>1, AssessmentsStay, AuthorsStay DEF matchingVars, MatchingInv
<1>2. CASE MatchingPart!Next
  BY <1>2, EditStep, ReadinessSteps, RankingSteps, MatchSteps, MatchingJobSteps, VenueStep
  DEF MatchingPart!Next, MatchingPart!RequestStep
<1> QED  BY <1>1, <1>2

(***************************************************************************)
(* The configurations of a venue.  The handler that holds the lock of the  *)
(* venue row sees the versions and the feedback as they are, so one        *)
(* configuration is active and each feedback goes into one draft.          *)
(***************************************************************************)

Feedbacks == 1..MaxFeedback
Handlers == {"post", "apply", "draft", "activate"}
Contents == [ConfigFields -> 0..MaxFeedback]
Configs == [active : BOOLEAN, content : Contents, from : SUBSET Feedbacks]
Given == [field : ConfigFields \union {"other"}, applied : 0..MaxVersion]
ConfigPlaces == {ConfigsPart!Idle} \union [handler : Handlers, configs : Seq(Configs), feedback : Seq(Given)]

ConfigTypes ==
    /\ configs \in Seq(Configs) /\ feedback \in Seq(Given)
    /\ changes \in BOOLEAN
    /\ configAt \in [Requests -> ConfigPlaces]
    /\ Len(feedback) <= MaxFeedback /\ Len(configs) <= MaxVersion
    /\ \A i \in DOMAIN feedback : feedback[i].applied <= Len(configs)

\* The lock: one request is in a handler, and what it read is still so, but for
\* feedback that was given since.
LockHeld ==
    /\ \A q, r \in Requests : configAt[q].handler # "none" /\ configAt[r].handler # "none" => q = r
    /\ \A q \in Requests : configAt[q].handler # "none" =>
          /\ configAt[q].configs = configs
          /\ Len(configAt[q].feedback) <= Len(feedback)
          /\ \A i \in DOMAIN configAt[q].feedback : configAt[q].feedback[i] = feedback[i]
          /\ configAt[q].handler # "activate" => Len(configs) < MaxVersion

\* A draft is made of feedback that exists: the next one given is in none.
MadeOfGiven == \A v \in ConfigsPart!Versions : configs[v].from \subseteq DOMAIN feedback

ConfigsInv == ConfigTypes /\ LockHeld /\ MadeOfGiven /\ ConfigsPart!OneActiveConfig /\ ConfigsPart!FeedbackAppliedOnce

\* A set of feedback that is not empty has a latest.
LEMMA Latest ==
    ASSUME MaxFeedback \in Nat, NEW S \in SUBSET Feedbacks, S # {}
    PROVE  \E i \in S : \A k \in S : k <= i
  <1> DEFINE Above == {n \in Nat : \A k \in S : k <= n}
  <1>1. Above \subseteq Nat /\ MaxFeedback \in Above
    BY DEF Feedbacks
  <1>2. PICK m \in Above : \A n \in Above : m <= n
    <2>1. IsWellFoundedOn(OpToRel(<, Nat), Nat)
      BY NatLessThanWellFounded
    <2>2. PICK m \in Above : ~ \E n \in Above : <<n, m>> \in OpToRel(<, Nat)
      BY <1>1, <2>1, WFMin
    <2>3. \A n \in Above : ~ (n < m)
      BY <1>1, <2>2 DEF OpToRel
    <2> QED  BY <1>1, <2>3
  <1>3. CASE m \in S
    BY <1>2, <1>3
  <1>4. CASE m \notin S
    <2>1. PICK k \in S : TRUE
      OBVIOUS
    <2>2. m > 0 /\ m - 1 \in Above
      BY <1>2, <1>4, <2>1 DEF Feedbacks
    <2> QED  BY <1>2, <2>2
  <1> QED  BY <1>3, <1>4

\* The content of a draft says what the chosen feedback says, or later feedback
\* of the same choice.
LEMMA DraftContent ==
    ASSUME MaxFeedback \in Nat, ConfigTypes,
           NEW content \in Contents, NEW chosen \in SUBSET DOMAIN feedback
    PROVE  /\ ConfigsPart!Updated(content, chosen) \in Contents
           /\ \A i \in chosen : feedback[i].field \in ConfigFields =>
                 /\ ConfigsPart!Updated(content, chosen)[feedback[i].field] \in chosen
                 /\ ConfigsPart!Updated(content, chosen)[feedback[i].field] >= i
  <1> DEFINE about(f) == {i \in chosen : feedback[i].field = f}
             latest(f) == CHOOSE i \in about(f) : \A k \in about(f) : k <= i
  <1>1. chosen \subseteq Feedbacks
    BY DEF ConfigTypes, Feedbacks
  <1>2. ASSUME NEW f \in ConfigFields, about(f) # {}
        PROVE  latest(f) \in about(f) /\ \A k \in about(f) : k <= latest(f)
    <2>1. about(f) \in SUBSET Feedbacks
      BY <1>1
    <2>2. \E i \in about(f) : \A k \in about(f) : k <= i
      BY <1>2, <2>1, Latest
    <2> QED  BY <2>2
  <1>3. \A f \in ConfigFields : ConfigsPart!Updated(content, chosen)[f] = IF about(f) = {} THEN content[f] ELSE latest(f)
    BY DEF ConfigsPart!Updated
  <1>4. ConfigsPart!Updated(content, chosen) = [f \in ConfigFields |-> ConfigsPart!Updated(content, chosen)[f]]
    BY DEF ConfigsPart!Updated
  <1>5. ASSUME NEW f \in ConfigFields
        PROVE  ConfigsPart!Updated(content, chosen)[f] \in 0..MaxFeedback
    <2>1. CASE about(f) = {}
      BY <1>3, <2>1 DEF Contents
    <2>2. CASE about(f) # {}
      <3>1. latest(f) \in chosen
        BY <1>2, <2>2
      <3>2. latest(f) \in 0..MaxFeedback
        BY <1>1, <3>1 DEF Feedbacks
      <3> QED  BY <1>3, <2>2, <3>2
    <2> QED  BY <2>1, <2>2
  <1>6. ConfigsPart!Updated(content, chosen) \in Contents
    BY <1>4, <1>5 DEF Contents
  <1>7. ASSUME NEW i \in chosen, feedback[i].field \in ConfigFields
        PROVE  /\ ConfigsPart!Updated(content, chosen)[feedback[i].field] \in chosen
               /\ ConfigsPart!Updated(content, chosen)[feedback[i].field] >= i
    <2> DEFINE f == feedback[i].field
    <2>1. i \in about(f)
      OBVIOUS
    <2>2. latest(f) \in about(f) /\ i <= latest(f)
      BY <1>2, <1>7, <2>1
    <2>3. ConfigsPart!Updated(content, chosen)[f] = latest(f)
      BY <1>3, <1>7, <2>1
    <2>4. latest(f) \in Nat /\ i \in Nat
      BY <1>1, <2>2 DEF Feedbacks
    <2> HIDE DEF latest
    <2> QED  BY <2>2, <2>3, <2>4
  <1> QED  BY <1>6, <1>7

LEMMA IsSequence ==
    ASSUME NEW S, NEW n \in Nat, NEW s \in [1..n -> S]
    PROVE  s \in Seq(S) /\ Len(s) = n
  OBVIOUS

\* The versions with none active: what else they say stays.
LEMMA Deactivation ==
    ASSUME ConfigTypes
    PROVE  /\ ConfigsPart!Deactivated(configs, configs) \in Seq(Configs)
           /\ Len(ConfigsPart!Deactivated(configs, configs)) = Len(configs)
           /\ \A v \in ConfigsPart!Versions : /\ ConfigsPart!Deactivated(configs, configs)[v] \in Configs
                                  /\ ~ ConfigsPart!Deactivated(configs, configs)[v].active
                                  /\ ConfigsPart!Deactivated(configs, configs)[v].content = configs[v].content
                                  /\ ConfigsPart!Deactivated(configs, configs)[v].from = configs[v].from
  <1> DEFINE d == ConfigsPart!Deactivated(configs, configs)
  <1>1. DOMAIN configs = ConfigsPart!Versions /\ Len(configs) \in Nat /\ \A v \in ConfigsPart!Versions : configs[v] \in Configs
    BY DEF ConfigTypes, ConfigsPart!Versions
  <1>2. d = [v \in ConfigsPart!Versions |-> [configs[v] EXCEPT !.active = @ /\ v \notin ConfigsPart!ActiveOf(configs)]]
    BY <1>1 DEF ConfigsPart!Deactivated
  <1>3. ASSUME NEW v \in ConfigsPart!Versions
        PROVE  /\ d[v] \in Configs /\ ~ d[v].active
               /\ d[v].content = configs[v].content /\ d[v].from = configs[v].from
    <2>1. d[v] = [configs[v] EXCEPT !.active = @ /\ v \notin ConfigsPart!ActiveOf(configs)]
      BY <1>2
    <2>2. configs[v].active => v \in ConfigsPart!ActiveOf(configs)
      BY <1>1 DEF ConfigsPart!ActiveOf
    <2> HIDE DEF d
    <2> QED  BY <1>1, <2>1, <2>2 DEF Configs
  <1>4. d \in [ConfigsPart!Versions -> Configs]
    BY <1>2, <1>3
  <1>5. d \in Seq(Configs) /\ Len(d) = Len(configs)
    <2> HIDE DEF d
    <2> QED  BY <1>1, <1>4 DEF ConfigsPart!Versions
  <1> QED  BY <1>3, <1>5

\* The handler that holds the lock lets it go: nobody holds it then.
LEMMA Released ==
    ASSUME ConfigTypes, LockHeld, NEW q \in Requests, configAt[q].handler # "none", ConfigsPart!Answer(q)
    PROVE  configAt' \in [Requests -> ConfigPlaces] /\ \A r \in Requests : configAt'[r].handler = "none"
  BY DEF ConfigTypes, LockHeld, ConfigsPart!Answer, ConfigPlaces, ConfigsPart!Idle

\* A version that is added active, after the others were deactivated.
LEMMA NewActiveVersion ==
    ASSUME MaxFeedback \in Nat, ConfigsInv, Len(configs) < MaxVersion, MaxVersion \in Nat,
           configs' = Append(ConfigsPart!Deactivated(configs, configs), ConfigsPart!Version(TRUE, [f \in ConfigFields |-> 0], {})),
           UNCHANGED feedback
    PROVE  /\ configs' \in Seq(Configs) /\ Len(configs') <= MaxVersion
           /\ MadeOfGiven' /\ ConfigsPart!OneActiveConfig' /\ ConfigsPart!FeedbackAppliedOnce'
  <1> DEFINE new == ConfigsPart!Version(TRUE, [f \in ConfigFields |-> 0], {})
             n == Len(configs) + 1
  <1> USE DEF ConfigsInv
  <1>1. new \in Configs /\ new.active = TRUE /\ new.from = {}
    BY DEF ConfigsPart!Version, Configs, Contents
  <1>2. /\ configs' \in Seq(Configs) /\ Len(configs') = n /\ configs'[n] = new
        /\ \A v \in ConfigsPart!Versions : configs'[v] = ConfigsPart!Deactivated(configs, configs)[v]
    <2> DEFINE d == ConfigsPart!Deactivated(configs, configs)
    <2>1. d \in Seq(Configs) /\ Len(d) = Len(configs) /\ ConfigsPart!Versions = 1..Len(d) /\ configs' = Append(d, new)
      BY Deactivation DEF ConfigsPart!Versions
    <2> HIDE DEF new, d
    <2>2. Append(d, new) \in Seq(Configs) /\ Len(Append(d, new)) = Len(d) + 1
      BY <1>1, <2>1
    <2>3. Append(d, new)[n] = new /\ \A v \in 1..Len(d) : Append(d, new)[v] = d[v]
      BY <1>1, <2>1
    <2> QED  BY <2>1, <2>2, <2>3 DEF d
  <1>3. ConfigsPart!Versions' = ConfigsPart!Versions \union {n} /\ n \notin ConfigsPart!Versions /\ DOMAIN configs' = ConfigsPart!Versions'
    BY <1>2 DEF ConfigsPart!Versions, ConfigTypes
  <1>4. ConfigsPart!ActiveOf(configs') = {n}
    <2> HIDE DEF new
    <2> QED  BY <1>1, <1>2, <1>3, Deactivation DEF ConfigsPart!ActiveOf
  <1>5. ConfigsPart!OneActiveConfig'
    BY <1>3, <1>4 DEF ConfigsPart!OneActiveConfig
  <1>6. /\ \A v \in ConfigsPart!Versions : configs'[v].from = configs[v].from /\ configs'[v].content = configs[v].content
        /\ configs'[n].from = {}
    BY <1>1, <1>2, Deactivation
  <1>7. ConfigsPart!FeedbackAppliedOnce'
    <2> HIDE DEF new
    <2>1. \A i \in DOMAIN feedback : feedback[i].applied # n
      BY DEF ConfigTypes, Given
    <2>2. ASSUME NEW i \in DOMAIN feedback
          PROVE  \A v \in ConfigsPart!Versions' : i \in configs'[v].from <=> feedback[i].applied = v
      BY <1>3, <1>6, <2>1 DEF ConfigsPart!FeedbackAppliedOnce
    <2>3. ASSUME NEW i \in DOMAIN feedback, feedback[i].applied > 0
          PROVE  feedback[i].applied \in ConfigsPart!Versions
      <3>1. feedback[i] \in Given /\ feedback[i].applied <= Len(configs) /\ Len(configs) \in Nat
        BY DEF ConfigTypes
      <3> QED  BY <2>3, <3>1 DEF Given, ConfigsPart!Versions
    <2>4. ASSUME NEW i \in DOMAIN feedback, feedback[i].applied > 0
          PROVE  LET draft == configs'[feedback[i].applied]
                     says == draft.content[feedback[i].field]
                 IN  says \in draft.from /\ says >= i
      BY <1>6, <2>3, <2>4 DEF ConfigsPart!FeedbackAppliedOnce
    <2> QED  BY <2>2, <2>4 DEF ConfigsPart!FeedbackAppliedOnce
  <1>8. Len(configs') <= MaxVersion
    <2>1. Len(configs) \in Nat /\ Len(configs') = Len(configs) + 1
      BY <1>2 DEF ConfigTypes
    <2> QED  BY <2>1
  <1>9. MadeOfGiven'
    BY <1>3, <1>6 DEF MadeOfGiven
  <1> QED  BY <1>2, <1>5, <1>7, <1>8, <1>9

\* A version that is activated, the others having been deactivated.
LEMMA ActivatedVersion ==
    ASSUME ConfigsInv, NEW v \in ConfigsPart!Versions, UNCHANGED feedback,
           configs' = [ConfigsPart!Deactivated(configs, configs) EXCEPT ![v].active = TRUE]
    PROVE  /\ configs' \in Seq(Configs) /\ Len(configs') = Len(configs)
           /\ MadeOfGiven' /\ ConfigsPart!OneActiveConfig' /\ ConfigsPart!FeedbackAppliedOnce'
  <1> DEFINE d == ConfigsPart!Deactivated(configs, configs)
  <1> USE DEF ConfigsInv
  <1>1. d \in Seq(Configs) /\ Len(d) = Len(configs) /\ ConfigsPart!Versions = 1..Len(d)
    BY Deactivation DEF ConfigsPart!Versions
  <1>2. /\ configs' \in Seq(Configs) /\ Len(configs') = Len(d) /\ configs'[v].active
        /\ \A w \in ConfigsPart!Versions : /\ configs'[w].from = d[w].from /\ configs'[w].content = d[w].content
                               /\ w # v => configs'[w] = d[w]
    <2> DEFINE r == [d[v] EXCEPT !.active = TRUE]
    <2>1. d[v] \in Configs
      BY Deactivation
    <2>2. configs' = [d EXCEPT ![v] = r]
      OBVIOUS
    <2> HIDE DEF d
    <2>3. r \in Configs /\ r.active /\ r.from = d[v].from /\ r.content = d[v].content
      BY <2>1 DEF Configs
    <2> HIDE DEF r
    <2>4. configs' \in Seq(Configs) /\ Len(configs') = Len(d) /\ configs'[v] = r
      <3>1. d \in [1..Len(d) -> Configs] /\ Len(d) \in Nat
        BY <1>1
      <3>2. configs' \in [1..Len(d) -> Configs] /\ configs'[v] = r
        BY <1>1, <2>2, <2>3, <3>1
      <3> QED  BY <3>1, <3>2, IsSequence
    <2>5. \A w \in ConfigsPart!Versions \ {v} : configs'[w] = d[w]
      BY <1>1, <2>2
    <2> QED  BY <2>3, <2>4, <2>5
  <1>3. ConfigsPart!Versions' = ConfigsPart!Versions /\ DOMAIN configs' = ConfigsPart!Versions
    BY <1>1, <1>2 DEF ConfigsPart!Versions
  <1>4. ConfigsPart!ActiveOf(configs') = {v}
    <2>1. \A w \in ConfigsPart!Versions : w # v => ~ configs'[w].active
      BY <1>2, Deactivation
    <2> QED  BY <1>2, <1>3, <2>1 DEF ConfigsPart!ActiveOf
  <1>5. ConfigsPart!OneActiveConfig'
    BY <1>3, <1>4 DEF ConfigsPart!OneActiveConfig
  <1>6. \A w \in ConfigsPart!Versions : configs'[w].from = configs[w].from /\ configs'[w].content = configs[w].content
    BY <1>2, Deactivation
  <1>7. ASSUME NEW i \in DOMAIN feedback, feedback[i].applied > 0
        PROVE  feedback[i].applied \in ConfigsPart!Versions
    <2>1. feedback[i] \in Given /\ feedback[i].applied <= Len(configs) /\ Len(configs) \in Nat
      BY DEF ConfigTypes
    <2> QED  BY <1>7, <2>1 DEF Given, ConfigsPart!Versions
  <1>8. ConfigsPart!FeedbackAppliedOnce'
    BY <1>3, <1>6, <1>7 DEF ConfigsPart!FeedbackAppliedOnce
  <1>9. MadeOfGiven'
    BY <1>3, <1>6 DEF MadeOfGiven
  <1> QED  BY <1>1, <1>2, <1>5, <1>8, <1>9

\* A draft of version v and the chosen feedback, none of which was applied before.
LEMMA NewDraft ==
    ASSUME MaxFeedback \in Nat, ConfigsInv, Len(configs) < MaxVersion, MaxVersion \in Nat,
           NEW v \in ConfigsPart!ActiveOf(configs), NEW chosen \in SUBSET DOMAIN feedback,
           \A i \in chosen : feedback[i].applied = 0 /\ feedback[i].field \in ConfigFields,
           configs' = Append(configs, ConfigsPart!Version(FALSE, ConfigsPart!Updated(configs[v].content, chosen), chosen)),
           feedback' = [i \in DOMAIN feedback |->
                           IF i \in chosen THEN [feedback[i] EXCEPT !.applied = Len(configs) + 1] ELSE feedback[i]]
    PROVE  /\ configs' \in Seq(Configs) /\ Len(configs') = Len(configs) + 1
           /\ feedback' \in Seq(Given) /\ Len(feedback') = Len(feedback)
           /\ \A i \in DOMAIN feedback' : feedback'[i].applied <= Len(configs')
           /\ MadeOfGiven' /\ ConfigsPart!OneActiveConfig' /\ ConfigsPart!FeedbackAppliedOnce'
  <1> DEFINE drafted == ConfigsPart!Updated(configs[v].content, chosen)
             new == ConfigsPart!Version(FALSE, drafted, chosen)
             n == Len(configs) + 1
  <1>0. ConfigTypes /\ MadeOfGiven /\ ConfigsPart!OneActiveConfig /\ ConfigsPart!FeedbackAppliedOnce
    BY DEF ConfigsInv
  <1>1. v \in ConfigsPart!Versions /\ configs[v] \in Configs /\ Len(configs) \in Nat /\ DOMAIN configs = ConfigsPart!Versions
    BY <1>0 DEF ConfigsPart!ActiveOf, ConfigTypes, ConfigsPart!Versions
  <1>2. /\ drafted \in Contents
        /\ \A i \in chosen : drafted[feedback[i].field] \in chosen /\ drafted[feedback[i].field] >= i
    BY <1>0, <1>1, DraftContent DEF Configs
  <1>3. chosen \subseteq Feedbacks
    BY <1>0 DEF ConfigTypes, Feedbacks
  <1> HIDE DEF drafted
  <1>4. new \in Configs /\ new.active = FALSE /\ new.from = chosen /\ new.content = drafted
    BY <1>2, <1>3 DEF ConfigsPart!Version, Configs
  <1>5. configs' = Append(configs, new)
    BY DEF drafted
  <1> HIDE DEF new
  <1>6. /\ configs' \in Seq(Configs) /\ Len(configs') = n /\ configs'[n] = new
        /\ \A w \in ConfigsPart!Versions : configs'[w] = configs[w]
    <2>1. configs \in Seq(Configs) /\ ConfigsPart!Versions = 1..Len(configs)
      BY <1>0 DEF ConfigTypes, ConfigsPart!Versions
    <2>2. Append(configs, new) \in Seq(Configs) /\ Len(Append(configs, new)) = n
      BY <1>4, <2>1
    <2>3. Append(configs, new)[n] = new /\ \A w \in 1..Len(configs) : Append(configs, new)[w] = configs[w]
      BY <1>4, <2>1
    <2> QED  BY <1>5, <2>1, <2>2, <2>3
  <1>7. ConfigsPart!Versions' = ConfigsPart!Versions \union {n} /\ n \notin ConfigsPart!Versions /\ DOMAIN configs' = ConfigsPart!Versions'
    BY <1>1, <1>6 DEF ConfigsPart!Versions
  <1>8. ConfigsPart!OneActiveConfig'
    <2>1. ConfigsPart!ActiveOf(configs') = ConfigsPart!ActiveOf(configs)
      <3>1. ConfigsPart!ActiveOf(configs) = {w \in ConfigsPart!Versions : configs[w].active}
        BY <1>1 DEF ConfigsPart!ActiveOf
      <3>2. ConfigsPart!ActiveOf(configs') = {w \in ConfigsPart!Versions' : configs'[w].active}
        BY <1>7 DEF ConfigsPart!ActiveOf
      <3>3. configs'[n].active = FALSE
        BY <1>4, <1>6
      <3> QED  BY <1>6, <1>7, <3>1, <3>2, <3>3
    <2>2. configs # <<>>
      BY <1>1 DEF ConfigsPart!Versions
    <2> QED  BY <1>0, <1>7, <2>1, <2>2 DEF ConfigsPart!OneActiveConfig
  <1>9. \A i \in DOMAIN feedback : feedback[i] \in Given
    BY <1>0 DEF ConfigTypes
  <1>10. /\ feedback' \in Seq(Given) /\ Len(feedback') = Len(feedback) /\ DOMAIN feedback' = DOMAIN feedback
         /\ \A i \in chosen : feedback'[i].applied = n /\ feedback'[i].field = feedback[i].field
         /\ \A i \in DOMAIN feedback \ chosen : feedback'[i] = feedback[i]
    <2>1. n \in 0..MaxVersion
      BY <1>1
    <2>2. \A i \in DOMAIN feedback : feedback'[i] \in Given
      BY <1>9, <2>1 DEF Given
    <2>3. \A i \in chosen : feedback'[i].applied = n /\ feedback'[i].field = feedback[i].field
      BY <1>9 DEF Given
    <2>4. DOMAIN feedback = 1..Len(feedback) /\ Len(feedback) \in Nat
      BY <1>0 DEF ConfigTypes
    <2>5. feedback' \in [1..Len(feedback) -> Given]
      BY <2>2, <2>4
    <2>6. feedback' \in Seq(Given) /\ Len(feedback') = Len(feedback)
      BY <2>4, <2>5
    <2> QED  BY <2>3, <2>4, <2>5, <2>6
  <1>11. \A i \in DOMAIN feedback : feedback[i].applied <= Len(configs) /\ feedback[i].applied \in Nat
    BY <1>0, <1>9 DEF ConfigTypes, Given
  <1>12. \A i \in DOMAIN feedback' : feedback'[i].applied <= Len(configs')
    BY <1>1, <1>6, <1>10, <1>11
  <1>13. ConfigsPart!FeedbackAppliedOnce'
    <2>1. ASSUME NEW i \in DOMAIN feedback', NEW w \in ConfigsPart!Versions'
          PROVE  i \in configs'[w].from <=> feedback'[i].applied = w
      <3>1. CASE w \in ConfigsPart!Versions
        <4>1. CASE i \in chosen
          <5>1. ~ (i \in configs[w].from)
            BY <1>0, <1>10, <3>1, <4>1 DEF ConfigsPart!FeedbackAppliedOnce, ConfigsPart!Versions
          <5>2. feedback'[i].applied # w
            BY <1>7, <1>10, <3>1, <4>1
          <5> QED  BY <1>6, <3>1, <5>1, <5>2
        <4>2. CASE i \notin chosen
          BY <1>0, <1>6, <1>10, <3>1, <4>2 DEF ConfigsPart!FeedbackAppliedOnce
        <4> QED  BY <4>1, <4>2
      <3>2. CASE w = n
        <4>1. configs'[w].from = chosen
          BY <1>4, <1>6, <3>2
        <4>2. i \notin chosen => feedback'[i].applied # n
          BY <1>1, <1>10, <1>11
        <4> QED  BY <1>10, <3>2, <4>1, <4>2
      <3> QED  BY <1>7, <3>1, <3>2
    <2>2. ASSUME NEW i \in DOMAIN feedback', feedback'[i].applied > 0
          PROVE  LET draft == configs'[feedback'[i].applied]
                     says == draft.content[feedback'[i].field]
                 IN  says \in draft.from /\ says >= i
      <3>1. CASE i \in chosen
        <4>1. configs'[feedback'[i].applied] = new /\ feedback'[i].field = feedback[i].field
          BY <1>6, <1>10, <3>1
        <4> QED  BY <1>2, <1>4, <3>1, <4>1
      <3>2. CASE i \notin chosen
        <4>1. feedback'[i] = feedback[i] /\ feedback[i].applied \in ConfigsPart!Versions
          BY <1>1, <1>10, <1>11, <2>2, <3>2 DEF ConfigsPart!Versions
        <4>2. configs'[feedback[i].applied] = configs[feedback[i].applied]
          BY <1>6, <4>1
        <4> QED  BY <1>0, <1>10, <2>2, <4>1, <4>2 DEF ConfigsPart!FeedbackAppliedOnce
      <3> QED  BY <3>1, <3>2
    <2> QED  BY <2>1, <2>2 DEF ConfigsPart!FeedbackAppliedOnce
  <1>14. MadeOfGiven'
    <2>1. \A w \in ConfigsPart!Versions : configs'[w].from \subseteq DOMAIN feedback
      BY <1>0, <1>6 DEF MadeOfGiven
    <2>2. configs'[n].from = chosen
      BY <1>4, <1>6
    <2> QED  BY <1>7, <1>10, <2>1, <2>2 DEF MadeOfGiven
  <1> QED  BY <1>6, <1>8, <1>10, <1>12, <1>13, <1>14

LEMMA ConfigsInit == BoundsAssumption /\ ConfigsPart!Init => ConfigsInv
  <1> SUFFICES ASSUME BoundsAssumption, ConfigsPart!Init PROVE ConfigsInv
    OBVIOUS
  <1>1. /\ configs = <<>> /\ feedback = <<>> /\ changes \in BOOLEAN /\ configAt = [q \in Requests |-> ConfigsPart!Idle]
    BY DEF ConfigsPart!Init
  <1>2. /\ configs \in Seq(Configs) /\ feedback \in Seq(Given)
        /\ Len(configs) = 0 /\ Len(feedback) = 0 /\ DOMAIN feedback = {} /\ ConfigsPart!Versions = {}
    BY <1>1 DEF ConfigsPart!Versions
  <1>3. ConfigTypes
    BY <1>1, <1>2 DEF ConfigTypes, BoundsAssumption, ConfigPlaces
  <1>4. LockHeld
    BY <1>1 DEF LockHeld, ConfigsPart!Idle
  <1> QED  BY <1>1, <1>2, <1>3, <1>4 DEF ConfigsInv, MadeOfGiven, ConfigsPart!OneActiveConfig, ConfigsPart!FeedbackAppliedOnce

\* Taking the lock, and the requests that take none.
LEMMA ConfigsQuiet ==
    ASSUME BoundsAssumption, ConfigsInv,
           \/ ConfigsPart!GiveFeedback \/ ConfigsPart!ReadChanges \/ UNCHANGED configsVars
           \/ \E q \in Requests, handler \in Handlers :
                 /\ ConfigsPart!Lock(q, handler) /\ UNCHANGED <<configs, feedback, changes>>
                 /\ handler # "activate" => Len(configs) < MaxVersion
    PROVE  ConfigsInv'
  <1>0. ConfigTypes /\ LockHeld /\ MadeOfGiven /\ ConfigsPart!OneActiveConfig /\ ConfigsPart!FeedbackAppliedOnce
    BY DEF ConfigsInv
  <1>1. CASE ConfigsPart!GiveFeedback
    <2>1. PICK f \in ConfigFields \union {"other"} : feedback' = Append(feedback, [field |-> f, applied |-> 0])
      BY <1>1 DEF ConfigsPart!GiveFeedback
    <2>2. UNCHANGED <<configs, changes, configAt>> /\ Len(feedback) < MaxFeedback
      BY <1>1 DEF ConfigsPart!GiveFeedback
    <2> DEFINE new == [field |-> f, applied |-> 0]
               n == Len(feedback) + 1
    <2>3. new \in Given /\ new.applied = 0
      BY DEF Given, BoundsAssumption
    <2>4. feedback \in Seq(Given) /\ Len(feedback) \in Nat /\ DOMAIN feedback = 1..Len(feedback)
      BY <1>0 DEF ConfigTypes
    <2> HIDE DEF new
    <2>5. /\ Append(feedback, new) \in Seq(Given) /\ Len(Append(feedback, new)) = n
          /\ Append(feedback, new)[n] = new
          /\ \A i \in DOMAIN feedback : Append(feedback, new)[i] = feedback[i]
      BY <2>3, <2>4
    <2>6. feedback' = Append(feedback, new)
      BY <2>1 DEF new
    <2>7. DOMAIN feedback' = DOMAIN feedback \union {n} /\ n \notin DOMAIN feedback
      <3>1. feedback' \in Seq(Given) /\ Len(feedback') = n
        BY ONLY <2>5, <2>6
      <3>2. DOMAIN feedback' = 1..Len(feedback')
        BY <3>1
      <3>3. DOMAIN feedback' = 1..n
        BY ONLY <3>1, <3>2
      <3> QED  BY ONLY <2>4, <3>3
    <2>8. ConfigTypes'
      <3>1. \A i \in DOMAIN feedback' : feedback'[i].applied <= Len(configs)
        BY <1>0, <2>3, <2>5, <2>6, <2>7 DEF ConfigTypes
      <3>2. feedback' \in Seq(Given) /\ Len(feedback') <= MaxFeedback
        <4>1. n <= MaxFeedback
          BY <2>2, <2>4 DEF BoundsAssumption
        <4> QED  BY ONLY <2>5, <2>6, <4>1
      <3>3. \A i \in DOMAIN feedback' : feedback'[i].applied <= Len(configs')
        BY <2>2, <3>1
      <3> HIDE DEF n
      <3> QED  BY <1>0, <2>2, <3>2, <3>3 DEF ConfigTypes
    <2>9. LockHeld'
      <3>1. ASSUME NEW q \in Requests, configAt[q].handler # "none"
            PROVE  /\ Len(configAt[q].feedback) <= Len(feedback')
                   /\ \A i \in DOMAIN configAt[q].feedback : configAt[q].feedback[i] = feedback'[i]
        <4>1. configAt[q].feedback \in Seq(Given)
          BY <1>0, <3>1 DEF ConfigTypes, ConfigPlaces, ConfigsPart!Idle
        <4>2. Len(configAt[q].feedback) <= Len(feedback) /\ Len(configAt[q].feedback) \in Nat
          BY <1>0, <3>1, <4>1 DEF LockHeld
        <4>3. DOMAIN configAt[q].feedback \subseteq DOMAIN feedback
          BY <2>4, <4>1, <4>2
        <4>4. Len(feedback') \in Nat /\ Len(feedback) <= Len(feedback')
          <5>1. n \in Nat /\ Len(feedback) <= n
            BY ONLY <2>4
          <5> QED  BY ONLY <2>5, <2>6, <5>1
        <4>5. Len(configAt[q].feedback) <= Len(feedback')
          BY <2>4, <4>2, <4>4
        <4>6. \A i \in DOMAIN configAt[q].feedback : configAt[q].feedback[i] = feedback[i]
          BY <1>0, <3>1 DEF LockHeld
        <4>7. \A i \in DOMAIN feedback : feedback'[i] = feedback[i]
          BY <2>5, <2>6
        <4> QED  BY <4>3, <4>5, <4>6, <4>7
      <3> QED  BY <1>0, <2>2, <3>1 DEF LockHeld
    <2>10. ConfigsPart!OneActiveConfig'
      BY <1>0, <2>2 DEF ConfigsPart!OneActiveConfig, ConfigsPart!ActiveOf, ConfigsPart!Versions
    <2>11. ConfigsPart!FeedbackAppliedOnce'
      <3>1. feedback'[n].applied = 0
        BY <2>3, <2>5, <2>6
      <3>2. \A v \in ConfigsPart!Versions : n \notin configs[v].from
        BY <1>0, <2>7 DEF MadeOfGiven
      <3> QED  BY <1>0, <2>2, <2>5, <2>6, <2>7, <3>1, <3>2 DEF ConfigsPart!FeedbackAppliedOnce, ConfigsPart!Versions
    <2>12. MadeOfGiven'
      BY <1>0, <2>2, <2>7 DEF MadeOfGiven, ConfigsPart!Versions
    <2> QED  BY <2>8, <2>9, <2>10, <2>11, <2>12 DEF ConfigsInv
  <1>2. CASE ConfigsPart!ReadChanges \/ UNCHANGED configsVars
    <2>1. UNCHANGED <<configs, feedback, configAt>> /\ changes' \in BOOLEAN
      BY <1>0, <1>2 DEF ConfigsPart!ReadChanges, configsVars, ConfigTypes
    <2> QED  BY <1>0, <2>1 DEF ConfigsInv, ConfigTypes, LockHeld, MadeOfGiven, ConfigsPart!OneActiveConfig, ConfigsPart!FeedbackAppliedOnce, ConfigsPart!Versions
  <1>3. ASSUME NEW q \in Requests, NEW handler \in Handlers,
               ConfigsPart!Lock(q, handler), UNCHANGED <<configs, feedback, changes>>,
               handler # "activate" => Len(configs) < MaxVersion
        PROVE  ConfigsInv'
    <2> DEFINE place == [handler |-> handler, configs |-> configs, feedback |-> feedback]
    <2>1. configAt' = [configAt EXCEPT ![q] = place] /\ \A r \in Requests : configAt[r].handler = "none"
      BY <1>3 DEF ConfigsPart!Lock, ConfigsPart!Locked
    <2>2. place \in ConfigPlaces /\ place.handler = handler /\ place.configs = configs /\ place.feedback = feedback
      BY <1>0 DEF ConfigPlaces, ConfigTypes
    <2> HIDE DEF place
    <2>3. configAt' \in [Requests -> ConfigPlaces] /\ configAt'[q] = place /\ \A r \in Requests \ {q} : configAt'[r].handler = "none"
      BY <1>0, <2>1, <2>2 DEF ConfigTypes
    <2>4. ConfigTypes'
      BY <1>0, <1>3, <2>3 DEF ConfigTypes
    <2>5. LockHeld'
      BY <1>0, <1>3, <2>2, <2>3 DEF LockHeld, ConfigTypes
    <2> QED  BY <1>0, <1>3, <2>4, <2>5 DEF ConfigsInv, MadeOfGiven, ConfigsPart!OneActiveConfig, ConfigsPart!FeedbackAppliedOnce, ConfigsPart!Versions
  <1> QED  BY <1>1, <1>2, <1>3

\* What a handler sees under its lock.
LEMMA Seen ==
    ASSUME ConfigsInv, NEW q \in Requests, configAt[q].handler # "none"
    PROVE  /\ configAt[q].configs = configs /\ ConfigsPart!IsNext(q)
           /\ configAt[q].feedback \in Seq(Given) /\ DOMAIN configAt[q].feedback \subseteq DOMAIN feedback
           /\ \A i \in DOMAIN configAt[q].feedback : configAt[q].feedback[i] = feedback[i]
           /\ configAt[q].handler # "activate" => Len(configs) < MaxVersion
  <1>1. configAt[q].feedback \in Seq(Given) /\ feedback \in Seq(Given)
    BY DEF ConfigsInv, ConfigTypes, ConfigPlaces, ConfigsPart!Idle
  <1>2. Len(configAt[q].feedback) <= Len(feedback)
    BY DEF ConfigsInv, LockHeld
  <1>3. DOMAIN configAt[q].feedback \subseteq DOMAIN feedback
    BY <1>1, <1>2
  <1> QED  BY <1>1, <1>3 DEF ConfigsInv, LockHeld, ConfigsPart!IsNext

\* A handler that answers keeps the invariant if what it wrote does.
LEMMA Answered ==
    ASSUME ConfigsInv, NEW q \in Requests, configAt[q].handler # "none", ConfigsPart!Answer(q), changes' \in BOOLEAN,
           configs' \in Seq(Configs) /\ Len(configs') <= MaxVersion,
           feedback' \in Seq(Given) /\ Len(feedback') <= MaxFeedback,
           \A i \in DOMAIN feedback' : feedback'[i].applied <= Len(configs'),
           MadeOfGiven', ConfigsPart!OneActiveConfig', ConfigsPart!FeedbackAppliedOnce'
    PROVE  ConfigsInv'
  <1>1. configAt' \in [Requests -> ConfigPlaces] /\ \A r \in Requests : configAt'[r].handler = "none"
    BY Released DEF ConfigsInv
  <1> QED  BY <1>1 DEF ConfigsInv, ConfigTypes, LockHeld

\* The handlers.
LEMMA HandlerSteps ==
    ASSUME BoundsAssumption, ConfigsInv, NEW q \in Requests,
           ConfigsPart!Post(q) \/ ConfigsPart!ApplyChanges(q) \/ ConfigsPart!Draft(q) \/ ConfigsPart!Activate(q)
    PROVE  ConfigsInv'
  <1>0. /\ ConfigTypes /\ MadeOfGiven /\ ConfigsPart!OneActiveConfig /\ ConfigsPart!FeedbackAppliedOnce
        /\ MaxFeedback \in Nat /\ MaxVersion \in Nat
    BY DEF ConfigsInv, BoundsAssumption
  <1>1. configAt[q].handler # "none" /\ ConfigsPart!Answer(q)
    BY DEF ConfigsPart!Post, ConfigsPart!ApplyChanges, ConfigsPart!Draft, ConfigsPart!Activate
  <1>2. changes' \in BOOLEAN
    BY <1>0 DEF ConfigTypes, ConfigsPart!Post, ConfigsPart!ApplyChanges, ConfigsPart!Draft, ConfigsPart!Activate
  <1>3. CASE UNCHANGED <<configs, feedback>>
    <2>1. MadeOfGiven' /\ ConfigsPart!OneActiveConfig' /\ ConfigsPart!FeedbackAppliedOnce'
      BY <1>0, <1>3 DEF MadeOfGiven, ConfigsPart!OneActiveConfig, ConfigsPart!FeedbackAppliedOnce, ConfigsPart!Versions
    <2> QED  BY <1>0, <1>1, <1>2, <1>3, <2>1, Answered DEF ConfigTypes
  <1>4. CASE /\ configs' = Append(ConfigsPart!Deactivated(configs, configs), ConfigsPart!Version(TRUE, [f \in ConfigFields |-> 0], {}))
             /\ UNCHANGED feedback /\ Len(configs) < MaxVersion
    <2>1. /\ configs' \in Seq(Configs) /\ Len(configs') <= MaxVersion
          /\ MadeOfGiven' /\ ConfigsPart!OneActiveConfig' /\ ConfigsPart!FeedbackAppliedOnce'
      BY <1>0, <1>4, NewActiveVersion
    <2>2. Len(configs') = Len(configs) + 1
      <3> DEFINE new == ConfigsPart!Version(TRUE, [f \in ConfigFields |-> 0], {})
                 d == ConfigsPart!Deactivated(configs, configs)
      <3>1. d \in Seq(Configs) /\ Len(d) = Len(configs) /\ configs' = Append(d, new)
        BY <1>0, <1>4, Deactivation
      <3> HIDE DEF new, d
      <3> QED  BY <3>1
    <2>3. \A i \in DOMAIN feedback : feedback[i].applied <= Len(configs) /\ feedback[i].applied \in Nat
      <3>1. \A i \in DOMAIN feedback : feedback[i] \in Given
        BY <1>0 DEF ConfigTypes
      <3> QED  BY <1>0, <3>1 DEF ConfigTypes, Given
    <2>4. \A i \in DOMAIN feedback' : feedback'[i].applied <= Len(configs')
      <3>1. Len(configs) \in Nat
        BY <1>0 DEF ConfigTypes
      <3> QED  BY <1>4, <2>2, <2>3, <3>1
    <2> QED  BY <1>0, <1>1, <1>2, <1>4, <2>1, <2>4, Answered DEF ConfigTypes
  <1>5. ASSUME ConfigsPart!Post(q) \/ ConfigsPart!ApplyChanges(q)
        PROVE  ConfigsInv'
    <2>1. configAt[q].configs = configs /\ ConfigsPart!IsNext(q) /\ Len(configs) < MaxVersion
      BY <1>1, <1>5, Seen DEF ConfigsPart!Post, ConfigsPart!ApplyChanges
    <2> QED  BY <1>3, <1>4, <1>5, <2>1 DEF ConfigsPart!Post, ConfigsPart!ApplyChanges
  <1>6. ASSUME ConfigsPart!Activate(q)
        PROVE  ConfigsInv'
    <2>1. configAt[q].configs = configs
      BY <1>1, Seen
    <2>2. PICK v \in ConfigsPart!Versions : configs' = [ConfigsPart!Deactivated(configs, configs) EXCEPT ![v].active = TRUE]
      <3>1. DOMAIN configs = ConfigsPart!Versions
        BY <1>0 DEF ConfigTypes, ConfigsPart!Versions
      <3> QED  BY <1>6, <2>1, <3>1 DEF ConfigsPart!Activate
    <2>3. UNCHANGED feedback
      BY <1>6 DEF ConfigsPart!Activate
    <2>4. /\ configs' \in Seq(Configs) /\ Len(configs') = Len(configs)
          /\ MadeOfGiven' /\ ConfigsPart!OneActiveConfig' /\ ConfigsPart!FeedbackAppliedOnce'
      BY <2>2, <2>3, ActivatedVersion
    <2> QED  BY <1>0, <1>1, <1>2, <2>3, <2>4, Answered DEF ConfigTypes
  <1>7. ASSUME ConfigsPart!Draft(q), ~ UNCHANGED <<configs, feedback>>
        PROVE  ConfigsInv'
    <2> DEFINE usable == {i \in DOMAIN configAt[q].feedback : configAt[q].feedback[i].applied = 0 /\ ConfigsPart!Draftable(configAt[q].feedback[i])}
    <2>1. /\ configAt[q].configs = configs /\ Len(configs) < MaxVersion
          /\ DOMAIN configAt[q].feedback \subseteq DOMAIN feedback
          /\ \A i \in DOMAIN configAt[q].feedback : configAt[q].feedback[i] = feedback[i]
      BY <1>1, <1>7, Seen DEF ConfigsPart!Draft
    <2>2. PICK chosen \in SUBSET usable, v \in ConfigsPart!ActiveOf(configs) :
             /\ configs' = Append(configs, ConfigsPart!Version(FALSE, ConfigsPart!Updated(configs[v].content, chosen), chosen))
             /\ feedback' = [i \in DOMAIN feedback |->
                                IF i \in chosen THEN [feedback[i] EXCEPT !.applied = Len(configs) + 1]
                                ELSE feedback[i]]
      BY <1>7, <2>1 DEF ConfigsPart!Draft
    <2>3. /\ chosen \in SUBSET DOMAIN feedback
          /\ \A i \in chosen : feedback[i].applied = 0 /\ feedback[i].field \in ConfigFields
      BY <2>1 DEF ConfigsPart!Draftable
    <2>4. /\ configs' \in Seq(Configs) /\ Len(configs') = Len(configs) + 1
          /\ feedback' \in Seq(Given) /\ Len(feedback') = Len(feedback)
          /\ \A i \in DOMAIN feedback' : feedback'[i].applied <= Len(configs')
          /\ MadeOfGiven' /\ ConfigsPart!OneActiveConfig' /\ ConfigsPart!FeedbackAppliedOnce'
      BY <1>0, <2>1, <2>2, <2>3, NewDraft
    <2>5. Len(configs') <= MaxVersion /\ Len(feedback') <= MaxFeedback
      BY <1>0, <2>1, <2>4 DEF ConfigTypes
    <2> QED  BY <1>1, <1>2, <2>4, <2>5, Answered
  <1> QED  BY <1>3, <1>5, <1>6, <1>7

LEMMA ConfigsStep == BoundsAssumption /\ ConfigsInv /\ [ConfigsPart!Next]_configsVars => ConfigsInv'
  <1> SUFFICES ASSUME BoundsAssumption, ConfigsInv, [ConfigsPart!Next]_configsVars PROVE ConfigsInv'
    OBVIOUS
  <1>1. CASE \E q \in Requests : ConfigsPart!Post(q) \/ ConfigsPart!ApplyChanges(q) \/ ConfigsPart!Draft(q) \/ ConfigsPart!Activate(q)
    BY <1>1, HandlerSteps
  <1>2. CASE ~ \E q \in Requests : ConfigsPart!Post(q) \/ ConfigsPart!ApplyChanges(q) \/ ConfigsPart!Draft(q) \/ ConfigsPart!Activate(q)
    BY <1>2, ConfigsQuiet DEF ConfigsPart!Next, Handlers
  <1> QED  BY <1>1, <1>2

(***************************************************************************)
(* Sums.  Total(f, S) is the sum of f over the finite set S, which the     *)
(* modules write with MapThenSumSet.                                       *)
(***************************************************************************)

Total(f, S) ==
    LET iter[s \in SUBSET S] ==
          IF s = {} THEN 0 ELSE LET x == CHOOSE x \in s : TRUE IN f[x] + iter[s \ {x}]
    IN  iter[S]

One(s) == CHOOSE x \in s : TRUE

\* g has the sums of f over the sets of D.
Sums(f, D, g) == g = [s \in D |-> IF s = {} THEN 0 ELSE f[One(s)] + g[s \ {One(s)}]]

Least(T, n) == n \in T /\ \A m \in T : n <= m

LEMMA SmallestNumber == ASSUME NEW T \in SUBSET Nat, T # {}  PROVE \E n \in T : Least(T, n)
<1> DEFINE Before == {d \in Nat \X Nat : d[1] < d[2]}
<1>1. IsWellFoundedOn(Before, Nat)
  BY NatLessThanWellFounded DEF OpToRel
<1>2. PICK n \in T : \A m \in T : <<m, n>> \notin Before
  <2> HIDE DEF Before
  <2> QED  BY <1>1, WFMin
<1>3. ASSUME NEW m \in T  PROVE n <= m
  <2>1. n \in Nat /\ m \in Nat /\ ~(m < n)
    BY <1>2
  <2> QED  BY <2>1
<1> QED  BY <1>3 DEF Least

\* Of the sets of Bad, which are subsets of a finite set, one has no part in Bad.
LEMMA SmallestSet ==
  ASSUME NEW U, IsFiniteSet(U), NEW Bad \in SUBSET SUBSET U, Bad # {}
  PROVE  \E S \in Bad : IsFiniteSet(S) /\ \A x \in S : S \ {x} \notin Bad
<1>1. \A S \in Bad : IsFiniteSet(S) /\ Cardinality(S) \in Nat
  BY FS_Subset, FS_CardinalityType
<1> DEFINE T == {Cardinality(S) : S \in Bad}
<1>2. T \in SUBSET Nat /\ T # {}
  BY <1>1
<1> HIDE DEF T
<1>3. PICK n \in T : Least(T, n)
  BY <1>2, SmallestNumber
<1> USE DEF T
<1>4. PICK S \in Bad : Cardinality(S) = n
  BY <1>3
<1>5. ASSUME NEW x \in S, S \ {x} \in Bad  PROVE FALSE
  <2>1. Cardinality(S \ {x}) = n - 1
    BY <1>1, <1>4, FS_RemoveElement
  <2>2. n <= n - 1
    BY <1>3, <1>5, <2>1 DEF Least
  <2> QED  BY <1>1, <1>4, <2>2
<1> QED  BY <1>1, <1>4, <1>5

LEMMA OnePoint == \A s : s # {} => One(s) \in s
BY DEF One

\* There are such sums, of the sets of at most n elements, for every n.
LEMMA SumsExist ==
  ASSUME NEW f, NEW U, IsFiniteSet(U)
  PROVE  \E g : Sums(f, SUBSET U, g)
<1> DEFINE Level(n) == {s \in SUBSET U : Cardinality(s) <= n}
           Bad == {n \in Nat : ~\E g : Sums(f, Level(n), g)}
<1>0. \A s \in SUBSET U : IsFiniteSet(s) /\ Cardinality(s) \in Nat /\ (Cardinality(s) = 0 <=> s = {})
  BY FS_Subset, FS_CardinalityType, FS_EmptySet
<1>1. Bad = {}
  <2> SUFFICES ASSUME Bad # {}  PROVE FALSE
    OBVIOUS
  <2>1. Bad \in SUBSET Nat
    OBVIOUS
  <2> HIDE DEF Bad
  <2>2. PICK n \in Bad : Least(Bad, n)
    BY <2>1, SmallestNumber
  <2>3. n \in Nat
    BY <2>1
  <2>4. CASE n = 0
    <3>1. Level(0) = {{}}
      BY <1>0
    <3>2. PICK g : g = [s \in {{}} |-> 0]
      OBVIOUS
    <3>3. Sums(f, {{}}, g)
      BY <3>2 DEF Sums
    <3> HIDE DEF Level
    <3> QED  BY <2>2, <2>4, <3>1, <3>3 DEF Bad
  <2>5. CASE n # 0
    <3>1. PICK m \in Nat : n = m + 1
      BY <2>3, <2>5
    <3>2. m \notin Bad
      BY <2>2, <2>3, <3>1 DEF Least
    <3>3. PICK g : Sums(f, Level(m), g)
      BY <3>2 DEF Bad
    <3>4. PICK h : h = [s \in Level(n) |-> IF s = {} THEN 0 ELSE f[One(s)] + g[s \ {One(s)}]]
      OBVIOUS
    <3>5. Level(m) \subseteq Level(n)
      BY <1>0, <3>1
    <3>6. \A s \in Level(m) : h[s] = g[s]
      <4> HIDE DEF Level
      <4> QED  BY <3>3, <3>4, <3>5 DEF Sums
    <3>7. ASSUME NEW s \in Level(n), NEW x \in s  PROVE s \ {x} \in Level(m)
      <4>1. s \in SUBSET U /\ Cardinality(s \ {x}) = Cardinality(s) - 1
        BY <1>0, FS_RemoveElement
      <4> QED  BY <1>0, <3>1, <4>1
    <3> HIDE DEF Level
    <3>8. \A s \in Level(n) : s # {} => h[s \ {One(s)}] = g[s \ {One(s)}]
      BY <3>6, <3>7, OnePoint
    <3>9. h = [s \in Level(n) |-> IF s = {} THEN 0 ELSE f[One(s)] + h[s \ {One(s)}]]
      BY <3>4, <3>8
    <3> QED  BY <2>2, <2>3, <3>9 DEF Bad, Sums
  <2> QED  BY <2>4, <2>5
<1>2. Cardinality(U) \in Nat
  BY FS_CardinalityType
<1>3. Level(Cardinality(U)) = SUBSET U
  BY FS_Subset
<1>4. \E g : Sums(f, Level(Cardinality(U)), g)
  <2> HIDE DEF Level
  <2> QED  BY <1>1, <1>2
<1> QED  BY <1>3, <1>4

\* Two of them agree.
LEMMA SumsAgree ==
  ASSUME NEW f, NEW S, IsFiniteSet(S), NEW D, D = SUBSET S, NEW E, D \subseteq E,
         NEW g, Sums(f, D, g), NEW h, Sums(f, E, h)
  PROVE  \A s \in D : g[s] = h[s]
<1> DEFINE Bad == {s \in D : g[s] # h[s]}
<1> SUFFICES ASSUME Bad # {}  PROVE FALSE
  OBVIOUS
<1>0. Bad \in SUBSET SUBSET S
  OBVIOUS
<1> HIDE DEF Bad
<1>1. PICK s \in Bad : \A x \in s : s \ {x} \notin Bad
  BY <1>0, SmallestSet
<1>2. s \in D /\ s \in E /\ g[s] # h[s]
  BY <1>1 DEF Bad
<1>3. CASE s = {}
  BY <1>2, <1>3 DEF Sums
<1>4. CASE s # {}
  <2>1. PICK x \in s : x = One(s)
    BY <1>4, OnePoint
  <2>2. s \ {x} \in D
    BY <1>2
  <2>3. g[s \ {x}] = h[s \ {x}]
    BY <1>1, <2>1, <2>2 DEF Bad
  <2>4. g[s] = f[x] + g[s \ {x}] /\ h[s] = f[x] + h[s \ {x}]
    BY <1>2, <1>4, <2>1 DEF Sums
  <2> QED  BY <1>2, <2>3, <2>4
<1> QED  BY <1>3, <1>4

LEMMA TotalIsSum ==
  ASSUME NEW f, NEW S, IsFiniteSet(S)
  PROVE  \E g : Sums(f, SUBSET S, g) /\ Total(f, S) = g[S]
<1>1. \E g : Sums(f, SUBSET S, g)
  BY SumsExist
<1> QED  BY <1>1 DEF Sums, Total, One

LEMMA TotalOfNone == ASSUME NEW f  PROVE Total(f, {}) = 0
<1>1. PICK g : Sums(f, SUBSET {}, g) /\ Total(f, {}) = g[{}]
  BY TotalIsSum, FS_EmptySet
<1> QED  BY <1>1 DEF Sums

\* One element is added to the sum of the others.
LEMMA TotalBegins ==
  ASSUME NEW f, NEW S, IsFiniteSet(S), S # {}
  PROVE  \E x \in S : Total(f, S) = f[x] + Total(f, S \ {x})
<1>1. PICK g : Sums(f, SUBSET S, g) /\ Total(f, S) = g[S]
  BY TotalIsSum
<1>2. PICK x \in S : x = One(S)
  BY OnePoint
<1>3. PICK T : T = S \ {x}
  OBVIOUS
<1>4. IsFiniteSet(T) /\ T \in SUBSET S
  BY <1>3, FS_Subset
<1>5. PICK h : Sums(f, SUBSET T, h) /\ Total(f, T) = h[T]
  BY <1>4, TotalIsSum
<1>7. h[T] = g[T]
  <2>1. PICK D, E : D = SUBSET T /\ E = SUBSET S
    OBVIOUS
  <2>2. D \subseteq E /\ T \in D
    BY <1>4, <2>1
  <2>3. Sums(f, D, h) /\ Sums(f, E, g)
    BY <1>1, <1>5, <2>1
  <2> QED  BY <1>4, <2>1, <2>2, <2>3, SumsAgree
<1>6. g[S] = f[x] + g[S \ {x}]
  BY <1>1, <1>2 DEF Sums
<1> QED  BY <1>1, <1>3, <1>5, <1>6, <1>7

LEMMA TotalIsNumber ==
  ASSUME NEW f, NEW U, IsFiniteSet(U), \A x \in U : f[x] \in Nat
  PROVE  Total(f, U) \in Nat
<1> DEFINE Bad == {s \in SUBSET U : Total(f, s) \notin Nat}
<1> SUFFICES ASSUME Bad # {}  PROVE FALSE
  OBVIOUS
<1>0. Bad \in SUBSET SUBSET U
  OBVIOUS
<1> HIDE DEF Bad
<1>1. PICK s \in Bad : IsFiniteSet(s) /\ \A x \in s : s \ {x} \notin Bad
  BY <1>0, SmallestSet
<1>2. s \in SUBSET U /\ Total(f, s) \notin Nat
  BY <1>1 DEF Bad
<1>3. s # {}
  BY <1>2, TotalOfNone
<1>4. PICK x \in s : Total(f, s) = f[x] + Total(f, s \ {x})
  BY <1>1, <1>3, TotalBegins
<1>5. Total(f, s \ {x}) \in Nat /\ f[x] \in Nat
  BY <1>1, <1>2 DEF Bad
<1> QED  BY <1>2, <1>4, <1>5

\* It does not matter which.
LEMMA TotalOfRest ==
  ASSUME NEW f, NEW U, IsFiniteSet(U), \A x \in U : f[x] \in Nat, NEW y \in U
  PROVE  Total(f, U) = f[y] + Total(f, U \ {y})
<1> DEFINE Bad == {s \in SUBSET U : \E z \in s : Total(f, s) # f[z] + Total(f, s \ {z})}
<1> SUFFICES ASSUME Bad # {}  PROVE FALSE
  OBVIOUS
<1>0. Bad \in SUBSET SUBSET U
  OBVIOUS
<1> HIDE DEF Bad
<1>1. PICK s \in Bad : IsFiniteSet(s) /\ \A x \in s : s \ {x} \notin Bad
  BY <1>0, SmallestSet
<1>2. PICK z \in s : Total(f, s) # f[z] + Total(f, s \ {z})
  BY <1>1 DEF Bad
<1>3. s \in SUBSET U
  BY <1>1 DEF Bad
<1>4. PICK x \in s : Total(f, s) = f[x] + Total(f, s \ {x})
  BY <1>1, <1>2, TotalBegins
<1>5. x # z
  BY <1>2, <1>4
<1>6. Total(f, s \ {x}) = f[z] + Total(f, (s \ {x}) \ {z})
  BY <1>1, <1>3, <1>5 DEF Bad
<1>7. Total(f, s \ {z}) = f[x] + Total(f, (s \ {z}) \ {x})
  BY <1>1, <1>3, <1>5 DEF Bad
<1>8. (s \ {x}) \ {z} = (s \ {z}) \ {x}
  OBVIOUS
<1>9. PICK rest : rest = (s \ {x}) \ {z}
  OBVIOUS
<1>10. rest \subseteq s
  BY <1>9
<1>11. IsFiniteSet(rest) /\ \A v \in rest : f[v] \in Nat
  BY <1>1, <1>3, <1>10, FS_Subset
<1>12. Total(f, rest) \in Nat
  BY <1>11, TotalIsNumber
<1>13. f[x] \in Nat /\ f[z] \in Nat
  BY <1>3
<1>14. PICK n \in Nat : n = Total(f, rest)
  BY <1>12
<1>15. Total(f, s \ {x}) = f[z] + n /\ Total(f, s \ {z}) = f[x] + n
  BY <1>6, <1>7, <1>8, <1>9, <1>14
<1>16. Total(f, s) = f[x] + (f[z] + n)
  BY <1>4, <1>15
<1>17. Total(f, s) = f[z] + (f[x] + n)
  BY <1>13, <1>16
<1> QED  BY <1>2, <1>15, <1>17

\* A sum of fewer and smaller numbers is no larger.
LEMMA TotalGrows ==
  ASSUME NEW f, NEW h, NEW T, IsFiniteSet(T), NEW S, S \subseteq T,
         \A x \in T : h[x] \in Nat, \A x \in S : f[x] \in Nat /\ f[x] <= h[x]
  PROVE  Total(f, S) <= Total(h, T)
<1> DEFINE Bad == {t \in SUBSET T : ~(Total(f, S \intersect t) <= Total(h, t))}
<1> SUFFICES ASSUME Bad # {}  PROVE FALSE
  <2>1. T \notin Bad /\ S \intersect T = S
    OBVIOUS
  <2> QED  BY <2>1
<1>0. Bad \in SUBSET SUBSET T
  OBVIOUS
<1> HIDE DEF Bad
<1>1. PICK t \in Bad : IsFiniteSet(t) /\ \A x \in t : t \ {x} \notin Bad
  BY <1>0, SmallestSet
<1>2. t \in SUBSET T /\ ~(Total(f, S \intersect t) <= Total(h, t))
  BY <1>1 DEF Bad
<1>3. t # {}
  <2>1. t = {} => S \intersect t = {}
    OBVIOUS
  <2> QED  BY <1>2, <2>1, TotalOfNone
<1>4. PICK x \in t : TRUE
  BY <1>3
<1>5. Total(f, S \intersect (t \ {x})) <= Total(h, t \ {x})
  BY <1>1, <1>2 DEF Bad
<1>6. /\ IsFiniteSet(S \intersect t) /\ IsFiniteSet(S \intersect (t \ {x})) /\ IsFiniteSet(t \ {x})
      /\ \A v \in t : h[v] \in Nat
      /\ \A v \in S \intersect t : f[v] \in Nat
  BY <1>1, <1>2, FS_Subset
<1>7. Total(h, t) = h[x] + Total(h, t \ {x})
  BY <1>1, <1>6, TotalOfRest
<1>8. Total(h, t \ {x}) \in Nat /\ Total(f, S \intersect (t \ {x})) \in Nat /\ h[x] \in Nat
  BY <1>6, TotalIsNumber
<1>9. CASE x \in S
  <2>1. Total(f, S \intersect t) = f[x] + Total(f, (S \intersect t) \ {x})
    BY <1>6, <1>9, TotalOfRest
  <2>2. (S \intersect t) \ {x} = S \intersect (t \ {x})
    OBVIOUS
  <2>3. f[x] \in Nat /\ f[x] <= h[x]
    BY <1>9
  <2> QED  BY <1>2, <1>5, <1>7, <1>8, <2>1, <2>2, <2>3
<1>10. CASE x \notin S
  <2>1. S \intersect t = S \intersect (t \ {x})
    BY <1>10
  <2>2. Total(f, S \intersect t) <= Total(h, t \ {x}) /\ Total(f, S \intersect t) \in Nat
    BY <1>5, <1>8, <2>1
  <2> QED  BY <1>2, <1>7, <1>8, <2>2
<1> QED  BY <1>9, <1>10

\* Only one number changes, or comes in: all others are the same, or go.
LEMMA TotalChanges ==
  ASSUME NEW f, NEW h, NEW S, NEW T, IsFiniteSet(S), IsFiniteSet(T), NEW y \in T,
         T \ {y} \subseteq S, \A x \in S : f[x] \in Nat, \A x \in T : h[x] \in Nat,
         \A x \in T \ {y} : h[x] <= f[x]
  PROVE  Total(h, T) <= h[y] + Total(f, S \ {y})
<1>1. Total(h, T) = h[y] + Total(h, T \ {y})
  BY TotalOfRest
<1>2. IsFiniteSet(S \ {y}) /\ IsFiniteSet(T \ {y}) /\ T \ {y} \subseteq S \ {y}
  BY FS_Subset
<1>3. Total(h, T \ {y}) <= Total(f, S \ {y})
  BY <1>2, TotalGrows
<1>4. Total(h, T \ {y}) \in Nat /\ Total(f, S \ {y}) \in Nat
  BY <1>2, TotalIsNumber
<1> QED  BY <1>1, <1>3, <1>4

\* One number of a sum is another.
LEMMA TotalUpdated ==
  ASSUME NEW f, NEW h, NEW S, IsFiniteSet(S), \A x \in S : f[x] \in Nat /\ h[x] \in Nat,
         NEW y, \A x \in S \ {y} : h[x] = f[x]
  PROVE  /\ y \in S => Total(h, S) + f[y] = Total(f, S) + h[y]
         /\ y \notin S => Total(h, S) = Total(f, S)
<1>1. ASSUME NEW R \in SUBSET S, \A x \in R : h[x] = f[x]  PROVE Total(h, R) = Total(f, R)
  <2>1. IsFiniteSet(R) /\ \A x \in R : f[x] \in Nat /\ h[x] \in Nat /\ h[x] <= f[x] /\ f[x] <= h[x]
    BY <1>1, FS_Subset
  <2>2. Total(h, R) <= Total(f, R) /\ Total(f, R) <= Total(h, R)
    BY <2>1, TotalGrows
  <2>3. Total(h, R) \in Nat /\ Total(f, R) \in Nat
    BY <2>1, TotalIsNumber
  <2> QED  BY <2>2, <2>3
<1>2. ASSUME y \in S  PROVE Total(h, S) + f[y] = Total(f, S) + h[y]
  <2>1. Total(h, S) = h[y] + Total(h, S \ {y}) /\ Total(f, S) = f[y] + Total(f, S \ {y})
    BY <1>2, TotalOfRest
  <2>2. Total(h, S \ {y}) = Total(f, S \ {y})
    BY <1>1
  <2>3. IsFiniteSet(S \ {y}) /\ \A x \in S \ {y} : f[x] \in Nat
    BY FS_Subset
  <2>4. Total(f, S \ {y}) \in Nat /\ f[y] \in Nat /\ h[y] \in Nat
    BY <1>2, <2>3, TotalIsNumber
  <2> QED  BY <2>1, <2>2, <2>4
<1>3. y \notin S => Total(h, S) = Total(f, S)
  BY <1>1
<1> QED  BY <1>2, <1>3

\* Zeros have the sum zero.
LEMMA TotalOfZeros ==
  ASSUME NEW f, NEW U, IsFiniteSet(U), \A x \in U : f[x] = 0
  PROVE  Total(f, U) = 0
<1> DEFINE Bad == {s \in SUBSET U : Total(f, s) # 0}
<1> SUFFICES ASSUME Bad # {}  PROVE FALSE
  OBVIOUS
<1>0. Bad \in SUBSET SUBSET U
  OBVIOUS
<1> HIDE DEF Bad
<1>1. PICK s \in Bad : IsFiniteSet(s) /\ \A x \in s : s \ {x} \notin Bad
  BY <1>0, SmallestSet
<1>2. s \in SUBSET U /\ Total(f, s) # 0
  BY <1>1 DEF Bad
<1>3. s # {}
  BY <1>2, TotalOfNone
<1>4. PICK x \in s : Total(f, s) = f[x] + Total(f, s \ {x})
  BY <1>1, <1>3, TotalBegins
<1>5. Total(f, s \ {x}) = 0 /\ f[x] = 0
  BY <1>1, <1>2 DEF Bad
<1> QED  BY <1>2, <1>4, <1>5

(***************************************************************************)
(* The storage limits.                                                     *)
(***************************************************************************)

StoredFiles == Manuscripts \union Attachments
UploadSizes == FileSizes \union {0}
UploadPlaces == [at : {"idle"}]
                \union [at : {"loaded", "guarded"}, kind : {"create", "edit", "version", "attachment"},
                        file : StoredFiles, incoming : UploadSizes, replacing : UploadSizes]

KeptOf(g, owners) == {f \in StoredFiles : Owner[f] \in owners /\ ~g[f]}
UsageOf(b, e, g, owners) == Total(b, KeptOf(g, owners)) + Total(e, QuotaPart!Versioned(owners))

Stored ==
    /\ bytes \in [StoredFiles -> UploadSizes] /\ earlier \in [Manuscripts -> Nat]
    /\ gone \in [StoredFiles -> BOOLEAN] /\ sent \in [Attachments -> BOOLEAN]
    /\ changed \subseteq Attachments

\* What a request has read of what it will write.
Uploading(w) ==
    /\ w.kind = "attachment" => w.file \in Attachments
    /\ w.kind # "attachment" => w.file \in Manuscripts
    /\ w.kind \in {"create", "version"} => w.replacing = 0
UploadsOK ==
    /\ quotaAt = [q \in Requests |-> quotaAt[q]]
    /\ \A q \in Requests : quotaAt[q] \in UploadPlaces /\ (quotaAt[q].at # "idle" => Uploading(quotaAt[q]))

\* The request that holds the guard has been found to fit, and still does.
Room(b, e, g, w) ==
    /\ UsageOf(b, e, g, Owners) + QuotaPart!NetNew(w) <= TotalLimit
    /\ UsageOf(b, e, g, {Owner[w.file]}) + QuotaPart!NetNew(w) <= AuthorLimit
OneHolds ==
    \A q \in Requests : quotaAt[q].at = "guarded" =>
        /\ Room(bytes, earlier, gone, quotaAt[q])
        /\ \A r \in Requests : quotaAt[r].at = "guarded" => r = q

PassedBy(b, e, g) ==
    /\ \E size \in UploadSizes : UsageOf(b, e, g, Owners) <= TotalLimit + size
    /\ \A a \in Owners : \E size \in UploadSizes : UsageOf(b, e, g, {a}) <= AuthorLimit + size

QuotaInv == Stored /\ UploadsOK /\ OneHolds /\ PassedBy(bytes, earlier, gone)

LEMMA UsageIs == \A owners : QuotaPart!Usage(owners) = UsageOf(bytes, earlier, gone, owners)
<1>1. \A owners : QuotaPart!Kept(owners) = KeptOf(gone, owners)
  BY DEF QuotaPart!Kept, KeptOf, QuotaPart!Files, StoredFiles
<1> QED  BY <1>1, Zenon DEF QuotaPart!Usage, QuotaPart!MapThenSumSet, QuotaPart!MapThenFoldSet, Total, UsageOf

LEMMA StoredNumbers ==
  ASSUME BoundsAssumption, Stored
  PROVE  /\ \A owners : IsFiniteSet(KeptOf(gone, owners)) /\ IsFiniteSet(QuotaPart!Versioned(owners))
         /\ \A owners : KeptOf(gone, owners) \subseteq StoredFiles /\ QuotaPart!Versioned(owners) \subseteq Manuscripts
         /\ \A f \in StoredFiles : bytes[f] \in Nat /\ bytes[f] \in UploadSizes
         /\ \A m \in Manuscripts : earlier[m] \in Nat /\ m \in StoredFiles
         /\ \A owners : Total(bytes, KeptOf(gone, owners)) \in Nat
         /\ \A owners : Total(earlier, QuotaPart!Versioned(owners)) \in Nat
         /\ \A owners : UsageOf(bytes, earlier, gone, owners) \in Nat
<1>1. IsFiniteSet(StoredFiles) /\ UploadSizes \subseteq Nat
  BY DEF BoundsAssumption, StoredFiles, UploadSizes
<1>2. \A owners : KeptOf(gone, owners) \subseteq StoredFiles /\ QuotaPart!Versioned(owners) \subseteq Manuscripts
  BY DEF KeptOf, QuotaPart!Versioned
<1>3. \A m \in Manuscripts : m \in StoredFiles
  BY DEF StoredFiles
<1>4. \A owners : IsFiniteSet(KeptOf(gone, owners)) /\ IsFiniteSet(QuotaPart!Versioned(owners))
  <2>1. \A owners : QuotaPart!Versioned(owners) \subseteq StoredFiles
    BY <1>2, <1>3
  <2> QED  BY <1>1, <1>2, <2>1, FS_Subset
<1>5. \A f \in StoredFiles : bytes[f] \in Nat /\ bytes[f] \in UploadSizes
  BY <1>1 DEF Stored
<1>6. \A m \in Manuscripts : earlier[m] \in Nat
  BY DEF Stored
<1>7. \A owners : Total(bytes, KeptOf(gone, owners)) \in Nat
  <2> TAKE owners
  <2> QED  BY <1>2, <1>4, <1>5, TotalIsNumber
<1>8. \A owners : Total(earlier, QuotaPart!Versioned(owners)) \in Nat
  <2> TAKE owners
  <2> QED  BY <1>2, <1>4, <1>6, TotalIsNumber
<1>9. \A owners : UsageOf(bytes, earlier, gone, owners) \in Nat
  BY <1>7, <1>8 DEF UsageOf
<1> QED  BY <1>2, <1>3, <1>4, <1>5, <1>6, <1>7, <1>8, <1>9

LEMMA NetNewIs ==
  ASSUME BoundsAssumption, NEW w \in UploadPlaces, w.at # "idle"
  PROVE  QuotaPart!NetNew(w) \in Nat /\ w.incoming <= QuotaPart!NetNew(w) + w.replacing
<1>1. w.incoming \in UploadSizes /\ w.replacing \in UploadSizes /\ UploadSizes \subseteq Nat
  BY DEF UploadPlaces, BoundsAssumption, UploadSizes
<1>2. PICK i, r \in Nat : i = w.incoming /\ r = w.replacing
  BY <1>1
<1>3. QuotaPart!NetNew(w) = IF i > r THEN i - r ELSE 0
  BY <1>2 DEF QuotaPart!NetNew
<1>4. CASE i > r
  <2>1. i - r \in Nat /\ i <= (i - r) + r
    BY <1>4
  <2> QED  BY <1>2, <1>3, <1>4, <2>1
<1>5. CASE ~(i > r)
  <2>1. i <= 0 + r
    BY <1>5
  <2> QED  BY <1>2, <1>3, <1>5, <2>1
<1> QED  BY <1>4, <1>5

\* A purge frees bytes.
LEMMA UsageShrinks ==
  ASSUME BoundsAssumption, Stored, Stored',
         \A f \in StoredFiles : bytes'[f] <= bytes[f] /\ (gone[f] => gone'[f]),
         \A m \in Manuscripts : earlier'[m] <= earlier[m]
  PROVE  \A owners : UsageOf(bytes', earlier', gone', owners) <= UsageOf(bytes, earlier, gone, owners)
<1> TAKE owners
<1>1. KeptOf(gone', owners) \subseteq KeptOf(gone, owners)
  BY DEF KeptOf
<1>2. KeptOf(gone', owners) \subseteq StoredFiles
  BY DEF KeptOf
<1>3. \A f \in StoredFiles : bytes'[f] \in Nat
  <2>1. UploadSizes \subseteq Nat
    BY DEF BoundsAssumption, UploadSizes
  <2> QED  BY <2>1 DEF Stored
<1>4. \A m \in Manuscripts : earlier'[m] \in Nat
  BY DEF Stored
<1>5. Total(bytes', KeptOf(gone', owners)) <= Total(bytes, KeptOf(gone, owners))
  BY <1>1, <1>2, <1>3, StoredNumbers, TotalGrows
<1>6. Total(earlier', QuotaPart!Versioned(owners)) <= Total(earlier, QuotaPart!Versioned(owners))
  BY <1>4, StoredNumbers, TotalGrows
<1>7. Total(bytes', KeptOf(gone', owners)) \in Nat /\ Total(earlier', QuotaPart!Versioned(owners)) \in Nat
  <2>1. IsFiniteSet(KeptOf(gone', owners)) /\ IsFiniteSet(QuotaPart!Versioned(owners))
    BY <1>1, StoredNumbers, FS_Subset
  <2> QED  BY <1>2, <1>3, <1>4, <2>1, StoredNumbers, TotalIsNumber
<1> QED  BY <1>5, <1>6, <1>7, StoredNumbers DEF UsageOf

\* What an upload that was found to fit adds to the files of its owner.
LEMMA UsageWritten ==
  ASSUME BoundsAssumption, Stored, NEW w \in UploadPlaces, w.at # "idle", Uploading(w), gone' = gone,
         bytes' = [bytes EXCEPT ![w.file] = w.incoming],
         w.kind # "version" => earlier' = earlier,
         w.kind = "version" => earlier' = [earlier EXCEPT ![w.file] = @ + bytes[w.file]]
  PROVE  /\ bytes' \in [StoredFiles -> UploadSizes] /\ earlier' \in [Manuscripts -> Nat]
         /\ \A owners :
               /\ Owner[w.file] \notin owners =>
                     UsageOf(bytes', earlier', gone', owners) = UsageOf(bytes, earlier, gone, owners)
               /\ \A limit \in Nat :
                     UsageOf(bytes, earlier, gone, owners) + QuotaPart!NetNew(w) <= limit =>
                        \E size \in UploadSizes : UsageOf(bytes', earlier', gone', owners) <= limit + size
<1>1. /\ w.file \in StoredFiles /\ w.incoming \in UploadSizes /\ w.replacing \in UploadSizes
      /\ w.incoming \in Nat /\ w.replacing \in Nat
  <2>1. UploadSizes \subseteq Nat
    BY DEF BoundsAssumption, UploadSizes
  <2> QED  BY <2>1 DEF UploadPlaces
<1>2. w.kind = "version" => w.file \in Manuscripts /\ w.replacing = 0
  BY DEF Uploading
<1>3. /\ bytes' \in [StoredFiles -> UploadSizes] /\ bytes'[w.file] = w.incoming
      /\ \A f \in StoredFiles \ {w.file} : bytes'[f] = bytes[f]
  BY <1>1 DEF Stored
<1>4. \A f \in StoredFiles : bytes'[f] \in Nat
  BY <1>1, <1>3, StoredNumbers
<1>5. /\ earlier' \in [Manuscripts -> Nat]
      /\ \A m \in Manuscripts : m # w.file \/ w.kind # "version" => earlier'[m] = earlier[m]
      /\ w.kind = "version" => earlier'[w.file] = earlier[w.file] + bytes[w.file]
  BY <1>1, <1>2, StoredNumbers DEF Stored
<1>6. \A owners :
         /\ w.file \in KeptOf(gone, owners) =>
               Total(bytes', KeptOf(gone, owners)) + bytes[w.file] = Total(bytes, KeptOf(gone, owners)) + w.incoming
         /\ w.file \notin KeptOf(gone, owners) =>
               Total(bytes', KeptOf(gone, owners)) = Total(bytes, KeptOf(gone, owners))
  <2> TAKE owners
  <2>1. /\ IsFiniteSet(KeptOf(gone, owners)) /\ KeptOf(gone, owners) \subseteq StoredFiles
        /\ \A f \in KeptOf(gone, owners) : bytes[f] \in Nat /\ bytes'[f] \in Nat
    BY <1>4, StoredNumbers
  <2>2. \A f \in KeptOf(gone, owners) \ {w.file} : bytes'[f] = bytes[f]
    BY <1>3, <2>1
  <2>3. /\ w.file \in KeptOf(gone, owners) =>
              Total(bytes', KeptOf(gone, owners)) + bytes[w.file]
                 = Total(bytes, KeptOf(gone, owners)) + bytes'[w.file]
        /\ w.file \notin KeptOf(gone, owners) =>
              Total(bytes', KeptOf(gone, owners)) = Total(bytes, KeptOf(gone, owners))
    <3>1. PICK f, K : f = w.file /\ K = KeptOf(gone, owners)
      OBVIOUS
    <3>2. /\ f \in K => Total(bytes', K) + bytes[f] = Total(bytes, K) + bytes'[f]
          /\ f \notin K => Total(bytes', K) = Total(bytes, K)
      <4>1. IsFiniteSet(K) /\ (\A x \in K : bytes[x] \in Nat /\ bytes'[x] \in Nat) /\ \A x \in K \ {f} : bytes'[x] = bytes[x]
        BY <2>1, <2>2, <3>1
      <4> QED  BY ONLY <4>1, TotalUpdated
    <3> QED  BY <3>1, <3>2
  <2> QED  BY <1>3, <2>3
<1>7. \A owners :
         /\ w.kind = "version" /\ Owner[w.file] \in owners =>
               Total(earlier', QuotaPart!Versioned(owners)) = Total(earlier, QuotaPart!Versioned(owners)) + bytes[w.file]
         /\ ~(w.kind = "version" /\ Owner[w.file] \in owners) =>
               Total(earlier', QuotaPart!Versioned(owners)) = Total(earlier, QuotaPart!Versioned(owners))
  <2> TAKE owners
  <2>1. /\ IsFiniteSet(QuotaPart!Versioned(owners)) /\ QuotaPart!Versioned(owners) \subseteq Manuscripts
        /\ \A m \in QuotaPart!Versioned(owners) : earlier[m] \in Nat /\ earlier'[m] \in Nat
    BY <1>5, StoredNumbers
  <2>2. CASE w.kind = "version" /\ Owner[w.file] \in owners
    <3>1. w.file \in QuotaPart!Versioned(owners)
      BY <1>2, <2>2 DEF QuotaPart!Versioned
    <3>2. \A m \in QuotaPart!Versioned(owners) \ {w.file} : earlier'[m] = earlier[m]
      BY <1>5, <2>1
    <3>3. Total(earlier', QuotaPart!Versioned(owners)) + earlier[w.file]
             = Total(earlier, QuotaPart!Versioned(owners)) + earlier'[w.file]
      BY <2>1, <3>1, <3>2, TotalUpdated
    <3>4. Total(earlier', QuotaPart!Versioned(owners)) \in Nat /\ Total(earlier, QuotaPart!Versioned(owners)) \in Nat
      BY <2>1, TotalIsNumber
    <3>5. bytes[w.file] \in Nat /\ earlier[w.file] \in Nat /\ earlier'[w.file] = earlier[w.file] + bytes[w.file]
      BY <1>1, <1>2, <1>5, <2>2, StoredNumbers
    <3> QED  BY <2>2, <3>3, <3>4, <3>5
  <2>3. CASE ~(w.kind = "version" /\ Owner[w.file] \in owners)
    <3>1. CASE w.kind = "version"
      <4>1. w.file \notin QuotaPart!Versioned(owners)
        BY <2>3, <3>1 DEF QuotaPart!Versioned
      <4>2. \A m \in QuotaPart!Versioned(owners) \ {w.file} : earlier'[m] = earlier[m]
        BY <1>5, <2>1
      <4> QED  BY <2>1, <2>3, <4>1, <4>2, TotalUpdated
    <3>2. CASE w.kind # "version"
      BY <2>3, <3>2
    <3> QED  BY <3>1, <3>2
  <2> QED  BY <2>2, <2>3
<1>8. ASSUME NEW owners, Owner[w.file] \notin owners
      PROVE  UsageOf(bytes', earlier', gone', owners) = UsageOf(bytes, earlier, gone, owners)
  <2>1. w.file \notin KeptOf(gone, owners)
    BY <1>8 DEF KeptOf
  <2> QED  BY <1>6, <1>7, <1>8, <2>1 DEF UsageOf
<1>9. ASSUME NEW owners, NEW limit \in Nat,
             UsageOf(bytes, earlier, gone, owners) + QuotaPart!NetNew(w) <= limit
      PROVE  \E size \in UploadSizes : UsageOf(bytes', earlier', gone', owners) <= limit + size
  <2>1. PICK files, versions \in Nat : /\ files = Total(bytes, KeptOf(gone, owners))
                                       /\ versions = Total(earlier, QuotaPart!Versioned(owners))
    BY StoredNumbers
  <2>2. PICK net \in Nat : net = QuotaPart!NetNew(w) /\ w.incoming <= net + w.replacing
    BY NetNewIs
  <2>3. files + versions + net <= limit
    BY <1>9, <2>1, <2>2 DEF UsageOf
  <2>4. PICK b \in Nat : b = bytes[w.file] /\ b \in UploadSizes
    BY <1>1, StoredNumbers
  <2>5. PICK files1, versions1 \in Nat : /\ files1 = Total(bytes', KeptOf(gone, owners))
                                         /\ versions1 = Total(earlier', QuotaPart!Versioned(owners))
    <3>1. \A f \in KeptOf(gone, owners) : bytes'[f] \in Nat
      BY <1>4, StoredNumbers
    <3>2. \A m \in QuotaPart!Versioned(owners) : earlier'[m] \in Nat
      BY <1>5, StoredNumbers
    <3> QED  BY <3>1, <3>2, StoredNumbers, TotalIsNumber
  <2>6. UsageOf(bytes', earlier', gone', owners) = files1 + versions1
    BY <2>5 DEF UsageOf
  <2>7. 0 \in UploadSizes
    BY DEF UploadSizes
  <2>8. CASE w.kind # "version"
    <3>1. versions1 = versions
      BY <1>7, <2>1, <2>5, <2>8
    <3>2. files1 + b = files + w.incoming \/ files1 = files
      BY <1>6, <2>1, <2>4, <2>5
    <3>3. files1 + versions1 <= limit + w.replacing
      BY <1>1, <2>2, <2>3, <3>1, <3>2
    <3> QED  BY <1>1, <2>6, <3>3
  <2>9. CASE w.kind = "version"
    <3>1. w.replacing = 0
      BY <1>2, <2>9
    <3>2. CASE w.file \in KeptOf(gone, owners)
      <4>1. Owner[w.file] \in owners
        BY <3>2 DEF KeptOf
      <4>2. files1 + b = files + w.incoming /\ versions1 = versions + b
        BY <1>6, <1>7, <2>1, <2>4, <2>5, <2>9, <3>2, <4>1
      <4>3. files1 + versions1 <= limit + 0
        BY <1>1, <2>2, <2>3, <3>1, <4>2
      <4> QED  BY <2>6, <2>7, <4>3
    <3>3. CASE w.file \notin KeptOf(gone, owners)
      <4>1. files1 = files /\ (versions1 = versions + b \/ versions1 = versions)
        BY <1>6, <1>7, <2>1, <2>4, <2>5, <3>3
      <4>2. files1 + versions1 <= limit + b
        BY <2>3, <4>1
      <4> QED  BY <2>4, <2>6, <4>2
    <3> QED  BY <3>2, <3>3
  <2> QED  BY <2>8, <2>9
<1> QED  BY <1>3, <1>5, <1>8, <1>9

\* The same, for a number of the next state.
LEMMA UsageIsNumber ==
  ASSUME BoundsAssumption, NEW b \in [StoredFiles -> UploadSizes], NEW e \in [Manuscripts -> Nat], NEW g
  PROVE  \A owners : UsageOf(b, e, g, owners) \in Nat
<1> TAKE owners
<1>1. IsFiniteSet(StoredFiles) /\ UploadSizes \subseteq Nat
  BY DEF BoundsAssumption, StoredFiles, UploadSizes
<1>2. KeptOf(g, owners) \subseteq StoredFiles /\ QuotaPart!Versioned(owners) \subseteq Manuscripts
  BY DEF KeptOf, QuotaPart!Versioned
<1>3. Manuscripts \subseteq StoredFiles
  BY DEF StoredFiles
<1>4. IsFiniteSet(KeptOf(g, owners)) /\ IsFiniteSet(QuotaPart!Versioned(owners))
  BY <1>1, <1>2, <1>3, FS_Subset
<1>5. \A f \in KeptOf(g, owners) : b[f] \in Nat
  BY <1>1, <1>2
<1>6. Total(b, KeptOf(g, owners)) \in Nat
  BY <1>4, <1>5, TotalIsNumber
<1>7. Total(e, QuotaPart!Versioned(owners)) \in Nat
  BY <1>2, <1>4, TotalIsNumber
<1> QED  BY <1>6, <1>7 DEF UsageOf

LEMMA QuotaTypes == QuotaInv => QuotaPart!TypeOK
<1> SUFFICES ASSUME QuotaInv  PROVE QuotaPart!TypeOK
  OBVIOUS
<1>1. \A q \in Requests : quotaAt[q].at \in {"idle", "loaded", "guarded"}
  BY DEF QuotaInv, UploadsOK, UploadPlaces
<1> QED  BY <1>1 DEF QuotaInv, Stored, StoredFiles, UploadSizes, QuotaPart!TypeOK, QuotaPart!Files

LEMMA QuotaPassed == QuotaInv => QuotaPart!PassedByAtMostAFile
BY UsageIs DEF QuotaInv, PassedBy, UploadSizes, QuotaPart!PassedByAtMostAFile

LEMMA QuotaInit == BoundsAssumption /\ QuotaPart!Init => QuotaInv
<1> SUFFICES ASSUME BoundsAssumption, QuotaPart!Init  PROVE QuotaInv
  OBVIOUS
<1>1. /\ bytes = [f \in StoredFiles |-> 0] /\ earlier = [m \in Manuscripts |-> 0]
      /\ gone = [f \in StoredFiles |-> FALSE] /\ sent = [f \in Attachments |-> FALSE] /\ changed = {}
      /\ quotaAt = [q \in Requests |-> QuotaPart!Idle]
  BY DEF QuotaPart!Init, StoredFiles, QuotaPart!Files
<1>2. Stored
  BY <1>1 DEF Stored, UploadSizes
<1>3. UploadsOK /\ OneHolds
  BY <1>1 DEF UploadsOK, OneHolds, UploadPlaces, QuotaPart!Idle
<1>4. ASSUME NEW owners  PROVE UsageOf(bytes, earlier, gone, owners) = 0
  <2>1. \A f \in KeptOf(gone, owners) : bytes[f] = 0
    BY <1>1, <1>2, StoredNumbers
  <2>2. \A m \in QuotaPart!Versioned(owners) : earlier[m] = 0
    BY <1>1, <1>2, StoredNumbers
  <2>3. Total(bytes, KeptOf(gone, owners)) = 0 /\ Total(earlier, QuotaPart!Versioned(owners)) = 0
    BY <1>2, <2>1, <2>2, StoredNumbers, TotalOfZeros
  <2> QED  BY <2>3 DEF UsageOf
<1>5. PassedBy(bytes, earlier, gone)
  BY <1>4 DEF PassedBy, UploadSizes, BoundsAssumption
<1> QED  BY <1>2, <1>3, <1>5 DEF QuotaInv

\* A step that stores nothing leaves room for the one that holds the guard.
LEMMA NothingStored ==
  ASSUME BoundsAssumption, QuotaInv, Stored',
         \A f \in StoredFiles : bytes'[f] <= bytes[f] /\ (gone[f] => gone'[f]),
         \A m \in Manuscripts : earlier'[m] <= earlier[m]
  PROVE  /\ PassedBy(bytes', earlier', gone')
         /\ \A w \in UploadPlaces : w.at # "idle" /\ Room(bytes, earlier, gone, w) => Room(bytes', earlier', gone', w)
<1>1. Stored /\ PassedBy(bytes, earlier, gone)
  BY DEF QuotaInv
<1>2. \A owners : UsageOf(bytes', earlier', gone', owners) <= UsageOf(bytes, earlier, gone, owners)
  BY <1>1, UsageShrinks
<1>3. \A owners : UsageOf(bytes, earlier, gone, owners) \in Nat /\ UsageOf(bytes', earlier', gone', owners) \in Nat
  BY <1>1, UsageIsNumber DEF Stored
<1>4. UploadSizes \subseteq Nat /\ TotalLimit \in Nat /\ AuthorLimit \in Nat
  BY DEF BoundsAssumption, UploadSizes
<1>5. \A owners, size, limit : 
         size \in UploadSizes /\ limit \in Nat /\ UsageOf(bytes, earlier, gone, owners) <= limit + size =>
            UsageOf(bytes', earlier', gone', owners) <= limit + size
  BY <1>2, <1>3, <1>4
<1>6. PassedBy(bytes', earlier', gone')
  BY <1>1, <1>4, <1>5 DEF PassedBy
<1>7. ASSUME NEW w \in UploadPlaces, w.at # "idle", Room(bytes, earlier, gone, w)
      PROVE  Room(bytes', earlier', gone', w)
  <2>1. PICK net \in Nat : net = QuotaPart!NetNew(w)
    BY <1>7, NetNewIs
  <2> QED  BY <1>2, <1>3, <1>4, <1>7, <2>1 DEF Room
<1> QED  BY <1>6, <1>7

\* What a request writes under the guard.
LEMMA UploadWritten ==
  ASSUME BoundsAssumption, QuotaInv, NEW q \in Requests, quotaAt[q].at = "guarded",
         QuotaPart!Goto(q, QuotaPart!Idle), Stored', gone' = gone,
         \/ UNCHANGED <<bytes, earlier>>
         \/ /\ bytes' = [bytes EXCEPT ![quotaAt[q].file] = quotaAt[q].incoming]
            /\ quotaAt[q].kind # "version" => earlier' = earlier
            /\ quotaAt[q].kind = "version" =>
                  earlier' = [earlier EXCEPT ![quotaAt[q].file] = @ + bytes[quotaAt[q].file]]
  PROVE  QuotaInv'
<1>0. Stored /\ UploadsOK /\ OneHolds /\ PassedBy(bytes, earlier, gone)
  BY DEF QuotaInv
<1>1. PICK w \in UploadPlaces : w = quotaAt[q]
  BY <1>0 DEF UploadsOK
<1>2. w.at # "idle" /\ Uploading(w) /\ Room(bytes, earlier, gone, w)
  BY <1>0, <1>1 DEF UploadsOK, OneHolds
<1>3. UploadsOK' /\ OneHolds'
  <2>1. quotaAt' = [quotaAt EXCEPT ![q] = QuotaPart!Idle]
    BY DEF QuotaPart!Goto
  <2>2. QuotaPart!Idle \in UploadPlaces /\ QuotaPart!Idle.at = "idle"
    BY DEF QuotaPart!Idle, UploadPlaces
  <2>3. \A r \in Requests : quotaAt'[r] = IF r = q THEN QuotaPart!Idle ELSE quotaAt[r]
    BY <1>0, <2>1 DEF UploadsOK
  <2>4. UploadsOK'
    BY <1>0, <2>1, <2>2, <2>3 DEF UploadsOK
  <2>5. \A r \in Requests : quotaAt'[r].at # "guarded"
    BY <1>0, <2>2, <2>3 DEF OneHolds
  <2> QED  BY <2>4, <2>5 DEF OneHolds
<1>4. PassedBy(bytes', earlier', gone')
  <2>1. CASE UNCHANGED <<bytes, earlier>>
    BY <1>0, <2>1
  <2>2. CASE ~ UNCHANGED <<bytes, earlier>>
    <3>1. /\ bytes' = [bytes EXCEPT ![w.file] = w.incoming]
          /\ w.kind # "version" => earlier' = earlier
          /\ w.kind = "version" => earlier' = [earlier EXCEPT ![w.file] = @ + bytes[w.file]]
      BY <1>1, <2>2
    <3>2. TotalLimit \in Nat /\ AuthorLimit \in Nat
      BY DEF BoundsAssumption
    <3>3. \A owners :
             /\ Owner[w.file] \notin owners =>
                   UsageOf(bytes', earlier', gone', owners) = UsageOf(bytes, earlier, gone, owners)
             /\ \A limit \in Nat :
                   UsageOf(bytes, earlier, gone, owners) + QuotaPart!NetNew(w) <= limit =>
                      \E size \in UploadSizes : UsageOf(bytes', earlier', gone', owners) <= limit + size
      BY <1>0, <1>2, <3>1, UsageWritten
    <3>4. \E size \in UploadSizes : UsageOf(bytes', earlier', gone', Owners) <= TotalLimit + size
      BY <1>2, <3>2, <3>3 DEF Room
    <3>5. ASSUME NEW a \in Owners
          PROVE  \E size \in UploadSizes : UsageOf(bytes', earlier', gone', {a}) <= AuthorLimit + size
      <4>1. CASE a = Owner[w.file]
        BY <1>2, <3>2, <3>3, <4>1 DEF Room
      <4>2. CASE a # Owner[w.file]
        <5>1. UsageOf(bytes', earlier', gone', {a}) = UsageOf(bytes, earlier, gone, {a})
          BY <3>3, <4>2
        <5> QED  BY <1>0, <5>1 DEF PassedBy
      <4> QED  BY <4>1, <4>2
    <3> QED  BY <3>4, <3>5 DEF PassedBy
  <2> QED  BY <2>1, <2>2
<1> QED  BY <1>3, <1>4 DEF QuotaInv

\* A request that starts, that enters the guard or that is refused.
LEMMA UploadGoesOn ==
  ASSUME BoundsAssumption, QuotaInv, NEW q \in Requests, NEW w \in UploadPlaces,
         w.at # "idle" => Uploading(w),
         w.at = "guarded" => /\ Room(bytes, earlier, gone, w)
                             /\ \A r \in Requests : quotaAt[r].at # "guarded",
         QuotaPart!Goto(q, w), UNCHANGED <<bytes, earlier, gone, sent, changed>>
  PROVE  QuotaInv'
<1>0. Stored /\ UploadsOK /\ OneHolds /\ PassedBy(bytes, earlier, gone)
  BY DEF QuotaInv
<1>1. Stored' /\ PassedBy(bytes', earlier', gone')
  BY <1>0 DEF Stored
<1>2. quotaAt' = [quotaAt EXCEPT ![q] = w] /\ \A r \in Requests : quotaAt'[r] = IF r = q THEN w ELSE quotaAt[r]
  BY <1>0 DEF QuotaPart!Goto, UploadsOK
<1>3. UploadsOK'
  BY <1>0, <1>2 DEF UploadsOK
<1>4. OneHolds'
  BY <1>0, <1>2 DEF OneHolds
<1> QED  BY <1>1, <1>3, <1>4 DEF QuotaInv

LEMMA QuotaStep ==
  ASSUME BoundsAssumption, QuotaInv, [QuotaPart!Next]_quotaVars
  PROVE  QuotaInv'
<1>0. /\ Stored /\ UploadsOK /\ OneHolds /\ PassedBy(bytes, earlier, gone)
      /\ \A q \in Requests : quotaAt[q] \in UploadPlaces /\ (quotaAt[q].at # "idle" => Uploading(quotaAt[q]))
  BY DEF QuotaInv, UploadsOK
<1>1. QuotaPart!Files = StoredFiles /\ 0 \in UploadSizes /\ FileSizes \subseteq UploadSizes
  BY DEF QuotaPart!Files, StoredFiles, UploadSizes
<1>2. \A f \in StoredFiles : bytes[f] \in UploadSizes /\ bytes[f] \in Nat
  BY <1>0, StoredNumbers
<1>3. CASE QuotaPart!Load
  <2>1. UNCHANGED <<bytes, earlier, gone, sent, changed>>
    BY <1>3 DEF QuotaPart!Load
  <2>2. \E q \in Requests, kind \in {"create", "edit", "version", "attachment"}, f \in StoredFiles,
          incoming \in UploadSizes, replacing \in UploadSizes :
           /\ QuotaPart!Goto(q, QuotaPart!Loaded(kind, f, incoming, replacing))
           /\ kind = "attachment" => f \in Attachments
           /\ kind # "attachment" => f \in Manuscripts
           /\ kind \in {"create", "version"} => replacing = 0
    <3>1. Manuscripts \subseteq StoredFiles /\ Attachments \subseteq StoredFiles
      BY DEF StoredFiles
    <3>2. CASE \E q \in Requests, m \in Manuscripts, size \in FileSizes :
                  QuotaPart!LoadCreate(q, m, size) \/ QuotaPart!LoadEdit(q, m, size) \/ QuotaPart!LoadVersion(q, m, size)
      BY <1>1, <1>2, <3>1, <3>2, Zenon DEF QuotaPart!LoadCreate, QuotaPart!LoadEdit, QuotaPart!LoadVersion
    <3>3. CASE \E q \in Requests, f \in Attachments, size \in FileSizes \union {0} : QuotaPart!LoadAttachment(q, f, size)
      BY <1>2, <3>1, <3>3, Zenon DEF QuotaPart!LoadAttachment, UploadSizes
    <3> QED  BY <1>3, <3>2, <3>3 DEF QuotaPart!Load
  <2>3. PICK q \in Requests, kind \in {"create", "edit", "version", "attachment"}, f \in StoredFiles,
          incoming \in UploadSizes, replacing \in UploadSizes :
           /\ QuotaPart!Goto(q, QuotaPart!Loaded(kind, f, incoming, replacing))
           /\ kind = "attachment" => f \in Attachments
           /\ kind # "attachment" => f \in Manuscripts
           /\ kind \in {"create", "version"} => replacing = 0
    BY <2>2
  <2>4. PICK w : w = QuotaPart!Loaded(kind, f, incoming, replacing)
    OBVIOUS
  <2>5. w \in UploadPlaces /\ w.at = "loaded" /\ Uploading(w)
    BY <2>3, <2>4 DEF QuotaPart!Loaded, UploadPlaces, Uploading
  <2> QED  BY <2>1, <2>3, <2>4, <2>5, UploadGoesOn
<1>4. ASSUME NEW q \in Requests, QuotaPart!EnterGuard(q)  PROVE QuotaInv'
  <2>1. PICK w \in UploadPlaces : w = quotaAt[q]
    BY <1>0
  <2>2. w.at = "loaded" /\ Uploading(w)
    BY <1>0, <1>4, <2>1 DEF QuotaPart!EnterGuard
  <2>3. CASE QuotaPart!Goto(q, QuotaPart!Idle)
    <3>1. QuotaPart!Idle \in UploadPlaces /\ QuotaPart!Idle.at = "idle"
      BY DEF QuotaPart!Idle, UploadPlaces
    <3> QED  BY <1>4, <2>3, <3>1, UploadGoesOn DEF QuotaPart!EnterGuard
  <2>4. CASE ~ QuotaPart!Goto(q, QuotaPart!Idle)
    <3>1. PICK v : v = [w EXCEPT !.at = "guarded"]
      OBVIOUS
    <3>2. /\ v \in UploadPlaces /\ v.at = "guarded" /\ v.kind = w.kind /\ v.file = w.file
          /\ v.incoming = w.incoming /\ v.replacing = w.replacing
      BY <2>2, <3>1 DEF UploadPlaces
    <3>3. Uploading(v) /\ QuotaPart!NetNew(v) = QuotaPart!NetNew(w)
      BY <2>2, <3>2 DEF Uploading, QuotaPart!NetNew
    <3>4. Room(bytes, earlier, gone, w) /\ QuotaPart!Goto(q, v)
      BY <1>4, <2>1, <2>4, <3>1, UsageIs DEF QuotaPart!EnterGuard, QuotaPart!Fits, Room
    <3>5. Room(bytes, earlier, gone, v)
      BY <3>2, <3>3, <3>4 DEF Room
    <3>6. \A r \in Requests : quotaAt[r].at # "guarded"
      BY <1>4 DEF QuotaPart!EnterGuard, QuotaPart!Guarded
    <3> QED  BY <1>4, <3>2, <3>3, <3>4, <3>5, <3>6, UploadGoesOn DEF QuotaPart!EnterGuard
  <2> QED  BY <2>3, <2>4
<1>5. ASSUME NEW q \in Requests, QuotaPart!Refuse(q)  PROVE QuotaInv'
  <2>1. QuotaPart!Idle \in UploadPlaces /\ QuotaPart!Idle.at = "idle"
    BY DEF QuotaPart!Idle, UploadPlaces
  <2> QED  BY <1>5, <2>1, UploadGoesOn DEF QuotaPart!Refuse
<1>6. ASSUME NEW q \in Requests,
             \/ QuotaPart!WriteCreate(q) \/ QuotaPart!WriteEdit(q)
             \/ QuotaPart!WriteVersion(q) \/ QuotaPart!WriteAttachment(q)
      PROVE  QuotaInv'
  <2>1. /\ quotaAt[q].at = "guarded" /\ QuotaPart!Goto(q, QuotaPart!Idle) /\ gone' = gone /\ sent' = sent
    BY <1>6 DEF QuotaPart!WriteCreate, QuotaPart!WriteEdit, QuotaPart!WriteVersion, QuotaPart!WriteAttachment
  <2>2. \/ UNCHANGED <<bytes, earlier>>
        \/ /\ bytes' = [bytes EXCEPT ![quotaAt[q].file] = quotaAt[q].incoming]
           /\ quotaAt[q].kind # "version" => earlier' = earlier
           /\ quotaAt[q].kind = "version" =>
                 earlier' = [earlier EXCEPT ![quotaAt[q].file] = @ + bytes[quotaAt[q].file]]
    BY <1>6 DEF QuotaPart!WriteCreate, QuotaPart!WriteEdit, QuotaPart!WriteVersion, QuotaPart!WriteAttachment
  <2>3. changed' \subseteq Attachments
    <3>1. changed \subseteq Attachments /\ (quotaAt[q].kind = "attachment" => quotaAt[q].file \in Attachments)
      BY <1>0, <2>1 DEF Stored, Uploading
    <3> QED  BY <1>6, <3>1 DEF QuotaPart!WriteCreate, QuotaPart!WriteEdit, QuotaPart!WriteVersion, QuotaPart!WriteAttachment
  <2>4. bytes' \in [StoredFiles -> UploadSizes] /\ earlier' \in [Manuscripts -> Nat]
    <3>1. CASE UNCHANGED <<bytes, earlier>>
      BY <1>0, <3>1 DEF Stored
    <3>2. CASE ~ UNCHANGED <<bytes, earlier>>
      <4>1. PICK w \in UploadPlaces : w = quotaAt[q]
        BY <1>0
      <4>2. w.at # "idle" /\ Uploading(w)
        BY <1>0, <2>1, <4>1
      <4>3. /\ bytes' = [bytes EXCEPT ![w.file] = w.incoming]
            /\ w.kind # "version" => earlier' = earlier
            /\ w.kind = "version" => earlier' = [earlier EXCEPT ![w.file] = @ + bytes[w.file]]
        BY <2>2, <3>2, <4>1
      <4> QED  BY <1>0, <2>1, <4>2, <4>3, UsageWritten
    <3> QED  BY <3>1, <3>2
  <2>5. Stored'
    BY <1>0, <2>1, <2>3, <2>4 DEF Stored
  <2> QED  BY <2>1, <2>2, <2>5, UploadWritten
<1>7. ASSUME \/ \E f \in Attachments : QuotaPart!Submit(f) \/ QuotaPart!PurgeAttachment(f)
             \/ \E m \in Manuscripts : QuotaPart!PurgeEarlier(m) \/ QuotaPart!PurgeManuscript(m)
             \/ UNCHANGED quotaVars
      PROVE  QuotaInv'
  <2>1. quotaAt' = quotaAt /\ changed' = changed
    BY <1>7 DEF QuotaPart!Submit, QuotaPart!PurgeAttachment, QuotaPart!PurgeEarlier, QuotaPart!PurgeManuscript,
                quotaVars
  <2>2. /\ bytes' = bytes \/ \E f \in StoredFiles : bytes' = [bytes EXCEPT ![f] = 0]
        /\ earlier' = earlier \/ \E m \in Manuscripts : earlier' = [earlier EXCEPT ![m] = 0]
        /\ gone' = gone \/ \E f \in StoredFiles : gone' = [gone EXCEPT ![f] = TRUE]
        /\ sent' = sent \/ \E f \in Attachments : sent' = [sent EXCEPT ![f] = TRUE]
    <3>1. Manuscripts \subseteq StoredFiles /\ Attachments \subseteq StoredFiles
      BY DEF StoredFiles
    <3> QED  BY <1>7, <3>1, Zenon DEF QuotaPart!Submit, QuotaPart!PurgeAttachment, QuotaPart!PurgeEarlier,
                QuotaPart!PurgeManuscript, quotaVars
  <2>3. Stored' /\ (\A f \in StoredFiles : bytes'[f] <= bytes[f] /\ (gone[f] => gone'[f]))
        /\ \A m \in Manuscripts : earlier'[m] <= earlier[m]
    <3>1. bytes' \in [StoredFiles -> UploadSizes] /\ \A f \in StoredFiles : bytes'[f] <= bytes[f]
      BY <1>0, <1>1, <1>2, <2>2 DEF Stored
    <3>2. gone' \in [StoredFiles -> BOOLEAN] /\ \A f \in StoredFiles : gone[f] => gone'[f]
      BY <1>0, <2>2 DEF Stored
    <3>3. earlier' \in [Manuscripts -> Nat] /\ \A m \in Manuscripts : earlier'[m] <= earlier[m]
      BY <1>0, <2>2 DEF Stored
    <3>4. sent' \in [Attachments -> BOOLEAN]
      BY <1>0, <2>2 DEF Stored
    <3> QED  BY <1>0, <2>1, <3>1, <3>2, <3>3, <3>4 DEF Stored
  <2>4. /\ PassedBy(bytes', earlier', gone')
        /\ \A w \in UploadPlaces : w.at # "idle" /\ Room(bytes, earlier, gone, w) => Room(bytes', earlier', gone', w)
    BY <2>3, NothingStored
  <2>5. UploadsOK'
    BY <1>0, <2>1 DEF UploadsOK
  <2>6. OneHolds'
    BY <1>0, <2>1, <2>4 DEF OneHolds
  <2> QED  BY <2>3, <2>4, <2>5, <2>6 DEF QuotaInv
<1> QED  BY <1>3, <1>4, <1>5, <1>6, <1>7 DEF QuotaPart!Next

(***************************************************************************)
(* The ceilings of the spend.                                              *)
(***************************************************************************)

\* A day of the month of a later day is not before the month of the earlier one.
LEMMA MonthBegins ==
  ASSUME BoundsAssumption, NEW asked \in Nat \ {0}, NEW on \in Nat \ {0}, asked <= on,
         NEW d \in Nat \ {0}, BudgetPart!Month(d) = BudgetPart!Month(on)
  PROVE  BudgetPart!FirstOfMonth(asked) <= d
<1>1. PICK n \in Nat \ {0} : n = DaysInMonth
  BY DEF BoundsAssumption
<1>2. PICK x, y, z \in Nat : asked = x + 1 /\ on = y + 1 /\ d = z + 1 /\ x <= y
  <2>1. asked - 1 \in Nat /\ on - 1 \in Nat /\ d - 1 \in Nat /\ asked - 1 <= on - 1
    OBVIOUS
  <2> QED  BY <2>1
<1>3. PICK k \in Nat : k = x \div n /\ k * n <= x
  OBVIOUS
<1>4. CASE x <= z
  <2>1. k * n + 1 <= d
    BY <1>2, <1>3, <1>4
  <2> QED  BY <1>1, <1>2, <1>3, <2>1 DEF BudgetPart!FirstOfMonth, BudgetPart!Month
<1>5. CASE z < x
  <2>1. PICK i \in Nat : i = z \div n /\ i * n <= z
    OBVIOUS
  <2>2. PICK j \in Nat : j = y \div n
    OBVIOUS
  <2>3. i <= k /\ k <= j
    BY <1>2, <1>3, <1>5, <2>1, <2>2
  <2>4. d - 1 = z /\ on - 1 = y /\ asked - 1 = x
    BY <1>2
  <2>5. i = j
    BY <1>1, <2>1, <2>2, <2>4 DEF BudgetPart!Month
  <2>6. k = i
    BY <2>3, <2>5
  <2>7. k * n + 1 <= d
    BY <1>2, <2>1, <2>6
  <2> QED  BY <1>1, <1>3, <2>4, <2>7 DEF BudgetPart!FirstOfMonth, BudgetPart!Month
<1> QED  BY <1>2, <1>4, <1>5

Calls == 1..MaxCalls
BudgetDays == 1..LastBudgetDay
CallPlaces == [at : {"idle"}]
              \union [at : {"ask"}, day : BudgetDays, expired : SUBSET Calls, most : 1..MaxCost]
              \union [at : {"call"}, event : Calls]

\* What counts, of the calls of the days of S.
CountedOf(s, d, x, S) == {e \in Calls : d[e] \in S /\ (s[e] = "completed" \/ (s[e] = "reserved" /\ e \notin x))}
SpendOf(s, d, c, x, S) == Total(c, CountedOf(s, d, x, S))

MonthDays(m) == {d \in BudgetDays : BudgetPart!Month(d) = m}
UnderCeilingsOf(s, d, c, x) ==
    /\ DayLimit > 0 => \A t \in BudgetDays : SpendOf(s, d, c, x, {t}) <= DayLimit
    /\ MonthLimit > 0 => \A t \in BudgetDays : SpendOf(s, d, c, x, MonthDays(BudgetPart!Month(t))) <= MonthLimit

Recorded ==
    /\ budgetDay \in BudgetDays
    /\ status \in [Calls -> {"none", "reserved", "blocked", "completed", "failed"}]
    /\ day \in [Calls -> 0..LastBudgetDay] /\ cost \in [Calls -> 0..MaxCost]
    /\ expired \subseteq Calls /\ billed \in [Calls -> 0..MaxCost]
    /\ \A e \in Calls : status[e] = "none" => e \notin expired /\ billed[e] = 0

\* A call that is under way holds its reservation, for itself; what a request asks
\* with was so when it read it.
CallersOK ==
    /\ caller = [c \in Callers |-> caller[c]]
    /\ \A c \in Callers :
          /\ caller[c] \in CallPlaces
          /\ caller[c].at = "ask" => caller[c].day <= budgetDay /\ caller[c].expired \subseteq expired
          /\ caller[c].at = "call" =>
                /\ status[caller[c].event] = "reserved" /\ caller[c].event \notin expired
                /\ billed[caller[c].event] <= cost[caller[c].event]
                /\ \A b \in Callers : caller[b].at = "call" /\ caller[b].event = caller[c].event => b = c

BudgetInv == Recorded /\ CallersOK /\ UnderCeilingsOf(status, day, cost, expired)

LEMMA BudgetTypes == BudgetInv => BudgetPart!TypeOK
<1> SUFFICES ASSUME BudgetInv  PROVE BudgetPart!TypeOK
  OBVIOUS
<1>1. \A c \in Callers : caller[c].at \in {"idle", "ask", "call"}
  BY DEF BudgetInv, CallersOK, CallPlaces
<1> QED  BY <1>1 DEF BudgetInv, Recorded, Calls, BudgetDays, BudgetPart!TypeOK, BudgetPart!Events, BudgetPart!Days

LEMMA SpendIs ==
  /\ \A S : BudgetPart!CostOn(S) = SpendOf(status, day, cost, expired, S)
  /\ Recorded => \A from, stale :
        BudgetPart!CommittedCost(from, stale)
           = SpendOf(status, day, cost, stale, {d \in 0..LastBudgetDay : d >= from})
<1>1. ASSUME NEW S  PROVE BudgetPart!CostOn(S) = SpendOf(status, day, cost, expired, S)
  <2>1. {e \in BudgetPart!Events : day[e] \in S /\ BudgetPart!Counted(e)} = CountedOf(status, day, expired, S)
    BY DEF BudgetPart!Events, BudgetPart!Counted, CountedOf, Calls
  <2> QED  BY <2>1, Zenon DEF BudgetPart!CostOn, BudgetPart!MapThenSumSet, BudgetPart!MapThenFoldSet, Total, SpendOf
<1>2. ASSUME NEW from, NEW stale, Recorded
      PROVE  BudgetPart!CommittedCost(from, stale)
                = SpendOf(status, day, cost, stale, {d \in 0..LastBudgetDay : d >= from})
  <2>1. {e \in BudgetPart!Events : /\ day[e] >= from
                                   /\ \/ status[e] = "completed"
                                      \/ status[e] = "reserved" /\ e \notin stale}
           = CountedOf(status, day, stale, {d \in 0..LastBudgetDay : d >= from})
    BY <1>2 DEF BudgetPart!Events, CountedOf, Calls, Recorded
  <2> QED  BY <2>1, Zenon DEF BudgetPart!CommittedCost, BudgetPart!MapThenSumSet, BudgetPart!MapThenFoldSet, Total, SpendOf
<1> QED  BY <1>1, <1>2

LEMMA BudgetUnderCeilings == BudgetInv => BudgetPart!UnderCeilings
<1> SUFFICES ASSUME BudgetInv  PROVE BudgetPart!UnderCeilings
  OBVIOUS
<1>1. \A S : BudgetPart!CostOn(S) = SpendOf(status, day, cost, expired, S)
  BY SpendIs
<1>2. BudgetPart!Days = BudgetDays /\ \A m : {d \in BudgetPart!Days : BudgetPart!Month(d) = m} = MonthDays(m)
  BY DEF BudgetPart!Days, BudgetDays, MonthDays
<1>3. UnderCeilingsOf(status, day, cost, expired)
  BY DEF BudgetInv
<1> QED  BY <1>1, <1>2, <1>3, Zenon DEF BudgetPart!UnderCeilings, UnderCeilingsOf

LEMMA SpendNumbers ==
  ASSUME BoundsAssumption, NEW s, NEW d, NEW c \in [Calls -> 0..MaxCost], NEW x, NEW S
  PROVE  /\ IsFiniteSet(CountedOf(s, d, x, S)) /\ CountedOf(s, d, x, S) \subseteq Calls
         /\ \A e \in Calls : c[e] \in Nat
         /\ SpendOf(s, d, c, x, S) \in Nat
<1>1. IsFiniteSet(Calls) /\ MaxCost \in Nat
  BY FS_Interval DEF Calls, BoundsAssumption
<1>2. CountedOf(s, d, x, S) \subseteq Calls
  BY DEF CountedOf
<1>3. IsFiniteSet(CountedOf(s, d, x, S))
  BY <1>1, <1>2, FS_Subset
<1>4. \A e \in Calls : c[e] \in Nat
  BY <1>1
<1> QED  BY <1>2, <1>3, <1>4, TotalIsNumber DEF SpendOf

\* What adds to no counted call keeps the spend under the ceilings.
LEMMA NothingSpent ==
  ASSUME BoundsAssumption, BudgetInv, Recorded',
         \A e \in Calls : /\ status'[e] = "completed" \/ (status'[e] = "reserved" /\ e \notin expired') =>
                                /\ status[e] = "completed" \/ (status[e] = "reserved" /\ e \notin expired)
                                /\ day'[e] = day[e]
                                /\ cost'[e] <= cost[e]
  PROVE  UnderCeilingsOf(status', day', cost', expired')
<1>1. cost \in [Calls -> 0..MaxCost] /\ cost' \in [Calls -> 0..MaxCost]
  BY DEF BudgetInv, Recorded
<1>2. ASSUME NEW S
      PROVE  /\ SpendOf(status', day', cost', expired', S) <= SpendOf(status, day, cost, expired, S)
             /\ SpendOf(status', day', cost', expired', S) \in Nat
             /\ SpendOf(status, day, cost, expired, S) \in Nat
  <2>1. CountedOf(status', day', expired', S) \subseteq CountedOf(status, day, expired, S)
    BY DEF CountedOf
  <2>2. \A e \in CountedOf(status', day', expired', S) : cost'[e] \in Nat /\ cost'[e] <= cost[e]
    <3>1. \A e \in CountedOf(status', day', expired', S) : e \in Calls /\ cost'[e] <= cost[e]
      BY DEF CountedOf
    <3> QED  BY <1>1, <3>1, SpendNumbers
  <2>3. IsFiniteSet(CountedOf(status, day, expired, S)) /\ \A e \in CountedOf(status, day, expired, S) : cost[e] \in Nat
    BY <1>1, SpendNumbers
  <2>4. Total(cost', CountedOf(status', day', expired', S)) <= Total(cost, CountedOf(status, day, expired, S))
    BY <2>1, <2>2, <2>3, TotalGrows
  <2> QED  BY <1>1, <2>4, SpendNumbers DEF SpendOf
<1>3. DayLimit \in Nat /\ MonthLimit \in Nat
  BY DEF BoundsAssumption
<1>4. UnderCeilingsOf(status, day, cost, expired)
  BY DEF BudgetInv
<1>5. \A S, limit : limit \in Nat /\ SpendOf(status, day, cost, expired, S) <= limit =>
         SpendOf(status', day', cost', expired', S) <= limit
  BY <1>2
<1> QED  BY <1>3, <1>4, <1>5 DEF UnderCeilingsOf

\* A call is reserved that fits into what the ceilings leave.
LEMMA CallReserved ==
  ASSUME BoundsAssumption, BudgetInv, NEW e \in Calls, NEW w \in CallPlaces, w.at = "ask",
         w.day <= budgetDay, w.expired \subseteq expired,
         status[e] = "none", expired' = expired,
         day' = [day EXCEPT ![e] = budgetDay], status' = [status EXCEPT ![e] = "reserved"],
         cost' = [cost EXCEPT ![e] = w.most],
         ~BudgetPart!Exceeds(DayLimit, w.day, w.expired, w.most),
         ~BudgetPart!Exceeds(MonthLimit, BudgetPart!FirstOfMonth(w.day), w.expired, w.most)
  PROVE  UnderCeilingsOf(status', day', cost', expired')
<1>0. /\ cost \in [Calls -> 0..MaxCost] /\ day \in [Calls -> 0..LastBudgetDay] /\ budgetDay \in BudgetDays
      /\ status \in [Calls -> {"none", "reserved", "blocked", "completed", "failed"}] /\ Recorded
      /\ UnderCeilingsOf(status, day, cost, expired)
  BY DEF BudgetInv, Recorded
<1>1. w.day \in BudgetDays /\ w.most \in 1..MaxCost /\ MaxCost \in Nat /\ DayLimit \in Nat /\ MonthLimit \in Nat
  BY DEF CallPlaces, BoundsAssumption
<1>2. /\ cost' \in [Calls -> 0..MaxCost] /\ cost'[e] = w.most /\ day'[e] = budgetDay
      /\ \A f \in Calls \ {e} : cost'[f] = cost[f] /\ day'[f] = day[f] /\ status'[f] = status[f]
  BY <1>0, <1>1
<1>3. ASSUME NEW S  PROVE e \notin CountedOf(status, day, expired, S)
  BY DEF CountedOf
<1>4. ASSUME NEW S
      PROVE  CountedOf(status', day', expired', S) \ {e} \subseteq CountedOf(status, day, expired, S)
  BY <1>2 DEF CountedOf
<1>5. ASSUME NEW S, budgetDay \notin S
      PROVE  SpendOf(status', day', cost', expired', S) <= SpendOf(status, day, cost, expired, S)
  <2>1. e \notin CountedOf(status', day', expired', S)
    BY <1>2, <1>5 DEF CountedOf
  <2>2. CountedOf(status', day', expired', S) \subseteq CountedOf(status, day, expired, S)
    BY <1>4, <2>1
  <2>3. \A f \in CountedOf(status', day', expired', S) : cost'[f] \in Nat /\ cost'[f] <= cost[f]
    <3>1. CountedOf(status', day', expired', S) \subseteq Calls \ {e}
      BY <2>1 DEF CountedOf
    <3>2. \A f \in Calls : cost[f] \in Nat
      BY <1>0, SpendNumbers
    <3> QED  BY <1>2, <3>1, <3>2
  <2>4. IsFiniteSet(CountedOf(status, day, expired, S)) /\ \A f \in CountedOf(status, day, expired, S) : cost[f] \in Nat
    BY <1>0, SpendNumbers
  <2> QED  BY <2>2, <2>3, <2>4, TotalGrows DEF SpendOf
<1>6. ASSUME NEW S
      PROVE  SpendOf(status', day', cost', expired', S) <= w.most + SpendOf(status, day, cost, expired, S)
  <2>1. CASE budgetDay \notin S
    <3>1. PICK before, after \in Nat : /\ before = SpendOf(status, day, cost, expired, S)
                                       /\ after = SpendOf(status', day', cost', expired', S)
      BY <1>0, <1>2, SpendNumbers
    <3>2. after <= before
      BY <1>5, <2>1, <3>1
    <3>3. after <= w.most + before
      BY <1>1, <3>2
    <3> QED  BY <3>1, <3>3
  <2>2. CASE budgetDay \in S
    <3>1. PICK A, B : A = CountedOf(status, day, expired, S) /\ B = CountedOf(status', day', expired', S)
      OBVIOUS
    <3>2. e \in B /\ e \notin A /\ B \ {e} \subseteq A /\ B \subseteq Calls /\ A \subseteq Calls
      BY <1>0, <1>2, <1>3, <1>4, <2>2, <3>1 DEF CountedOf, BudgetInv, Recorded
    <3>3. IsFiniteSet(A) /\ IsFiniteSet(B) /\ \A f \in Calls : cost[f] \in Nat /\ cost'[f] \in Nat
      BY <1>0, <1>2, <3>1, SpendNumbers
    <3>4. /\ \A x \in A : cost[x] \in Nat
          /\ \A x \in B : cost'[x] \in Nat
          /\ \A x \in B \ {e} : cost'[x] <= cost[x]
      BY <1>2, <3>2, <3>3
    <3>5. Total(cost', B) <= cost'[e] + Total(cost, A \ {e})
      BY <3>2, <3>3, <3>4, TotalChanges
    <3>6. A \ {e} = A
      BY <3>2
    <3> QED  BY <1>2, <3>1, <3>5, <3>6 DEF SpendOf
  <2> QED  BY <2>1, <2>2
<1>7. ASSUME NEW from \in Nat, NEW S, \A d \in S : d \in BudgetDays /\ from <= d
      PROVE  SpendOf(status, day, cost, expired, S) <= BudgetPart!CommittedCost(from, w.expired)
  <2> DEFINE since == {d \in 0..LastBudgetDay : d >= from}
  <2>1. BudgetPart!CommittedCost(from, w.expired) = SpendOf(status, day, cost, w.expired, since)
    BY <1>0, SpendIs
  <2>2. \A d \in S : d \in since
    <3>1. BudgetDays \subseteq 0..LastBudgetDay /\ BudgetDays \subseteq Nat
      BY DEF BudgetDays, BoundsAssumption
    <3> QED  BY <1>7, <3>1
  <2> HIDE DEF since
  <2>3. CountedOf(status, day, expired, S) \subseteq CountedOf(status, day, w.expired, since)
    BY <2>2 DEF CountedOf
  <2>4. /\ IsFiniteSet(CountedOf(status, day, w.expired, since))
        /\ \A f \in CountedOf(status, day, w.expired, since) : cost[f] \in Nat
    BY <1>0, SpendNumbers
  <2>5. \A f \in CountedOf(status, day, expired, S) : cost[f] \in Nat /\ cost[f] <= cost[f]
    BY <2>3, <2>4
  <2> QED  BY <2>1, <2>3, <2>4, <2>5, TotalGrows DEF SpendOf
<1>8. ASSUME NEW from \in Nat, NEW S, \A d \in S : d \in BudgetDays /\ from <= d,
             NEW limit \in Nat, limit > 0, ~BudgetPart!Exceeds(limit, from, w.expired, w.most)
      PROVE  SpendOf(status', day', cost', expired', S) <= limit
  <2>1. PICK before \in Nat : before = SpendOf(status, day, cost, expired, S)
    BY <1>0, SpendNumbers
  <2>2. PICK after \in Nat : after = SpendOf(status', day', cost', expired', S)
    BY <1>2, SpendNumbers
  <2>3. PICK asked \in Nat : asked = BudgetPart!CommittedCost(from, w.expired)
    <3>1. SpendOf(status, day, cost, w.expired, {d \in 0..LastBudgetDay : d >= from}) \in Nat
      BY <1>0, SpendNumbers
    <3> QED  BY <1>0, <3>1, SpendIs
  <2>4. asked + w.most <= limit
    BY <1>1, <1>8, <2>3 DEF BudgetPart!Exceeds
  <2>5. before <= asked /\ after <= w.most + before
    BY <1>6, <1>7, <1>8, <2>1, <2>2, <2>3
  <2> QED  BY <1>1, <2>2, <2>4, <2>5
<1>9. ASSUME NEW S, budgetDay \notin S, NEW limit \in Nat, SpendOf(status, day, cost, expired, S) <= limit
      PROVE  SpendOf(status', day', cost', expired', S) <= limit
  <2>1. PICK before, after \in Nat : /\ before = SpendOf(status, day, cost, expired, S)
                                     /\ after = SpendOf(status', day', cost', expired', S)
    BY <1>0, <1>2, SpendNumbers
  <2>2. after <= before /\ before <= limit
    BY <1>5, <1>9, <2>1
  <2>3. after <= limit
    BY <2>2
  <2> QED  BY <2>1, <2>3
<1>10. BudgetDays \subseteq Nat \ {0}
  BY DEF BudgetDays, BoundsAssumption
<1>11. ASSUME DayLimit > 0, NEW t \in BudgetDays
       PROVE  SpendOf(status', day', cost', expired', {t}) <= DayLimit
  <2>1. CASE t = budgetDay
    <3>1. w.day \in Nat /\ \A d \in {t} : d \in BudgetDays /\ w.day <= d
      BY <1>1, <1>10, <1>11, <2>1
    <3> QED  BY <1>1, <1>8, <1>11, <3>1
  <2>2. CASE t # budgetDay
    <3>1. SpendOf(status, day, cost, expired, {t}) <= DayLimit
      BY <1>0, <1>11 DEF UnderCeilingsOf
    <3> QED  BY <1>1, <1>9, <2>2, <3>1
  <2> QED  BY <2>1, <2>2
<1>12. ASSUME MonthLimit > 0, NEW t \in BudgetDays
       PROVE  SpendOf(status', day', cost', expired', MonthDays(BudgetPart!Month(t))) <= MonthLimit
  <2> DEFINE S == MonthDays(BudgetPart!Month(t))
  <2>1. CASE budgetDay \in S
    <3>1. BudgetPart!Month(budgetDay) = BudgetPart!Month(t)
      BY <2>1 DEF MonthDays
    <3>2. \A d \in S : d \in BudgetDays /\ BudgetPart!Month(d) = BudgetPart!Month(budgetDay)
      BY <3>1 DEF MonthDays
    <3>3. \A d \in S : BudgetPart!FirstOfMonth(w.day) <= d
      <4> TAKE d \in S
      <4> QED  BY <1>0, <1>1, <1>10, <3>2, MonthBegins
    <3>4. BudgetPart!FirstOfMonth(w.day) \in Nat
      <4>1. PICK n \in Nat \ {0} : n = DaysInMonth
        BY DEF BoundsAssumption
      <4>2. w.day - 1 \in Nat
        <5>1. PICK asked \in Nat \ {0} : asked = w.day
          BY <1>1, <1>10
        <5>2. asked - 1 \in Nat
          OBVIOUS
        <5> QED  BY <5>1, <5>2
      <4>3. PICK p \in Nat : p = w.day - 1
        BY <4>2
      <4>4. (p \div n) \in Nat
        OBVIOUS
      <4> QED  BY <4>1, <4>3, <4>4 DEF BudgetPart!FirstOfMonth, BudgetPart!Month
    <3> HIDE DEF S
    <3>5. SpendOf(status', day', cost', expired', S) <= MonthLimit
      BY <1>1, <1>8, <1>12, <3>2, <3>3, <3>4
    <3> QED  BY <3>5 DEF S
  <2>2. CASE budgetDay \notin S
    <3>1. SpendOf(status, day, cost, expired, S) <= MonthLimit
      BY <1>0, <1>12 DEF UnderCeilingsOf
    <3> HIDE DEF S
    <3>2. SpendOf(status', day', cost', expired', S) <= MonthLimit
      BY <1>1, <1>9, <2>2, <3>1
    <3> QED  BY <3>2 DEF S
  <2> QED  BY <2>1, <2>2
<1> QED  BY <1>11, <1>12 DEF UnderCeilingsOf

LEMMA BudgetInit == BoundsAssumption /\ BudgetPart!Init => BudgetInv
<1> SUFFICES ASSUME BoundsAssumption, BudgetPart!Init  PROVE BudgetInv
  OBVIOUS
<1>1. /\ budgetDay = 1 /\ status = [e \in Calls |-> "none"] /\ day = [e \in Calls |-> 0]
      /\ cost = [e \in Calls |-> 0] /\ expired = {} /\ billed = [e \in Calls |-> 0]
      /\ caller = [c \in Callers |-> BudgetPart!Idle]
  BY DEF BudgetPart!Init, BudgetPart!Events, Calls
<1>2. Recorded
  BY <1>1 DEF Recorded, BudgetDays, BoundsAssumption
<1>3. CallersOK
  BY <1>1 DEF CallersOK, CallPlaces, BudgetPart!Idle
<1>4. UnderCeilingsOf(status, day, cost, expired)
  <2>1. \A S : SpendOf(status, day, cost, expired, S) = 0
    <3> TAKE S
    <3>1. CountedOf(status, day, expired, S) = {}
      BY <1>1 DEF CountedOf
    <3> QED  BY <3>1, TotalOfNone DEF SpendOf
  <2> QED  BY <2>1 DEF UnderCeilingsOf, BoundsAssumption
<1> QED  BY <1>2, <1>3, <1>4 DEF BudgetInv

\* A caller goes on while nothing that the others hold changes.
LEMMA CallerGoes ==
  ASSUME BoundsAssumption, BudgetInv, NEW c \in Callers, NEW w \in CallPlaces,
         BudgetPart!Goto(c, w), budgetDay' = budgetDay, expired' = expired,
         w.at = "ask" => w.day <= budgetDay /\ w.expired \subseteq expired,
         w.at = "call" => /\ status'[w.event] = "reserved" /\ w.event \notin expired
                          /\ billed'[w.event] <= cost'[w.event]
                          /\ \A b \in Callers \ {c} : caller[b].at = "call" => caller[b].event # w.event,
         \A b \in Callers \ {c} : caller[b].at = "call" =>
             /\ status'[caller[b].event] = status[caller[b].event]
             /\ billed'[caller[b].event] = billed[caller[b].event]
             /\ cost'[caller[b].event] = cost[caller[b].event]
  PROVE  CallersOK'
<1>0. CallersOK
  BY DEF BudgetInv
<1>1. caller' = [caller EXCEPT ![c] = w] /\ caller' = [b \in Callers |-> IF b = c THEN w ELSE caller[b]]
  BY <1>0 DEF BudgetPart!Goto, CallersOK
<1>2. \A b \in Callers : caller'[b] = IF b = c THEN w ELSE caller[b]
  BY <1>1
<1>3. caller' = [b \in Callers |-> caller'[b]]
  BY <1>1
<1>4. ASSUME NEW b \in Callers
      PROVE  /\ caller'[b] \in CallPlaces
             /\ caller'[b].at = "ask" => caller'[b].day <= budgetDay' /\ caller'[b].expired \subseteq expired'
             /\ caller'[b].at = "call" =>
                   /\ status'[caller'[b].event] = "reserved" /\ caller'[b].event \notin expired'
                   /\ billed'[caller'[b].event] <= cost'[caller'[b].event]
                   /\ \A a \in Callers : caller'[a].at = "call" /\ caller'[a].event = caller'[b].event => a = b
  <2>1. CASE b = c
    BY <1>2, <2>1
  <2>2. CASE b # c
    <3>1. /\ caller[b] \in CallPlaces
          /\ caller[b].at = "ask" => caller[b].day <= budgetDay /\ caller[b].expired \subseteq expired
          /\ caller[b].at = "call" =>
                /\ status[caller[b].event] = "reserved" /\ caller[b].event \notin expired
                /\ billed[caller[b].event] <= cost[caller[b].event]
                /\ \A a \in Callers : caller[a].at = "call" /\ caller[a].event = caller[b].event => a = b
      BY <1>0 DEF CallersOK
    <3>2. caller'[b] = caller[b]
      BY <1>2, <2>2
    <3> QED  BY <1>2, <2>2, <3>1, <3>2
  <2> QED  BY <2>1, <2>2
<1> QED  BY <1>3, <1>4 DEF CallersOK

LEMMA BudgetStep ==
  ASSUME BoundsAssumption, BudgetInv, [BudgetPart!Next]_budgetVars
  PROVE  BudgetInv'
<1>0. /\ Recorded /\ CallersOK /\ UnderCeilingsOf(status, day, cost, expired)
      /\ \A c \in Callers : caller[c] \in CallPlaces
      /\ BudgetPart!Events = Calls /\ BudgetPart!Idle \in CallPlaces /\ BudgetPart!Idle.at = "idle"
      /\ MaxCost \in Nat /\ LastBudgetDay \in Nat /\ BudgetDays \subseteq Nat
  BY DEF BudgetInv, CallersOK, BudgetPart!Events, Calls, BudgetPart!Idle, CallPlaces, BoundsAssumption, BudgetDays
<1>1. ASSUME NEW c \in Callers, NEW most \in 1..MaxCost, BudgetPart!Ask(c, most)  PROVE BudgetInv'
  <2>1. PICK w : w = BudgetPart!Asking(budgetDay, expired, most)
    OBVIOUS
  <2>2. w \in CallPlaces /\ w.at = "ask" /\ w.day = budgetDay /\ w.expired = expired
    BY <1>0, <2>1 DEF BudgetPart!Asking, CallPlaces, Recorded
  <2>3. BudgetPart!Goto(c, w) /\ UNCHANGED <<budgetDay, status, day, cost, expired, billed>>
    BY <1>1, <2>1 DEF BudgetPart!Ask
  <2>4. budgetDay <= budgetDay
    BY <1>0 DEF Recorded
  <2>5. CallersOK'
    BY <2>2, <2>3, <2>4, CallerGoes
  <2> QED  BY <1>0, <2>3, <2>5 DEF BudgetInv, Recorded
<1>2. ASSUME NEW c \in Callers, NEW e \in Calls, BudgetPart!Reserve(c, e)  PROVE BudgetInv'
  <2>1. PICK w \in CallPlaces : w = caller[c]
    BY <1>0
  <2>2. /\ w.at = "ask" /\ status[e] = "none" /\ day' = [day EXCEPT ![e] = budgetDay]
        /\ UNCHANGED <<budgetDay, expired, billed>>
        /\ w.day <= budgetDay /\ w.expired \subseteq expired /\ w.most \in 1..MaxCost
        /\ e \notin expired /\ billed[e] = 0
    BY <1>0, <1>2, <2>1 DEF BudgetPart!Reserve, CallersOK, CallPlaces, Recorded
  <2>3. \A b \in Callers : caller[b].at = "call" => caller[b].event \in Calls /\ caller[b].event # e
    BY <1>0, <2>2 DEF CallersOK, CallPlaces
  <2>4. day' \in [Calls -> 0..LastBudgetDay]
    BY <1>0, <2>2 DEF Recorded, BudgetDays
  <2>5. CASE \/ BudgetPart!Exceeds(DayLimit, w.day, w.expired, w.most)
             \/ BudgetPart!Exceeds(MonthLimit, BudgetPart!FirstOfMonth(w.day), w.expired, w.most)
    <3>1. status' = [status EXCEPT ![e] = "blocked"] /\ BudgetPart!Goto(c, BudgetPart!Idle) /\ cost' = cost
      BY <1>2, <2>1, <2>5 DEF BudgetPart!Reserve
    <3>2. Recorded'
      BY <1>0, <2>2, <2>4, <3>1 DEF Recorded
    <3>3. CallersOK'
      <4>1. \A f \in Calls \ {e} : status'[f] = status[f]
        BY <1>0, <3>1 DEF Recorded
      <4> QED  BY <1>0, <2>2, <2>3, <3>1, <4>1, CallerGoes
    <3>4. \A f \in Calls : /\ f # e => status'[f] = status[f] /\ day'[f] = day[f]
                           /\ cost'[f] <= cost[f]
                           /\ status'[e] = "blocked"
      BY <1>0, <2>2, <3>1 DEF Recorded
    <3>5. UnderCeilingsOf(status', day', cost', expired')
      BY <2>2, <3>2, <3>4, NothingSpent
    <3> QED  BY <3>2, <3>3, <3>5 DEF BudgetInv
  <2>6. CASE ~ \/ BudgetPart!Exceeds(DayLimit, w.day, w.expired, w.most)
               \/ BudgetPart!Exceeds(MonthLimit, BudgetPart!FirstOfMonth(w.day), w.expired, w.most)
    <3>1. /\ status' = [status EXCEPT ![e] = "reserved"] /\ cost' = [cost EXCEPT ![e] = w.most]
          /\ BudgetPart!Goto(c, BudgetPart!Calling(e))
      BY <1>2, <2>1, <2>6 DEF BudgetPart!Reserve
    <3>2. Recorded'
      <4>1. cost' \in [Calls -> 0..MaxCost]
        BY <1>0, <2>2, <3>1 DEF Recorded
      <4>2. status' \in [Calls -> {"none", "reserved", "blocked", "completed", "failed"}]
        BY <1>0, <3>1 DEF Recorded
      <4>3. \A f \in Calls : status'[f] = "none" => f \notin expired' /\ billed'[f] = 0
        BY <1>0, <2>2, <3>1 DEF Recorded
      <4> QED  BY <1>0, <2>2, <2>4, <4>1, <4>2, <4>3 DEF Recorded
    <3>3. CallersOK'
      <4>1. \A f \in Calls \ {e} : status'[f] = status[f] /\ cost'[f] = cost[f]
        BY <1>0, <3>1 DEF Recorded
      <4>2. PICK v : v = BudgetPart!Calling(e)
        OBVIOUS
      <4>3. v \in CallPlaces /\ v.at = "call" /\ v.event = e
        BY <4>2 DEF BudgetPart!Calling, CallPlaces
      <4>4. status'[e] = "reserved" /\ billed'[e] <= cost'[e]
        BY <1>0, <2>2, <3>1 DEF Recorded
      <4> QED  BY <2>2, <2>3, <3>1, <4>1, <4>2, <4>3, <4>4, CallerGoes
    <3>4. UnderCeilingsOf(status', day', cost', expired')
      BY <2>2, <2>6, <3>1, CallReserved
    <3> QED  BY <3>2, <3>3, <3>4 DEF BudgetInv
  <2> QED  BY <2>5, <2>6
<1>3. ASSUME NEW c \in Callers, BudgetPart!Bill(c)  PROVE BudgetInv'
  <2>1. PICK w \in CallPlaces : w = caller[c]
    BY <1>0
  <2>2. w.at = "call" /\ w.event \in Calls
    BY <1>3, <2>1 DEF BudgetPart!Bill, CallPlaces
  <2>3. PICK e \in Calls : e = w.event
    BY <2>2
  <2>4. PICK amount \in 1..cost[e] : billed' = [billed EXCEPT ![e] = amount]
    BY <1>3, <2>1, <2>3 DEF BudgetPart!Bill
  <2>5. UNCHANGED <<budgetDay, status, day, cost, expired, caller>>
    BY <1>3 DEF BudgetPart!Bill
  <2>6. status[e] = "reserved" /\ \A b \in Callers : caller[b].at = "call" /\ caller[b].event = e => b = c
    BY <1>0, <2>1, <2>2, <2>3 DEF CallersOK
  <2>7. cost[e] \in 0..MaxCost /\ amount \in 0..MaxCost /\ amount <= cost[e]
    BY <1>0 DEF Recorded
  <2>8. billed' \in [Calls -> 0..MaxCost] /\ billed'[e] = amount /\ \A f \in Calls \ {e} : billed'[f] = billed[f]
    BY <1>0, <2>4, <2>7 DEF Recorded
  <2>9. Recorded'
    BY <1>0, <2>5, <2>6, <2>8 DEF Recorded
  <2>10. CallersOK'
    <3>1. ASSUME NEW b \in Callers, caller[b].at = "call"
          PROVE  billed'[caller[b].event] <= cost[caller[b].event]
      <4>1. caller[b].event \in Calls /\ billed[caller[b].event] <= cost[caller[b].event]
        BY <1>0, <3>1 DEF CallersOK, CallPlaces
      <4>2. CASE caller[b].event = e
        BY <2>7, <2>8, <4>2
      <4>3. CASE caller[b].event # e
        BY <2>8, <4>1, <4>3
      <4> QED  BY <4>2, <4>3
    <3> QED  BY <1>0, <2>5, <3>1 DEF CallersOK
  <2> QED  BY <1>0, <2>5, <2>9, <2>10 DEF BudgetInv
<1>4. ASSUME NEW c \in Callers, BudgetPart!Complete(c) \/ BudgetPart!Fail(c)  PROVE BudgetInv'
  <2>1. PICK w \in CallPlaces : w = caller[c]
    BY <1>0
  <2>2. w.at = "call" /\ w.event \in Calls
    BY <1>4, <2>1 DEF BudgetPart!Complete, BudgetPart!Fail, CallPlaces
  <2>3. PICK e \in Calls : e = w.event
    BY <2>2
  <2>4. /\ status[e] = "reserved" /\ e \notin expired /\ billed[e] <= cost[e]
        /\ \A b \in Callers : caller[b].at = "call" /\ caller[b].event = e => b = c
    BY <1>0, <2>1, <2>2, <2>3 DEF CallersOK
  <2>5. /\ BudgetPart!Goto(c, BudgetPart!Idle) /\ UNCHANGED <<budgetDay, day, expired, billed>>
        /\ \E s \in {"completed", "failed"} : status' = [status EXCEPT ![e] = s]
        /\ cost' = [cost EXCEPT ![e] = billed[e]] \/ cost' = [cost EXCEPT ![e] = 0]
    BY <1>4, <2>1, <2>3 DEF BudgetPart!Complete, BudgetPart!Fail
  <2>6. PICK s \in {"completed", "failed"} : status' = [status EXCEPT ![e] = s]
    BY <2>5
  <2>7. PICK amount \in 0..MaxCost : cost' = [cost EXCEPT ![e] = amount] /\ amount <= cost[e]
    <3>1. billed[e] \in 0..MaxCost /\ 0 \in 0..MaxCost /\ 0 <= cost[e]
      BY <1>0 DEF Recorded
    <3> QED  BY <2>4, <2>5, <3>1
  <2>8. /\ \A f \in Calls \ {e} : status'[f] = status[f] /\ cost'[f] = cost[f]
        /\ status'[e] = s /\ cost'[e] = amount /\ cost' \in [Calls -> 0..MaxCost]
        /\ status' \in [Calls -> {"none", "reserved", "blocked", "completed", "failed"}]
    BY <1>0, <2>6, <2>7 DEF Recorded
  <2>9. Recorded'
    BY <1>0, <2>5, <2>8 DEF Recorded
  <2>10. CallersOK'
    <3>1. \A b \in Callers \ {c} : caller[b].at = "call" => caller[b].event \in Calls \ {e}
      BY <1>0, <2>4 DEF CallersOK, CallPlaces
    <3> QED  BY <1>0, <2>5, <2>8, <3>1, CallerGoes
  <2>11. UnderCeilingsOf(status', day', cost', expired')
    <3>1. \A f \in Calls : cost'[f] <= cost[f]
      <4>1. \A f \in Calls : cost[f] <= cost[f]
        BY <1>0 DEF Recorded
      <4> QED  BY <2>7, <2>8, <4>1
    <3> QED  BY <2>4, <2>5, <2>8, <2>9, <3>1, NothingSpent
  <2> QED  BY <2>9, <2>10, <2>11 DEF BudgetInv
<1>5. ASSUME NEW c \in Callers, BudgetPart!Crash(c)  PROVE BudgetInv'
  <2>1. BudgetPart!Goto(c, BudgetPart!Idle) /\ UNCHANGED <<budgetDay, status, day, cost, expired, billed>>
    BY <1>5 DEF BudgetPart!Crash
  <2>2. CallersOK'
    BY <1>0, <2>1, CallerGoes
  <2> QED  BY <1>0, <2>1, <2>2 DEF BudgetInv, Recorded
<1>6. ASSUME NEW e \in Calls, BudgetPart!Expire(e)  PROVE BudgetInv'
  <2>1. /\ status[e] = "reserved" /\ expired' = expired \union {e}
        /\ UNCHANGED <<budgetDay, status, day, cost, billed, caller>>
    BY <1>6 DEF BudgetPart!Expire
  <2>2. \A c \in Callers : caller[c].at = "call" => caller[c].event # e
    <3>1. ASSUME NEW c \in Callers, caller[c].at = "call", caller[c].event = e  PROVE FALSE
      <4>1. caller[c] \in [at : {"call"}, event : Calls]
        BY <1>0, <3>1 DEF CallPlaces
      <4>2. caller[c] = [at |-> "call", event |-> e]
        BY <3>1, <4>1
      <4> QED  BY <1>6, <4>2 DEF BudgetPart!Expire, BudgetPart!InFlight, BudgetPart!Calling
    <3> QED  BY <3>1
  <2>3. Recorded'
    BY <1>0, <2>1 DEF Recorded
  <2>4. CallersOK'
    BY <1>0, <2>1, <2>2 DEF CallersOK
  <2>5. \A f \in Calls : cost[f] <= cost[f]
    BY <1>0 DEF Recorded
  <2>6. UnderCeilingsOf(status', day', cost', expired')
    BY <2>1, <2>3, <2>5, NothingSpent
  <2> QED  BY <2>3, <2>4, <2>6 DEF BudgetInv
<1>7. ASSUME BudgetPart!Midnight  PROVE BudgetInv'
  <2>1. budgetDay < LastBudgetDay /\ budgetDay' = budgetDay + 1 /\ UNCHANGED <<status, day, cost, expired, billed, caller>>
    BY <1>7 DEF BudgetPart!Midnight
  <2>2. budgetDay' \in BudgetDays /\ budgetDay \in Nat
    BY <1>0, <2>1 DEF Recorded, BudgetDays
  <2>3. Recorded'
    BY <1>0, <2>1, <2>2 DEF Recorded
  <2>4. CallersOK'
    <3>1. \A c \in Callers : caller[c].at = "ask" => caller[c].day <= budgetDay'
      <4> TAKE c \in Callers
      <4>1. CASE caller[c].at = "ask"
        <5>1. caller[c].day \in Nat /\ caller[c].day <= budgetDay
          BY <1>0, <4>1 DEF CallersOK, CallPlaces
        <5> QED  BY <2>1, <2>2, <5>1
      <4> QED  BY <4>1
    <3> QED  BY <1>0, <2>1, <3>1 DEF CallersOK
  <2> QED  BY <1>0, <2>1, <2>3, <2>4 DEF BudgetInv
<1>8. CASE UNCHANGED budgetVars
  BY <1>0, <1>8 DEF budgetVars, BudgetInv, Recorded, CallersOK
<1> QED  BY <1>0, <1>1, <1>2, <1>3, <1>4, <1>5, <1>6, <1>7, <1>8 DEF BudgetPart!Next

(***************************************************************************)
(* All parts.                                                              *)
(***************************************************************************)

IInv ==
    /\ CallsInv /\ AccountInv /\ BackupInv /\ CatalogueInv
    /\ MatchingInv /\ ConfigsInv /\ QuotaInv /\ BudgetInv

\* A step of the records is, to each part, a step of that part or none.
LEMMA PartsStep ==
  [Next]_vars =>
      /\ [CallsPart!Next]_callsVars /\ [AccountPart!Next]_accountVars
      /\ [BackupPart!Next]_backupVars /\ [CataloguePart!Next]_catalogueVars
      /\ [MatchingPart!Next]_matchingVars /\ [ConfigsPart!Next]_configsVars
      /\ [QuotaPart!Next]_quotaVars /\ [BudgetPart!Next]_budgetVars
<1> SUFFICES ASSUME [Next]_vars
             PROVE  /\ [CallsPart!Next]_callsVars /\ [AccountPart!Next]_accountVars
                    /\ [BackupPart!Next]_backupVars /\ [CataloguePart!Next]_catalogueVars
                    /\ [MatchingPart!Next]_matchingVars /\ [ConfigsPart!Next]_configsVars
                    /\ [QuotaPart!Next]_quotaVars /\ [BudgetPart!Next]_budgetVars
  OBVIOUS
<1>1. CASE CallsNext
  BY <1>1, Zenon DEF CallsNext
<1>2. CASE AccountNext
  BY <1>2, Zenon DEF AccountNext
<1>3. CASE BackupNext
  BY <1>3, Zenon DEF BackupNext
<1>4. CASE CatalogueNext
  BY <1>4, Zenon DEF CatalogueNext
<1>5. CASE MatchingNext
  BY <1>5, Zenon DEF MatchingNext
<1>6. CASE ConfigsNext
  BY <1>6, Zenon DEF ConfigsNext
<1>7. CASE QuotaNext
  BY <1>7, Zenon DEF QuotaNext
<1>8. CASE BudgetNext
  BY <1>8, Zenon DEF BudgetNext
<1>9. CASE UNCHANGED vars
  BY <1>9, Zenon DEF vars
<1> QED  BY <1>1, <1>2, <1>3, <1>4, <1>5, <1>6, <1>7, <1>8, <1>9, Zenon DEF Next

\* What a step does not undo.
StepKeeps == AccountOnlyGrows /\ NothingGoes /\ AllKept

LEMMA InitEstablishes == Init => IInv
BY BoundsAssumption, CallsInit, AccountInit, BackupInit, CatalogueInit, MatchingInit, ConfigsInit, QuotaInit,
   BudgetInit, Zenon DEF Init, IInv

LEMMA Step == IInv /\ [Next]_vars => IInv' /\ StepKeeps
<1> SUFFICES ASSUME IInv, [Next]_vars  PROVE IInv' /\ StepKeeps
  OBVIOUS
<1>0. /\ [CallsPart!Next]_callsVars /\ [AccountPart!Next]_accountVars
      /\ [BackupPart!Next]_backupVars /\ [CataloguePart!Next]_catalogueVars
      /\ [MatchingPart!Next]_matchingVars /\ [ConfigsPart!Next]_configsVars
      /\ [QuotaPart!Next]_quotaVars /\ [BudgetPart!Next]_budgetVars
  BY PartsStep
<1>1. CallsInv'
  BY <1>0, CallsStep, Zenon DEF IInv
<1>2. AccountInv' /\ AccountOnlyGrows
  BY <1>0, AccountStep, Zenon DEF IInv
<1>3. BackupInv' /\ NothingGoes
  BY <1>0, BackupStep, Zenon DEF IInv
<1>4. CatalogueInv' /\ AllKept
  BY <1>0, CatalogueStep, Zenon DEF IInv
<1>5. MatchingInv'
  BY <1>0, MatchingStep, Zenon DEF IInv
<1>6. ConfigsInv'
  BY <1>0, BoundsAssumption, ConfigsStep, Zenon DEF IInv
<1>7. QuotaInv'
  BY <1>0, BoundsAssumption, QuotaStep, Zenon DEF IInv
<1>8. BudgetInv'
  BY <1>0, BoundsAssumption, BudgetStep, Zenon DEF IInv
<1> QED  BY <1>1, <1>2, <1>3, <1>4, <1>5, <1>6, <1>7, <1>8 DEF IInv, StepKeeps

\* The inductive invariant of the records.
THEOREM Invariance == Spec => []IInv
BY InitEstablishes, Step, PTL DEF Spec

LEMMA ConfigsTypes == ConfigsInv => ConfigsPart!TypeOK
<1> SUFFICES ASSUME ConfigsInv  PROVE ConfigsPart!TypeOK
  OBVIOUS
<1>1. \A q \in Requests : configAt[q].handler \in {"none"} \union Handlers
  BY DEF ConfigsInv, ConfigTypes, ConfigPlaces, ConfigsPart!Idle
<1> QED  BY <1>1 DEF ConfigsInv, ConfigTypes, ConfigsPart!TypeOK, Configs, Contents, Feedbacks, Given, Handlers

\* Every reachable state of the part that works is well typed.
THEOREM TypeCorrect == Spec => []TypeOK
<1>0. part \in {"catalogue", "calls", "configs", "quota", "account", "budget", "matching", "backup"} /\ IInv => TypeOK
  <2> SUFFICES ASSUME IInv, part \in {"catalogue", "calls", "configs", "quota", "account", "budget", "matching", "backup"}
               PROVE  TypeOK
    OBVIOUS
  <2>1. CallsPart!TypeOK /\ AccountPart!TypeOK /\ BackupPart!TypeOK
    BY DEF IInv, CallsInv, AccountInv, BackupInv
  <2>2. CataloguePart!TypeOK /\ MatchingPart!TypeOK /\ ConfigsPart!TypeOK /\ QuotaPart!TypeOK /\ BudgetPart!TypeOK
    BY CatalogueTypes, MatchingTypes, ConfigsTypes, QuotaTypes, BudgetTypes DEF IInv
  <2> QED  BY <2>1, <2>2 DEF TypeOK
<1> DEFINE OnePart == part \in {"catalogue", "calls", "configs", "quota", "account", "budget", "matching", "backup"}
<1>1. Spec => []OnePart
  <2>1. Init => OnePart
    BY DEF Init
  <2>2. OnePart /\ [Next]_vars => OnePart'
    <3>1. [Next]_vars => part' = part
      BY Zenon DEF Next, vars, CatalogueNext, CallsNext, ConfigsNext, QuotaNext, AccountNext, BudgetNext,
                   MatchingNext, BackupNext
    <3> QED  BY <3>1
  <2> HIDE DEF OnePart
  <2> QED  BY <2>1, <2>2, PTL DEF Spec
<1>2. OnePart /\ IInv => TypeOK
  BY <1>0
<1> HIDE DEF OnePart
<1> QED  BY <1>1, <1>2, Invariance, PTL

\* The calls of a checked venue that an author sees were read on the day of their
\* confirmation or later, whatever the page, the checks and the editors do meanwhile
\* (visible_calls).
THEOREM CallsStayFresh == Spec => []CheckedCallsAreFresh
<1>1. IInv => CheckedCallsAreFresh
  BY CallsAreFresh DEF IInv, CheckedCallsAreFresh
<1> QED  BY <1>1, Invariance, PTL

\* A venue that has a configuration has one active configuration, however many
\* requests post, draft, apply and activate at once (admin_activate_venue_config).
THEOREM OneActive == Spec => []OneActiveConfig
<1>1. IInv => OneActiveConfig
  BY DEF IInv, ConfigsInv, OneActiveConfig
<1> QED  BY <1>1, Invariance, PTL

\* A feedback goes into one draft, which says what it or a later one of the same
\* draft says (admin_feedback_draft_config).
THEOREM AppliedOnce == Spec => []ConfigsPart!FeedbackAppliedOnce
<1>1. IInv => ConfigsPart!FeedbackAppliedOnce
  BY DEF IInv, ConfigsInv
<1> QED  BY <1>1, Invariance, PTL

\* However uploads, versions and purges interleave, an author and all authors pass
\* their limit by at most one file (storage_quota_guard).
THEOREM LimitsHold == Spec => []PassedByAtMostAFile
<1>1. IInv => PassedByAtMostAFile
  BY QuotaPassed DEF IInv, PassedByAtMostAFile
<1> QED  BY <1>1, Invariance, PTL

\* However many calls are reserved at once, also over midnight, what is spent and
\* reserved stays under the ceilings of the day and of the month (reserve_ai_call).
THEOREM CeilingsHold == Spec => []UnderCeilings
<1>1. IInv => UnderCeilings
  BY BudgetUnderCeilings DEF IInv, UnderCeilings
<1> QED  BY <1>1, Invariance, PTL

\* The semantic assessment an author sees is not older than the mechanical one
\* beside it (author_readiness).
THEOREM SemanticFollows == Spec => []SemanticNotOlder
<1>1. IInv => SemanticNotOlder
  BY DEF IInv, MatchingInv, Assessed, SemanticNotOlder
<1> QED  BY <1>1, Invariance, PTL

\* No request takes back what another changed of an account, and the browser that
\* changed the password stays signed in (save(update_fields)).
THEOREM AccountChangesLast == Spec => ChangesLast
<1>1. IInv /\ [Next]_vars => [AccountOnlyGrows]_(AccountPart!vars)
  BY Step DEF StepKeeps
<1>2. IInv => AccountPart!ChangedBrowserSignedIn
  BY BrowserSignedIn DEF IInv
<1> QED  BY <1>1, <1>2, Invariance, PTL DEF Spec, ChangesLast, AccountPart!ChangesLast, AccountOnlyGrows

\* A step of a backup leaves an archive if there was one, and a step of a restore
\* leaves every file (backup.sh, restore.sh).
THEOREM BackupKeeps == Spec => NothingDestroyed
<1>1. IInv /\ [Next]_vars => [NothingGoes]_(BackupPart!vars)
  BY Step DEF StepKeeps
<1> QED  BY <1>1, Invariance, PTL DEF Spec, NothingDestroyed, BackupPart!NothingDestroyed, NothingGoes

\* What a pass over the catalogue removes or flags is out of it, or displaced by as
\* many larger ones as the index has room for; what is in use is not removed
\* (_catalogue_pass).
THEOREM CatalogueKeeps == Spec => NothingLostOfTheCatalogue
<1> DEFINE Keeps ==
      \A j \in Journals :
          /\ CataloguePart!Removed(j) \/ CataloguePart!Flagged(j) =>
                \/ j \notin CataloguePart!Listed \/ ~CataloguePart!InScope(j)
                \/ CataloguePart!Cardinality({k \in CataloguePart!Listed \ {j} :
                      CataloguePart!InScope(k) /\ source[k].size >= source[j].size}) >= MaxRecords
          /\ CataloguePart!Removed(j) => ~index[j].held /\ ~index[j].worklist
<1>1. AllKept => Keeps
  BY SameCount, Zenon DEF AllKept, Kept, Belongs
<1>2. IInv /\ [Next]_vars => [Keeps]_(CataloguePart!vars)
  <2> HIDE DEF Keeps
  <2> QED  BY <1>1, Step DEF StepKeeps
<1> QED  BY <1>2, Invariance, PTL DEF Spec, NothingLostOfTheCatalogue, CataloguePart!NothingLostOfTheCatalogue
=============================================================================
