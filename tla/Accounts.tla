------------------------------ MODULE Accounts ------------------------------
(***************************************************************************)
(* Invitations, one account and its sessions: the requests of app.py that      *)
(* register, sign in and out, enrol a device, and the administrator's edits. A *)
(* login locks the account's row from its first statement, so it is one step;   *)
(* registrations, enrolments and edits read first and commit later. A browser   *)
(* is also the key of its device. Passwords, places and messages are left out;   *)
(* an edit of a row writes only the columns it changed since it read them.      *)
(***************************************************************************)
EXTENDS Integers, FiniteSets

CONSTANTS Browsers, Kinds, DeviceKind,   \* each browser's device_kind
          Invites, Visitors,
          MaxTokens, MaxEditsMade        \* bounds

ASSUME AccountAssumption == DeviceKind \in [Browsers -> Kinds] /\ MaxTokens \in Nat

VARIABLES
  tokens,       \* how many session tokens and device rows were made: their names
  account,      \* UserAccount: its level, whether it is active, its session or 0
  devices,      \* AccountDevice of each kind: its row, key and session
  cookies,      \* each browser's session cookie
  enrolling,    \* the running enrolment of each browser: what it read
  editing,      \* the administrator's running edit, and how many were made
  warned,       \* LoginSecurityAlert of each browser: none, unread or read
  invites,      \* who used each invitation, whether it expired
  registering   \* the running registration of each visitor, and who was registered

accountVars == <<tokens, account, devices, cookies, enrolling, editing, warned, invites, registering>>
sessionVars == <<tokens, account, devices, cookies>>

NoDevice == [row |-> 0, key |-> "", session |-> 0]
NoCookie == [token |-> 0, row |-> 0]
NoEnrolment == [token |-> 0]
NoEdit == [kind |-> "none"]
AccountInit ==
  /\ tokens = 0 /\ account = [level |-> "lv1", active |-> TRUE, session |-> 0]
  /\ devices = [k \in Kinds |-> NoDevice] /\ cookies = [b \in Browsers |-> NoCookie]
  /\ enrolling = [b \in Browsers |-> NoEnrolment] /\ editing = [request |-> NoEdit, made |-> 0]
  /\ warned = [b \in Browsers |-> "none"]
  /\ invites = [i \in Invites |-> [by |-> {}, expired |-> FALSE]]
  /\ registering = [v \in Visitors |-> "no"]

\* current_account_device, require_account_login.
DeviceOf(b) == {k \in Kinds : cookies[b].row # 0 /\ devices[k].row = cookies[b].row}
Presents(b, hash) == cookies[b].token # 0 /\ hash = cookies[b].token
OnDevice(b) == \E k \in DeviceOf(b) : Presents(b, devices[k].session)
OnAccount(b) == Presents(b, account.session)
SignedIn(b) == /\ account.active
               /\ IF account.level = "lv1" /\ DeviceOf(b) # {} THEN OnDevice(b) ELSE OnAccount(b)

DevicesKept == devices
SignedOut == [k \in Kinds |-> [devices[k] EXCEPT !.session = 0]]
\* What a login of LV1 leaves in the row of the account.
AccountUntouched == account
AfterDeviceLogin == [account EXCEPT !.session = 0]

-----------------------------------------------------------------------------
\* login_api.
LoginOpenly(b) ==
  /\ account.active /\ account.level # "lv1" /\ tokens < MaxTokens
  /\ tokens' = tokens + 1 /\ account' = [account EXCEPT !.session = tokens']
  /\ devices' = SignedOut
  /\ cookies' = [cookies EXCEPT ![b] = [token |-> tokens', row |-> 0]]
  /\ UNCHANGED <<enrolling, editing, warned, invites, registering>>

Fits(device, b) == device.row = 0 \/ device.key = b
LoginOnDevice(b) ==
  LET k == DeviceKind[b]
      row == IF devices[k].row = 0 THEN tokens' ELSE devices[k].row
  IN /\ account.active /\ account.level = "lv1" /\ tokens < MaxTokens /\ Fits(devices[k], b)
     /\ tokens' = tokens + 1 /\ account' = AfterDeviceLogin
     /\ devices' = [devices EXCEPT ![k] = [row |-> row, key |-> b, session |-> tokens']]
     /\ cookies' = [cookies EXCEPT ![b] = [token |-> tokens', row |-> row]]
     /\ UNCHANGED <<enrolling, editing, warned, invites, registering>>
\* record_blocked_device_alert: one row per ten minutes, unread again each time.
Refuse(b) ==
  /\ account.active /\ account.level = "lv1" /\ ~ Fits(devices[DeviceKind[b]], b)
  /\ warned' = [warned EXCEPT ![b] = "unread"]
  /\ UNCHANGED <<sessionVars, enrolling, editing, invites, registering>>

\* Any request without a valid session loses its cookie.
Turn(b) ==
  /\ cookies[b] # NoCookie /\ ~ SignedIn(b) /\ cookies' = [cookies EXCEPT ![b] = NoCookie]
  /\ UNCHANGED <<tokens, account, devices, enrolling, editing, warned, invites, registering>>

\* logout_api: the cookie goes in any case.
Logout(b) ==
  /\ cookies[b] # NoCookie /\ cookies' = [cookies EXCEPT ![b] = NoCookie]
  /\ IF DeviceOf(b) # {}
     THEN /\ devices' = [k \in Kinds |-> IF k \in DeviceOf(b) /\ OnDevice(b)
                                         THEN [devices[k] EXCEPT !.session = 0] ELSE devices[k]]
          /\ UNCHANGED account
     ELSE /\ account' = IF OnAccount(b) THEN [account EXCEPT !.session = 0] ELSE account
          /\ UNCHANGED devices
  /\ UNCHANGED <<tokens, enrolling, editing, warned, invites, registering>>

\* enroll_current_device_api: a session of the account becomes one of a device.
StartEnrolment(b) ==
  /\ enrolling[b] = NoEnrolment /\ SignedIn(b) /\ account.level = "lv1" /\ DeviceOf(b) = {}
  /\ enrolling' = [enrolling EXCEPT ![b] =
       [token |-> cookies[b].token, device |-> devices[DeviceKind[b]]]]
  /\ UNCHANGED <<sessionVars, editing, warned, invites, registering>>

\* The row read may have gone, or the slot may be taken: then nothing is committed.
Enrol(b) ==
  LET seen == enrolling[b].device
      k == DeviceKind[b]
      row == IF seen.row = 0 THEN tokens + 1 ELSE seen.row
  IN /\ Fits(seen, b) /\ devices[k].row = seen.row
     /\ tokens' = IF seen.row = 0 THEN tokens + 1 ELSE tokens
     /\ devices' = [devices EXCEPT ![k] = [row |-> row, key |-> b, session |-> enrolling[b].token]]
     /\ cookies' = [cookies EXCEPT ![b] = [token |-> enrolling[b].token, row |-> row]]
     /\ account' = [account EXCEPT !.session = 0] /\ UNCHANGED warned
EnrolmentRefused(b) ==
  /\ ~ Fits(enrolling[b].device, b)
  /\ account' = [account EXCEPT !.session = 0] /\ cookies' = [cookies EXCEPT ![b] = NoCookie]
  /\ warned' = [warned EXCEPT ![b] = "unread"] /\ UNCHANGED <<tokens, devices>>
EnrolmentFails(b) == /\ Fits(enrolling[b].device, b)
                     /\ devices[DeviceKind[b]].row # enrolling[b].device.row
                     /\ UNCHANGED <<sessionVars, warned>>
FinishEnrolment(b) ==
  /\ enrolling[b] # NoEnrolment /\ enrolling' = [enrolling EXCEPT ![b] = NoEnrolment]
  /\ (Enrol(b) \/ EnrolmentRefused(b) \/ EnrolmentFails(b))
  /\ UNCHANGED <<editing, invites, registering>>

-----------------------------------------------------------------------------
\* set_user_account_level, set_user_active, reset_user_password.
StartEdit ==
  /\ editing.request = NoEdit /\ editing.made < MaxEditsMade
  /\ \E kind \in {"lv1", "lv2", "active", "inactive", "password"} :
       editing' = [made |-> editing.made + 1,
                   request |-> [kind |-> kind, seen |-> account.session, began |-> tokens]]
  /\ UNCHANGED <<sessionVars, enrolling, warned, invites, registering>>
\* A session the edit did not read is not among the columns it writes.
Edited(request) ==
  [level   |-> IF request.kind \in {"lv1", "lv2"} THEN request.kind ELSE account.level,
   active  |-> IF request.kind \in {"active", "inactive"} THEN request.kind = "active" ELSE account.active,
   session |-> IF request.seen # 0 THEN 0 ELSE account.session]
FinishEdit ==
  /\ editing.request # NoEdit /\ editing' = [editing EXCEPT !.request = NoEdit]
  /\ account' = Edited(editing.request) /\ devices' = SignedOut
  /\ UNCHANGED <<tokens, cookies, enrolling, warned, invites, registering>>

\* unbind_account_device, mark_login_security_alerts_read.
Unbind(k) == /\ devices[k].row # 0 /\ devices' = [devices EXCEPT ![k] = NoDevice]
             /\ UNCHANGED <<tokens, account, cookies, enrolling, editing, warned, invites, registering>>
ReadAlerts == /\ \E b \in Browsers : warned[b] = "unread"
              /\ warned' = [b \in Browsers |-> IF warned[b] = "none" THEN "none" ELSE "read"]
              /\ UNCHANGED <<sessionVars, enrolling, editing, invites, registering>>

-----------------------------------------------------------------------------
\* register_api: the invitation is looked at, the account is added, and then it is claimed
\* by a statement that finds it unused; else the account is taken back.
InviteStands(i) == ~ invites[i].expired
InviteFree(i) == invites[i].by = {} /\ InviteStands(i)
Apply(v) ==
  /\ registering[v] = "no"
  /\ \E i \in Invites : InviteFree(i) /\ registering' = [registering EXCEPT ![v] = i]
  /\ UNCHANGED <<sessionVars, enrolling, editing, warned, invites>>
Claimable(i) == InviteFree(i)
Register(v) ==
  LET i == registering[v] IN
  /\ i \in Invites
  /\ IF Claimable(i)
     THEN /\ invites' = [invites EXCEPT ![i].by = @ \cup {v}]
          /\ registering' = [registering EXCEPT ![v] = "yes"]
     ELSE registering' = [registering EXCEPT ![v] = "no"] /\ UNCHANGED invites
  /\ UNCHANGED <<sessionVars, enrolling, editing, warned>>
Expire(i) == /\ InviteStands(i) /\ invites' = [invites EXCEPT ![i].expired = TRUE]
             /\ UNCHANGED <<sessionVars, enrolling, editing, warned, registering>>

AccountNext ==
  \/ \E b \in Browsers : \/ LoginOpenly(b) \/ LoginOnDevice(b) \/ Refuse(b) \/ Turn(b)
                         \/ Logout(b) \/ StartEnrolment(b) \/ FinishEnrolment(b)
  \/ StartEdit \/ FinishEdit \/ ReadAlerts
  \/ \E k \in Kinds : Unbind(k)
  \/ \E v \in Visitors : Apply(v) \/ Register(v)
  \/ \E i \in Invites : Expire(i)
AccountSpec == AccountInit /\ [][AccountNext]_accountVars

-----------------------------------------------------------------------------
\* An invitation makes one account, and two browsers are signed in to an account at once
\* only as its bound devices of two kinds.
AccessIsSingle ==
  /\ \A i \in Invites : Cardinality(invites[i].by) <= 1
  /\ \A b, c \in Browsers : b # c /\ SignedIn(b) /\ SignedIn(c)
       => OnDevice(b) /\ OnDevice(c) /\ DeviceKind[b] # DeviceKind[c]

\* Right after an edit ("signed_out" in its answer) no session is left of those that
\* were there when the edit began, though logins and enrolments ran beside it.
EditsSignOut ==
  editing.request # NoEdit /\ editing'.request = NoEdit
  => \A b \in Browsers : SignedIn(b)' => cookies'[b].token > editing.request.began

\* Both hold of every step, however logins, enrolments and edits overlap.
SessionsAreEarned == [][AccessIsSingle' /\ EditsSignOut]_accountVars
=============================================================================
