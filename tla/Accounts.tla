------------------------------ MODULE Accounts ------------------------------
(***************************************************************************)
(* User rows: registration and activation, login, the settings a user      *)
(* changes, password resets, and the administrator's edit and ban.         *)
(*                                                                         *)
(* Every handler loads the row and then writes from what it loaded: some   *)
(* columns by name, the preferences as one JSON column, the credentials as *)
(* one JSON list, and the administrator's Save all columns.  No handler    *)
(* holds a lock or a transaction from its read to its write.               *)
(*                                                                         *)
(* A column is unset (0) or holds a value; "nick" stands for the columns   *)
(* nick and avatar.  E-mail addresses are unique in the database, so an    *)
(* address is its row.  gorm is taken to write the named columns of Update *)
(* and Updates, and all columns with Save.                                 *)
(***************************************************************************)
EXTENDS Naturals, FiniteSets

CONSTANTS
    Users,
    Handlers,
    Values,         \* what a column is set to
    MaxEdits,       \* bound: requests that load a row in order to change it
    MaxMails        \* bound: password reset mails of a user

ASSUME AccountsAssumption == /\ Values \subseteq Nat \ {0} /\ MaxEdits \in Nat /\ MaxMails \in Nat

VARIABLES
    acct,           \* the rows
    session,        \* the login session of each user's browser
    resetKey,       \* the cache keys user_reset_<id>; 0: none
    mails,          \* reset mails sent; the secret of a mail is its number
    act,            \* the handlers at work
    edits,
    want,           \* history: the values of the columns as their owners set them
    overlapped,     \* history: columns were written from a row that changed after it was loaded
    decision,       \* history: what the administrator last decided on the status
    lateActivation, \* history: an activation that had read the row before the decision
    resets,         \* history: password changes by each mail
    racedMails      \* history: mails that two handlers held at once

accountHistory == <<want, overlapped, decision, lateActivation, resets, racedMails>>
accountVars ==
    <<acct, session, resetKey, mails, act, edits, accountHistory>>

Options == {"theme", "profile_off"}
Columns == Options \cup {"nick", "password", "two_factor", "authn", "storage"}
Blank == [c \in Columns |-> IF c = "authn" THEN {} ELSE 0]
NoAct == [pc |-> "idle", op |-> "none", user |-> "", arg |-> 0, snap |-> Blank,
          status |-> "", stale |-> FALSE]

(* The types of the variables.                                             *)
AccountTypeOK ==
    /\ \A u \in Users :
        /\ acct[u].status \in {"none", "inactive", "active", "banned"}
        /\ acct[u].row["storage"] \in {0, 1}
        /\ session[u] \in {"out", "half", "in"}
        /\ resetKey[u] \in 0 .. mails[u] /\ mails[u] \in 0 .. MaxMails
    /\ edits \in 0 .. MaxEdits
    /\ \A h \in Handlers : act[h].pc \in {"idle", "write", "delete"}

AccountsInit ==
    /\ acct = [u \in Users |-> [status |-> "none", row |-> Blank]]
    /\ session = [u \in Users |-> "out"]
    /\ resetKey = [u \in Users |-> 0] /\ mails = [u \in Users |-> 0]
    /\ act = [h \in Handlers |-> NoAct] /\ edits = 0
    /\ want = [u \in Users |-> Blank] /\ overlapped = FALSE
    /\ decision = [u \in Users |-> "none"] /\ lateActivation = FALSE
    /\ resets = [u \in Users |-> [m \in 1 .. MaxMails |-> 0]] /\ racedMails = {}

-----------------------------------------------------------------------------
(* Loading and writing a row.                                              *)

GetUserByID(u) == acct[u].status # "none"
GetActiveUserByID(u) == acct[u].status = "active"
GetActiveUserByEmail(u) == GetActiveUserByID(u)

(* Only the columns that the handler will use are kept.                    *)
Loads(h, op, u, cols) ==
    /\ act[h].pc = "idle" /\ edits < MaxEdits /\ edits' = edits + 1
    /\ \E v \in Values : act' = [act EXCEPT ![h] =
            [pc |-> "write", op |-> op, user |-> u, arg |-> v,
             status |-> acct[u].status, stale |-> FALSE,
             snap |-> [c \in Columns |-> IF c \in cols THEN acct[u].row[c] ELSE Blank[c]]]]
    /\ UNCHANGED <<acct, session, resetKey, mails, accountHistory>>

Doing(h, op) == act[h].pc = "write" /\ act[h].op = op

(* Handler h, which goes on as next, has written to the row of u: who      *)
(* loaded the row before is stale now.                                     *)
Proceeds(h, u, next) ==
    act' = [g \in Handlers |-> IF g = h THEN next
                               ELSE IF act[g].pc # "idle" /\ act[g].user = u
                                    THEN [act[g] EXCEPT !.stale = TRUE] ELSE act[g]]

Only(c, v) == [d \in {c} |-> v]

(* The columns in vals, over a row.                                        *)
Over(vals, row) == [c \in Columns |-> IF c \in DOMAIN vals THEN vals[c] ELSE row[c]]

(* User.Update of the columns in vals; meant are the values that the       *)
(* request asks for.                                                       *)
Update(u, vals, meant, excused) ==
    /\ acct' = [acct EXCEPT ![u].row = Over(vals, @)]
    /\ overlapped' = (overlapped \/ excused)
    /\ want' = [want EXCEPT ![u] = IF overlapped' THEN acct'[u].row ELSE Over(meant, @)]

Keep == <<session, resetKey, mails, edits, lateActivation, resets, racedMails>>

(* A column on its own.                                                    *)
UpdateColumn(h, c, v) ==
    LET u == act[h].user IN
    /\ Proceeds(h, u, NoAct) /\ Update(u, Only(c, v), Only(c, v), FALSE)
    /\ UNCHANGED <<Keep, decision>>

-----------------------------------------------------------------------------
(* Registration and login.                                                 *)

(* Register with a new address, or AddUserService.Add of a new row.  With  *)
(* a known address Register at most mails again.                           *)
Register(u, st) ==
    /\ ~GetUserByID(u) /\ acct' = [acct EXCEPT ![u].status = st]
    /\ UNCHANGED <<session, resetKey, mails, act, edits, accountHistory>>

Activate(h, u) == acct[u].status = "inactive" /\ Loads(h, "activate", u, {})

(* Ban blocks an active user and makes any other one active.               *)
Ban(h, u) == GetUserByID(u) /\ Loads(h, "ban", u, {})

(* User.SetStatus, by Activate and by Ban, from the status that was loaded.*)
SetStatus(h) ==
    LET u == act[h].user
        ban == act[h].op = "ban"
        new == IF ban /\ act[h].status = "active" THEN "banned" ELSE "active"
    IN  /\ act[h].pc = "write" /\ act[h].op \in {"activate", "ban"} /\ Proceeds(h, u, NoAct)
        /\ acct' = [acct EXCEPT ![u].status = new]
        /\ decision' = IF ban THEN [decision EXCEPT ![u] = new] ELSE decision
        /\ lateActivation' = (lateActivation \/ (~ban /\ acct[u].status # act[h].status))
        /\ UNCHANGED <<session, resetKey, mails, edits, want, overlapped, resets, racedMails>>

Enters(u, s) ==
    /\ session' = [session EXCEPT ![u] = s]
    /\ UNCHANGED <<acct, resetKey, mails, act, edits, accountHistory>>

(* UserLoginService.Login with the right password.                         *)
Login(u) ==
    /\ acct[u].status = "active" /\ session[u] = "out"
    /\ Enters(u, IF acct[u].row["two_factor"] # 0 THEN "half" ELSE "in")

(* Enable2FA.Login with the right code.                                    *)
Login2FA(u) == session[u] = "half" /\ GetActiveUserByID(u) /\ Enters(u, "in")

FinishLoginAuthn(u) ==
    /\ GetActiveUserByEmail(u) /\ acct[u].row["authn"] # {} /\ session[u] # "in"
    /\ Enters(u, "in")

UserSignOut(u) == session[u] = "in" /\ Enters(u, "out")

-----------------------------------------------------------------------------
(* Settings.                                                               *)

CurrentUser(u) == session[u] = "in" /\ GetActiveUserByID(u)

(* UpdateOption and FinishRegAuthn load the row in CurrentUser.            *)
UpdateOption(h, u) ==
    /\ CurrentUser(u)
    /\ \/ \E op \in {"theme", "homepage"} : Loads(h, op, u, Options)
       \/ \E op \in {"FinishRegAuthn", "DeleteWebAuthn"} : Loads(h, op, u, {"authn"})
       \/ \E op \in {"nick", "password"} : Loads(h, op, u, {})
       \/ Loads(h, "2fa", u, {"two_factor"})

(* User.UpdateOptions writes the whole JSON column from the loaded row.    *)
UpdateOptions(h, c) ==
    LET u == act[h].user
        snap == act[h].snap
    IN  /\ Proceeds(h, u, NoAct)
        /\ Update(u, [d \in Options |-> IF d = c THEN act[h].arg ELSE snap[d]],
                  Only(c, act[h].arg), act[h].stale)
        /\ UNCHANGED <<Keep, decision>>

ThemeChose(h) == Doing(h, "theme") /\ UpdateOptions(h, "theme")
HomePage(h) == Doing(h, "homepage") /\ UpdateOptions(h, "profile_off")

(* The list of credentials, changed from the loaded row's.                 *)
UpdateAuthn(h, keys, meant) ==
    LET u == act[h].user IN
    /\ Proceeds(h, u, NoAct) /\ Update(u, Only("authn", keys), Only("authn", meant), act[h].stale)
    /\ UNCHANGED <<Keep, decision>>

RegisterAuthn(h) ==
    /\ Doing(h, "FinishRegAuthn")
    /\ UpdateAuthn(h, act[h].snap["authn"] \cup {act[h].arg}, want[act[h].user]["authn"] \cup {act[h].arg})

(* A credential that the loaded row does not have leaves the list as it is.*)
RemoveAuthn(h) ==
    /\ Doing(h, "DeleteWebAuthn")
    /\ \E k \in Values :
        UpdateAuthn(h, act[h].snap["authn"] \ {k}, want[act[h].user]["authn"] \ {k})

(* ChangerNick.Update, UseGravatar and UploadAvatar.                       *)
ChangerNick(h) == Doing(h, "nick") /\ UpdateColumn(h, "nick", act[h].arg)

(* PasswordChange.Update with the right old password.                      *)
PasswordChange(h) == Doing(h, "password") /\ UpdateColumn(h, "password", act[h].arg)

(* Enable2FA.Update with the right code: off if the loaded row has it on,  *)
(* and on with the secret that Init2FA has put in the session.             *)
Enable2FA(h) ==
    /\ Doing(h, "2fa")
    /\ UpdateColumn(h, "two_factor", IF act[h].snap["two_factor"] # 0 THEN 0 ELSE act[h].arg)

(* A refused change: a wrong password, code or session.                    *)
SettingRefused(h) ==
    /\ act[h].pc = "write" /\ act[h].op \in {"password", "2fa"}
    /\ act' = [act EXCEPT ![h] = NoAct]
    /\ UNCHANGED <<acct, session, resetKey, mails, edits, accountHistory>>

Storage(u, op) == IF op = "+" THEN acct[u].row["storage"] + 1 ELSE acct[u].row["storage"] - 1

(* User.ChangeStorage: an upload or a deletion moves the used storage, in  *)
(* the database.  Bound: one file, of one byte.                            *)
ChangeStorage(u, op) ==
    /\ GetUserByID(u) /\ acct[u].row["storage"] = IF op = "+" THEN 0 ELSE 1
    /\ act' = [g \in Handlers |-> IF act[g].pc # "idle" /\ act[g].user = u
                                   THEN [act[g] EXCEPT !.stale = TRUE] ELSE act[g]]
    /\ Update(u, Only("storage", Storage(u, op)), Only("storage", Storage(u, op)), FALSE)
    /\ UNCHANGED <<Keep, decision>>

-----------------------------------------------------------------------------
(* Password resets.                                                        *)

(* UserResetEmailService.Reset: a new mail replaces the secret.            *)
ResetEmail(u) ==
    /\ acct[u].status = "active" /\ mails[u] < MaxMails
    /\ mails' = [mails EXCEPT ![u] = @ + 1] /\ resetKey' = [resetKey EXCEPT ![u] = mails[u] + 1]
    /\ UNCHANGED <<acct, session, act, edits, accountHistory>>

(* UserResetService.Reset checks the secret of a mail.                     *)
ResetChecks(h, u) ==
    /\ act[h].pc = "idle" /\ resetKey[u] # 0 /\ GetActiveUserByID(u) /\ edits < MaxEdits
    /\ edits' = edits + 1
    /\ act' = [act EXCEPT ![h] = [NoAct EXCEPT !.pc = "write", !.op = "reset", !.user = u,
                                               !.arg = resetKey[u]]]
    /\ racedMails' = racedMails \cup
            {m \in {<<u, resetKey[u]>>} : \E g \in Handlers : act[g].op = "reset" /\ <<act[g].user, act[g].arg>> = m}
    /\ UNCHANGED <<acct, session, resetKey, mails, want, overlapped, decision, lateActivation, resets>>

(* It writes the password ...                                              *)
Reset(h) ==
    LET u == act[h].user
    IN  /\ Doing(h, "reset") /\ Proceeds(h, u, [act[h] EXCEPT !.pc = "delete"])
        /\ \E v \in Values : Update(u, Only("password", v), Only("password", v), FALSE)
        /\ resets' = [resets EXCEPT ![u][act[h].arg] = @ + 1]
        /\ UNCHANGED <<session, resetKey, mails, edits, decision, lateActivation, racedMails>>

(* ... and deletes the key, whichever mail it is of by now.                *)
ResetDeletes(h) ==
    /\ act[h].pc = "delete" /\ act' = [act EXCEPT ![h] = NoAct]
    /\ resetKey' = [resetKey EXCEPT ![act[h].user] = 0]
    /\ UNCHANGED <<acct, session, mails, edits, accountHistory>>

ResetExpires(u) ==
    /\ resetKey[u] # 0 /\ resetKey' = [resetKey EXCEPT ![u] = 0]
    /\ UNCHANGED <<acct, session, mails, act, edits, accountHistory>>

-----------------------------------------------------------------------------
(* The administrator's edit, AddUserService.Add with an ID.                *)

AddUser(h, u) == GetUserByID(u) /\ Loads(h, "save", u, Columns)

(* The columns of the form, over the loaded row.                           *)
Form(h, tfa) == [c \in {"nick", "two_factor"} |-> IF c = "nick" THEN act[h].arg ELSE tfa]

SavedBlank(h, tfa) == Over(Form(h, tfa), Blank)

Saved(h, tfa) == Over(Form(h, tfa), act[h].snap)

SaveUser(h, st, tfa) ==
    LET u == act[h].user IN
    /\ Doing(h, "save") /\ Proceeds(h, u, NoAct)
    /\ tfa \in {0, acct[u].row["two_factor"]}
    /\ acct' = [acct EXCEPT ![u] = [status |-> st, row |-> Saved(h, tfa)]]
    /\ overlapped' = (overlapped \/ act[h].stale)
    /\ want' = [want EXCEPT ![u] = IF overlapped' THEN Saved(h, tfa) ELSE Over(Form(h, tfa), @)]
    /\ decision' = [decision EXCEPT ![u] = st]
    /\ UNCHANGED Keep

-----------------------------------------------------------------------------
AccountsNext ==
    \/ \E u \in Users :
        \/ \E st \in {"active", "inactive"} : Register(u, st)
        \/ Login(u) \/ Login2FA(u) \/ FinishLoginAuthn(u) \/ UserSignOut(u)
        \/ \E op \in {"+", "-"} : ChangeStorage(u, op)
        \/ ResetEmail(u) \/ ResetExpires(u)
        \/ \E h \in Handlers :
            Activate(h, u) \/ Ban(h, u) \/ AddUser(h, u) \/ UpdateOption(h, u) \/ ResetChecks(h, u)
    \/ \E h \in Handlers :
        \/ SetStatus(h) \/ ThemeChose(h) \/ HomePage(h) \/ RegisterAuthn(h) \/ RemoveAuthn(h)
        \/ ChangerNick(h) \/ PasswordChange(h) \/ Enable2FA(h) \/ SettingRefused(h)
        \/ Reset(h) \/ ResetDeletes(h)
        \/ \E st \in {"active", "inactive", "banned"}, tfa \in Values \cup {0} : SaveUser(h, st, tfa)

AccountsSpec == AccountsInit /\ [][AccountsNext]_accountVars

-----------------------------------------------------------------------------
(* What users set stays set: while no write came from a row that another   *)
(* request had changed since, every column holds the value that was last   *)
(* asked for, the bytes that uploads charged included, although preferences*)
(* and credentials are rewritten as a whole and the administrator's Save   *)
(* rewrites every column (User.UpdateOptions, RegisterAuthn, RemoveAuthn,  *)
(* AddUserService.Add).                                                    *)
SettingsKept == overlapped \/ \A u \in Users : acct[u].row = want[u]

(* A user whom the administrator has blocked stays blocked: no activation  *)
(* link, login or reset makes him active, except an Activate that had read *)
(* the row before the decision (SettingService.Activate, UserService.Ban). *)
BanHolds ==
    \A u \in Users : decision[u] = "banned" => acct[u].status = "banned" \/ lateActivation

(* The link of a reset mail changes the password once, except when two     *)
(* requests with it overlapped (UserResetService.Reset).                   *)
MailResetsOnce ==
    \A u \in Users, m \in 1 .. MaxMails : resets[u][m] <= 1 \/ <<u, m>> \in racedMails

(* What handlers that read a user's row and write it later keep together:  *)
(* the user's settings, the administrator's decisions, single-use links.   *)
AccountsInv == AccountTypeOK /\ SettingsKept /\ BanHolds /\ MailResetsOnce
=============================================================================
